------------------------------ MODULE MCCodecs ------------------------------
(***************************************************************************)
(* Encoders against their decoders, each with the data on which it is      *)
(* explored: the filters of bytes (ByteFilters), CCITT fax (CCITTFax), the *)
(* filters of a stream with their parameters (StreamFilters), the samples  *)
(* of images (ImageSamples), the text of objects (ObjectSyntax), content   *)
(* streams (ContentOps) and the images in them (InlineImages), calculator  *)
(* functions (PSCalculator), functions, shadings and patterns              *)
(* (PaintDicts), forms and images (XObjects), and the encryption of a      *)
(* document with its passwords (DocCrypt). A behaviour is one of one part; *)
(* the variables of the others stay Idle.                                  *)
(***************************************************************************)
EXTENDS Integers, Sequences, FiniteSets, TLC

CONSTANT Idle

VARIABLES
    part,
    \* variables of several parts
    input, encoded, output, stream, ops, text, at, stack, phase, source, doc, writes,
    \* CCITTFax
    white,
    \* StreamFilters
    encodes,
    \* ImageSamples
    img, ideal, spoilt,
    \* ObjectSyntax
    task, result,
    \* ContentOps
    menu, gs, graphicsStack, seen, failed,
    \* InlineImages
    inline, pos, state, skipBytes, rounds,
    \* PSCalculator
    mode, open, program, frames, last, call, calls, made,
    \* PaintDicts
    store, models, edited, written, set,
    \* XObjects
    objs, encs, xobjs, count,
    \* DocCrypt
    alg, pass, params, data, encrypted, file, detects, key, authenticated, opened,
    ObjCache, decrypted, answer, firstKey

faxvars == <<white>>
streamsvars == <<encodes>>
imagesvars == <<img, ideal, spoilt>>
syntaxvars == <<task, result>>
contentvars == <<menu, gs, graphicsStack, seen, failed>>
inlinevars == <<inline, pos, state, skipBytes, rounds>>
calculatorvars == <<mode, open, program, frames, last, call, calls, made>>
paintvars == <<store, models, edited, written, set>>
xobjectsvars == <<objs, encs, xobjs, count>>
cryptvars == <<alg, pass, params, data, encrypted, file, detects, key, authenticated, opened,
    ObjCache, decrypted, answer, firstKey>>
vars == <<part, input, encoded, output, stream, ops, text, at, stack, phase, source, doc,
    writes, faxvars, streamsvars, imagesvars, syntaxvars, contentvars, inlinevars,
    calculatorvars, paintvars, xobjectsvars, cryptvars>>

-----------------------------------------------------------------------------
\* Data of up to six bytes for the filters of bytes, and rows of one and two
\* colours for the predictors.
SeqsUpTo(S, n) == UNION {[1 .. k -> S] : k \in 0 .. n}
Plain(f, d) == [filter |-> f, predictor |-> 1, colors |-> 1, columns |-> 1, filters |-> <<>>, data |-> d]
ByteInputs ==
    {Plain("RunLength", d) : d \in SeqsUpTo({0, 4, 7}, 6)}
    \cup {Plain("ASCIIHex", d) : d \in SeqsUpTo({0, 1, 7}, 2)}
    \cup {Plain("ASCII85", d) : d \in SeqsUpTo({0, 1, 4}, 5)}
    \cup {[filter |-> "Flate", predictor |-> pr, colors |-> c, columns |-> 2, filters |-> <<>>, data |-> d] :
            pr \in {1, 2, 11}, c \in {1, 2}, d \in SeqsUpTo({0, 3, 7}, 4)}
    \cup {[filter |-> f, predictor |-> 15, colors |-> 1, columns |-> 2, filters |-> fs, data |-> d] :
            f \in {"Flate", "LZW"}, fs \in [1 .. 2 -> 0 .. 4], d \in [1 .. 4 -> {0, 3, 7}]}
    \cup {[filter |-> f, predictor |-> 15, colors |-> 2, columns |-> 2, filters |-> fs, data |-> d] :
            f \in {"Flate", "LZW"}, fs \in [1 .. 2 -> 1 .. 4], d \in [1 .. 8 -> {2, 7}]}
    \cup {[filter |-> f, predictor |-> 2, colors |-> c, columns |-> 2, filters |-> <<0, 0>>, data |-> d] :
            f \in {"Flate", "LZW"}, c \in {1, 2}, d \in [1 .. 4 -> {0, 3, 7}]}

Bytes == INSTANCE ByteFilters WITH Half <- 4, Base <- 5, Code <- 4, Inputs <- ByteInputs

-----------------------------------------------------------------------------
\* All images of up to two by three pixels with all parameters, wider ones, and
\* long runs.
Bitmaps(w, h) == [1 .. h -> [1 .. w -> {0, 1}]]
FaxParams == [K : {-1, 0, 1, 2}, EncodedByteAlign : BOOLEAN, EndOfBlock : BOOLEAN, EndOfLine : BOOLEAN,
              Rows : {0, 1, 2}, BlackIs1 : BOOLEAN]
FaxJob(s, im) == s @@ [Columns |-> Len(im[1]), image |-> im]
FaxJobs ==
    {FaxJob(s, im) : s \in {s \in FaxParams : s.EndOfLine => s.K >= 0},
                     im \in Bitmaps(1, 2) \cup Bitmaps(2, 2) \cup Bitmaps(2, 3)}
    \cup {FaxJob(s, im) :
            s \in {s \in FaxParams : /\ ~s.BlackIs1 /\ ~s.EncodedByteAlign /\ ~s.EndOfLine
                                     /\ s.EndOfBlock /\ s.Rows = 0 /\ s.K \in {-1, 2}},
            im \in Bitmaps(6, 2)}
    \cup {FaxJob(s, <<[i \in 1 .. a + b |-> IF i <= a THEN 0 ELSE 1]>>) :
            s \in {s \in FaxParams : s.EndOfBlock /\ s.Rows = 0 /\ ~s.EndOfLine},
            a \in 0 .. 13, b \in {1, 2, 8}}

Fax4 == INSTANCE CCITTFax WITH Unit <- 4, MaxOwn <- 1, MaxCommon <- 2, Jobs <- FaxJobs

-----------------------------------------------------------------------------
Fax == [f |-> "CCITTFaxDecode", k |-> 0, columns |-> 1728, rows |-> 0, eob |-> TRUE]
Predicting(f) == [f |-> f, predictor |-> 1, columns |-> 1, colors |-> 1, bpc |-> 8, early |-> 1]
\* One filter, or a chain of up to three.
Encs == {[f |-> "Raw"], [f |-> "ASCIIHexDecode"], [f |-> "ASCII85Decode"], [f |-> "RunLengthDecode"],
         Fax, [Fax EXCEPT !.k = -1, !.rows = 2, !.eob = FALSE],
         Predicting("LZWDecode"), [Predicting("LZWDecode") EXCEPT !.early = 0],
         Predicting("FlateDecode"), [Predicting("FlateDecode") EXCEPT !.predictor = 11, !.columns = 3]}
TheChains ==
    {[multi |-> FALSE, es |-> <<e>>] : e \in Encs}
    \cup {[multi |-> TRUE, es |-> es] :
            es \in {<<>>} \cup [1 .. 1 -> Encs \ {[f |-> "Raw"]}] \cup [1 .. 2 -> Encs \ {[f |-> "Raw"]}]
                   \cup [1 .. 3 -> {e \in Encs : e.f \in {"ASCII85Decode", "FlateDecode"}}]}

Streams == INSTANCE StreamFilters WITH Chains <- TheChains, MaxEncodes <- 3

-----------------------------------------------------------------------------
\* Images of up to three pixels in a row, with samples of 1, 2, 4 and 8 bits (of bytes of
\* four), and all parts of a gray image of the standard library.
Shape(w, h, bpc, comps, S) == {[w |-> w, h |-> h, bpc |-> bpc, comps |-> comps, samples |-> s] : s \in [1 .. w * h * comps -> S]}
SampleImages ==
    Shape(2, 2, 1, 1, {0, 1}) \cup Shape(3, 2, 1, 1, {0, 1}) \cup Shape(3, 1, 2, 1, 0 .. 3) \cup Shape(3, 2, 2, 1, {1, 2})
    \cup Shape(2, 2, 4, 1, {0, 6, 9}) \cup Shape(2, 1, 8, 1, {5, 160, 250})
    \cup Shape(2, 1, 2, 3, {1, 2}) \cup Shape(3, 1, 2, 3, {0, 3}) \cup Shape(1, 2, 4, 3, {3, 12}) \cup Shape(1, 2, 8, 3, {5, 160})
    \cup Shape(2, 1, 4, 4, {3, 12}) \cup Shape(2, 1, 1, 3, {0, 1})
GoParts ==
    {[pix |-> [i \in 1 .. 12 |-> i], stride |-> 4, x |-> x, y |-> y, dx |-> dx, dy |-> dy] :
        x \in 0 .. 3, y \in 0 .. 2, dx \in 1 .. 4, dy \in 1 .. 3}
GoSubImages == {g \in GoParts : g.x + g.dx <= 4 /\ g.y + g.dy <= 3}

Samples == INSTANCE ImageSamples WITH B <- 4, Images <- SampleImages, GoImages <- GoSubImages, MaxOps <- 2

-----------------------------------------------------------------------------
\* Every kind of object, on its own and in an array and a dictionary; arrays and dictionaries
\* of two and three, and nested ones; with what other writers put between tokens.
PName(s) == [kind |-> "name", name |-> s]
PStr(s) == [kind |-> "string", hex |-> FALSE, bytes |-> s]
PHex(s) == [kind |-> "string", hex |-> TRUE, bytes |-> s]
PInt(n, d) == [kind |-> "int", neg |-> n, digits |-> d]
PReal(n, d, f) == [kind |-> "real", neg |-> n, digits |-> d, frac |-> f]
PRef(n, g) == [kind |-> "ref", num |-> n, gen |-> g]
PArr(s) == [kind |-> "array", vals |-> s]
PDict(k, v) == [kind |-> "dict", keys |-> k, vals |-> v]
PNull == [kind |-> "null"]
PBool(b) == [kind |-> "bool", val |-> b]
keyA == <<65>>
keyNull == <<66, 110, 117, 108, 108>>
MaxInt == <<57, 50, 50, 51, 51, 55, 50, 48, 51, 54, 56, 53, 52, 55, 55, 53, 56, 48, 55>>
TooBig == <<57, 50, 50, 51, 51, 55, 50, 48, 51, 54, 56, 53, 52, 55, 55, 53, 56, 48, 56>>
PAtoms == {PName(<<>>), PName(keyA), PName(<<35, 65, 32>>), PName(<<47, 37, 40>>), PName(<<255, 0>>), PName(keyNull),
  PStr(<<>>), PStr(<<40, 92, 41>>), PStr(<<13, 10, 55>>), PStr(<<41, 255, 0>>), PHex(<<>>), PHex(<<10, 175>>),
  PInt(FALSE, <<48>>), PInt(TRUE, <<49, 50>>), PInt(FALSE, MaxInt), PReal(FALSE, <<48>>, <<53>>), PReal(TRUE, <<50>>, <<>>), PReal(FALSE, TooBig, <<>>), PReal(TRUE, <<49>>, <<48, 53>>),
  PRef(<<55>>, <<48>>), PRef(<<56, 51, 56, 56, 54, 48, 55>>, <<54, 53, 53, 51, 53>>), PRef(<<49, 48, 48, 48, 48, 48, 48, 48>>, <<54, 53, 53, 51, 53>>), PNull, PBool(TRUE), PBool(FALSE)}
FewObjs == {PName(keyA), PStr(<<41>>), PInt(TRUE, <<49>>), PInt(FALSE, <<50>>), PReal(FALSE, <<48>>, <<53>>), PRef(<<55>>, <<48>>), PNull, PBool(FALSE), PArr(<<>>), PDict(<<>>, <<>>)}
PairObjs == {PArr(<<x, y>>) : x \in FewObjs, y \in FewObjs} \cup {PDict(<<keyA, keyNull>>, <<x, y>>) : x \in FewObjs, y \in FewObjs}
ThreeObjs == {PArr(<<PInt(FALSE, <<49>>), x, y>>) : x \in FewObjs, y \in FewObjs}
NestedObjs == {PArr(<<PDict(<<keyA>>, <<x>>), PArr(<<x>>)>>) : x \in FewObjs} \cup {PDict(<<keyA, <<66>>>>, <<PDict(<<keyA>>, <<x>>), PArr(<<x, PDict(<<<<66>>>>, <<x>>)>>)>>) : x \in FewObjs}
SyntaxObjects == PAtoms \cup {PArr(<<x>>) : x \in PAtoms} \cup {PDict(<<keyA>>, <<x>>) : x \in PAtoms} \cup PairObjs \cup ThreeObjs \cup NestedObjs
SyntaxSeparators == {<<>>, <<10>>, <<0, 13, 10>>, <<32, 37, 41, 62, 10>>}
EndObj == <<10, 101, 110, 100, 111, 98, 106>>
SyntaxTails == [core |-> {<<>>, EndObj}, fdf |-> {EndObj}, content |-> {<<32, 84, 106, 10>>}, cmap |-> {<<10>>}]

Syntax == INSTANCE ObjectSyntax WITH Objects <- SyntaxObjects, Separators <- SyntaxSeparators, Tails <- SyntaxTails

-----------------------------------------------------------------------------
\* Colour spaces by name and sets of operands with how many of them make content.
PlainBase == [fam |-> "none"]
ContentSpaces == [Spot |-> [fam |-> "Separation", n |-> 1, base |-> [fam |-> "ICCBased", n |-> 3, base |-> PlainBase]],
               Bad |-> [fam |-> "ICCBased", n |-> 2, base |-> PlainBase],
               Tiles |-> [fam |-> "Pattern", n |-> 1, base |-> [fam |-> "DeviceGray", n |-> 1, base |-> PlainBase]],
               Table |-> [fam |-> "Indexed", n |-> 1, base |-> [fam |-> "DeviceRGB", n |-> 3, base |-> PlainBase], hival |-> 0]]
ContentMenus ==
    {[operands |-> {}, max |-> 2], [operands |-> {"q", "Q", "cm"}, max |-> 4], [operands |-> {"q", "Q", "rg", "S"}, max |-> 5],
     [operands |-> {"q", "Q", "CS", "SC", "SCN", "G"}, max |-> 3], [operands |-> {"BT", "ET", "Tm", "TJ", "Tj", "T*"}, max |-> 3]}

Content == INSTANCE ContentOps WITH Resources <- ContentSpaces, Menus <- ContentMenus

-----------------------------------------------------------------------------
\* Short data over the bytes that matter, with every encoder, and attributes of others.
ImageBytes == UNION {[1 .. n -> {69, 73, 32, 122}] : n \in 1 .. 4} \cup {<<41, 69, 73, 10, 122>>, <<69, 73, 10, 41, 122>>, <<69, 73, 32, 81, 10>>}
InlineOf(c, d) == [w |-> 2, h |-> 1, bpc |-> 8, comps |-> c, data |-> d]
InlineEncoder(f) == [f |-> f, Predictor |-> 1, Columns |-> 1, Colors |-> 1, EarlyChange |-> 1]
InlineEncoders == {InlineEncoder(f) : f \in {"Raw", "FlateDecode", "RunLengthDecode", "ASCIIHexDecode", "ASCII85Decode", "CCITTFaxDecode", "DCTDecode", "LZWDecode"}}
  \cup {[InlineEncoder("FlateDecode") EXCEPT !.Predictor = 11], [InlineEncoder("LZWDecode") EXCEPT !.EarlyChange = 0], [f |-> "Multi", es |-> <<InlineEncoder("ASCII85Decode"), InlineEncoder("FlateDecode")>>]}
InlineMade == {[image |-> InlineOf(1, d), encoder |-> InlineEncoder("Raw")] : d \in ImageBytes} \cup {[image |-> InlineOf(c, <<122, 10>>), encoder |-> e] : c \in {1, 2, 3, 4}, e \in InlineEncoders}
InlineSize == {<<"W", [int |-> 2]>>, <<"Height", [int |-> 1]>>}
InlineFilters == {[name |-> f] : f \in {"AHx", "A85", "DCT", "Fl", "LZW", "CCF", "RL", "None"}} \cup {[names |-> n] : n \in {<<>>, <<"Fl">>, <<"A85", "Fl">>, <<"AHx", "LZW">>, <<"ASCIIHexDecode", "LZWDecode">>}}
InlineParms == {{}, {<<"DP", [dict |-> [Predictor |-> 11, Columns |-> 2, EarlyChange |-> 0]]>>}, {<<"DecodeParms", [arr |-> <<[dict |-> [Predictor |-> 2]]>>]>>}, {<<"DP", [arr |-> <<[dict |-> <<>>], [dict |-> [Predictor |-> 2]]>>]>>}}
InlineOthers == {[pairs |-> InlineSize \cup {<<"F", f>>} \cup dp \cup x, data |-> <<122>>] : f \in InlineFilters, dp \in InlineParms, x \in {{}, {<<"IM", [bool |-> TRUE]>>, <<"Length", [int |-> 1]>>}, {<<"CS", [name |-> "RGB"]>>, <<"BPC", [int |-> 4]>>}, {<<"CS", [indexed |-> "RGB"]>>}, {<<"Unknown", [int |-> 1]>>}}}
InlineFollowers == {<<>>, <<122, 32, 81, 10>>, <<81, 10>>, <<81, 10, 66, 84, 10>>}

Inline == INSTANCE InlineImages WITH Images <- InlineMade, Others <- InlineOthers, Followers <- InlineFollowers, Window <- 5, MaxRounds <- 2

-----------------------------------------------------------------------------
\* Every operator with operands of every kind, programs with a known result, and
\* texts of programs, whole and cut short.
PsInt(i) == [k |-> "int", v |-> i]
PsReal(n, d) == [k |-> "real", q |-> [n |-> n, d |-> d]]
PsBool(b) == [k |-> "bool", b |-> b]
PsProg(p) == [k |-> "prog", p |-> p]
PsOp(name) == [k |-> "op", name |-> name]

PsLeaves == {PsInt(-3), PsInt(0), PsInt(2), PsReal(1, 2), PsReal(-3, 2), PsBool(TRUE), PsBool(FALSE), PsProg(<<>>)}
PsOnes == {<<x, PsOp(f)>> : x \in PsLeaves \ {PsBool(TRUE)},
          f \in {"abs", "neg", "floor", "ceiling", "round", "truncate", "cvi", "cvr", "not", "pop", "dup", "index"}}
     \cup {<<x, PsOp("sqrt")>> : x \in {PsInt(-1), PsInt(4), PsReal(1, 4), PsBool(TRUE)}}
     \cup {<<x, PsOp(f)>> : f \in {"cos", "sin"}, x \in {PsInt(0), PsInt(90), PsReal(180, 1), PsInt(270), PsProg(<<>>)}}
     \cup {<<x, PsOp(f)>> : f \in {"log", "ln"}, x \in {PsInt(0), PsInt(1), PsInt(-1), PsInt(10), PsBool(TRUE)}}
PsTwos == {<<y, x, PsOp(f)>> : x \in PsLeaves \ {PsBool(FALSE)}, y \in PsLeaves \ {PsReal(-3,2)},
          f \in {"add", "sub", "mul", "div", "idiv", "mod", "and", "or", "xor", "bitshift",
                 "eq", "ne", "gt", "ge", "lt", "le", "exch", "if"}}
     \cup {<<PsInt(7), PsInt(8), y, x, PsOp(f)>> : f \in {"copy", "index", "roll"}, y \in {PsInt(9), PsInt(2), PsInt(3), PsInt(-1)}, x \in {PsInt(-2), PsInt(1), PsInt(5), PsInt(0), PsInt(2), PsReal(1, 2)}}
     \cup {<<y, x, PsOp("exp")>> : y \in {PsInt(-2), PsInt(0), PsReal(1, 2)}, x \in {PsInt(3), PsInt(0), PsInt(-1)}}
     \cup {<<y, x, PsOp("atan")>> : y \in {PsInt(-2), PsInt(0), PsInt(2)}, x \in {PsInt(2), PsInt(0), PsInt(-2)}}
     \cup {<<PsInt(100), PsInt(-28), PsOp(f)>> : f \in {"add", "sub", "mul", "bitshift", "xor"}}
     \cup {<<PsOp(f)>> : f \in {"add", "copy", "ifelse", "foo", "dup", "bitshift"}}
Conditional(c, p, q) == <<c, PsProg(p), PsProg(q), PsOp("ifelse")>>

MaxOf == <<PsInt(2), PsOp("copy"), PsOp("gt"), PsProg(<<PsOp("pop")>>), PsProg(<<PsOp("exch"), PsOp("pop")>>), PsOp("ifelse")>>
Clamp == <<PsOp("dup"), PsInt(0), PsOp("lt"), PsProg(<<PsOp("pop"), PsInt(0)>>), PsOp("if"),
           PsOp("dup"), PsInt(1), PsOp("gt"), PsProg(<<PsOp("pop"), PsInt(1)>>), PsOp("if"), PsOp("exch"), PsOp("pop")>>
Sum3 == <<PsInt(3), PsInt(1), PsOp("roll"), PsOp("sub"), PsOp("exch"), PsInt(2), PsOp("mul"), PsOp("add")>>
Tint == <<PsReal(1, 2), PsOp("mul"), PsInt(1), PsOp("exch"), PsOp("sub"), PsInt(1), PsOp("index"), PsOp("add")>>
Deep == <<PsInt(1), PsInt(2), PsInt(3), PsInt(4), PsInt(5), PsInt(6), PsOp("pop"), PsOp("pop")>>
DeepCopy == <<PsInt(1), PsInt(2), PsInt(3), PsInt(3), PsOp("copy"), PsInt(2), PsOp("copy"), PsOp("exch")>>
Thirds == <<PsReal(1, 3), PsBool(TRUE), PsProg(<<PsBool(FALSE), PsProg(<<PsInt(-5)>>)>>), PsInt(-12)>>
Bad == <<PsOp("dup"), PsOp("div"), PsOp("not")>>
PsNamed == {MaxOf, Clamp, Sum3, Tint, Deep, DeepCopy, Thirds, Bad}
PsPrograms == PsOnes \cup PsTwos \cup PsNamed
     \cup {Conditional(c, <<PsInt(1)>>, q) : c \in {PsBool(TRUE), PsBool(FALSE), PsInt(1)}, q \in {<<PsInt(2)>>, <<>>}}
     \cup {<<PsBool(TRUE), PsInt(2), PsInt(3), PsOp("ifelse")>>}
PsArgs == {<<>>, <<PsReal(1, 2), PsReal(2, 1)>>, <<PsReal(2, 1), PsReal(-1, 2)>>}
PsArgs3 == {<<PsReal(1, 1), PsReal(2, 1), PsReal(3, 1)>>}
PsMax(a, b) == IF a.q.n * b.q.d > b.q.n * a.q.d THEN a.q ELSE b.q
PsFrac(n, d) == [n |-> n, d |-> d]
PsWanted ==
    {[p |-> MaxOf, args |-> a, values |-> <<PsMax(a[1], a[2])>>] : a \in PsArgs \ {<<>>}}
    \cup {[p |-> Clamp, args |-> a,
           values |-> <<IF a[2].q.n < 0 THEN PsFrac(0, 1) ELSE IF a[2].q.n > a[2].q.d THEN PsFrac(1, 1) ELSE a[2].q>>] : a \in PsArgs \ {<<>>}}
    \cup {[p |-> Sum3, args |-> a, values |-> <<PsFrac(a[1].q.n - a[2].q.n + 2 * a[3].q.n, 1)>>] : a \in PsArgs3}
    \cup {[p |-> Tint, args |-> <<PsReal(1, 2), PsReal(2, 1)>>, values |-> <<PsFrac(1, 2), PsFrac(1, 2)>>]}
PsWord(w) == [u |-> "word", w |-> w]
PsSpace == [u |-> "space"]
PsOpen == [u |-> "{"]
PsClose == [u |-> "}"]
PsNumber(o) == [u |-> "number", o |-> o]
PsTruth(b) == [u |-> "bool", b |-> b]
PsPointed == [u |-> "pointed"]
PsTexts == {<<>>, <<PsOpen>>, <<PsSpace, PsOpen, PsClose>>, <<PsNumber(PsInt(1)), PsSpace>>, <<PsOpen, PsNumber(PsInt(1))>>, <<PsOpen, PsNumber(PsInt(12))>>, <<PsOpen, PsNumber(PsInt(1)), PsSpace, PsOpen, PsNumber(PsInt(2)), PsClose>>,
          <<PsOpen, PsNumber(PsInt(1)), PsOpen, PsWord("dup"), PsClose, PsClose>>, <<PsOpen, PsTruth(TRUE), PsWord("not"), PsClose, PsSpace>>, <<PsOpen, PsWord("dup"), PsTruth(TRUE), PsClose>>,
          <<PsOpen, PsPointed, PsSpace, PsWord("add"), PsClose>>, <<PsOpen, PsWord("dup"), PsSpace, PsWord("mul"), PsSpace, PsClose, PsSpace, PsWord("add")>>}

Calc == INSTANCE PSCalculator WITH
    IntBits <- 8, StackLimit <- 5, MaxCalls <- 2, Texts <- PsTexts, Wanted <- PsWanted, NotMade <- Idle,
    Inputs <- PsArgs \cup PsArgs3, Functions <- PsNamed, Lines <- PsPrograms \ PsNamed

-----------------------------------------------------------------------------
\* Functions, shadings and patterns of every type, with entries direct, by reference
\* and missing.
PdInt(x) == [t |-> "int", x |-> x]
PdName(x) == [t |-> "name", x |-> x]
PdRef(i) == [t |-> "ref", id |-> i]
PdArr(e) == [t |-> "arr", e |-> e]
PdInts(n) == PdArr([i \in 1..n |-> PdInt(i)])
PdDict(d) == [t |-> "dict", d |-> d]
PdInd(v) == [o |-> "ind", v |-> v]
PdNone == [t |-> "absent"]
PdNoEnc == <<PdNone, PdNone>>
PdFlate == <<PdName("Flate"), PdNone>>
PdPredict == <<PdName("Flate"), PdDict([Predictor |-> PdInt(12)])>>
PdStream(d, enc, c) == [o |-> "stream", d |-> d, data |-> [enc |-> enc, c |-> c]]
PdAdd(d, e) == [k \in DOMAIN d \cup DOMAIN e |-> IF k \in DOMAIN e THEN e[k] ELSE d[k]]

Fn2 == [FunctionType |-> PdInt(2), Domain |-> PdInts(2), N |-> PdInt(1)]
Fn2s == {Fn2, PdAdd(Fn2, [C0 |-> PdInts(3), C1 |-> PdRef(5), Range |-> PdInts(6)]), PdAdd(Fn2, [C0 |-> PdInts(1)])}
Fn0 == [FunctionType |-> PdInt(0), Domain |-> PdInts(2), Range |-> PdRef(4), Size |-> PdInts(1), BitsPerSample |-> PdInt(8)]
Fn0s == {PdStream(Fn0, PdNoEnc, "c1"), PdStream(PdAdd(Fn0, [Encode |-> PdInts(2), Decode |-> PdInts(2), Order |-> PdInt(3), Filter |-> PdName("Flate")]), PdFlate, "c1"),
         PdStream(PdAdd(Fn0, [BitsPerSample |-> PdInt(3)]), PdNoEnc, "c1")}
Fn4 == [FunctionType |-> PdInt(4), Domain |-> PdInts(2)]
Fn4s == {PdStream(Fn4, PdNoEnc, "c2"), PdStream(PdAdd(Fn4, [Range |-> PdInts(2), Filter |-> PdName("Flate")]), PdFlate, "c2")}
Fn3 == [FunctionType |-> PdInt(3), Domain |-> PdInts(2), Functions |-> PdArr(<<PdRef(2), PdDict(Fn2)>>), Bounds |-> PdInts(1), Encode |-> PdInts(4)]
PdMisc == <<PdInd(PdInts(2)), PdInd(PdInts(3))>>
FnDocs == {<<PdInd(PdDict(Fn3)), f, f>> \o PdMisc : f \in Fn0s \cup Fn4s} \cup {<<PdInd(PdDict(f)), PdInd(PdDict(Fn2)), PdInd(PdDict(Fn3))>> \o PdMisc : f \in Fn2s}
Sh(n) == [ShadingType |-> PdInt(n), ColorSpace |-> PdName("DeviceRGB")]
PdMesh == [BitsPerCoordinate |-> PdInt(16), BitsPerComponent |-> PdInt(8), Decode |-> PdInts(6)]
PdFlagged == PdAdd(PdMesh, [BitsPerFlag |-> PdInt(2)])
PdFns == {PdRef(2), PdArr(<<PdRef(2), PdRef(3)>>), PdArr(<<PdRef(2)>>), PdDict(Fn2), PdRef(4)}
PdShadings ==
    {PdAdd(Sh(1), [Function |-> f, Matrix |-> PdRef(4)]) : f \in PdFns}
    \cup {PdAdd(Sh(2), [Function |-> PdRef(2), Coords |-> PdInts(4), Extend |-> PdRef(4), Domain |-> PdInts(2)]),
          PdAdd(Sh(2), [Function |-> PdRef(2), Coords |-> PdInts(6)]),
          PdAdd(Sh(3), [Function |-> PdRef(2), Coords |-> PdInts(6), BBox |-> PdInts(4), Background |-> PdRef(5)])}
    \cup {PdAdd(PdAdd(Sh(n), PdFlagged), [Function |-> PdArr(<<PdRef(2), PdRef(3)>>)]) : n \in {4, 6, 7}}
    \cup {PdAdd(Sh(n), PdFlagged) : n \in {4, 6, 7}}
    \cup {PdAdd(PdAdd(Sh(5), PdMesh), [VerticesPerRow |-> PdInt(2)]), PdAdd(PdAdd(Sh(5), PdMesh), [VerticesPerRow |-> PdRef(4)])}
ShDocs == {<<PdInd(PdDict(sh)), CHOOSE f \in Fn0s : "Order" \in DOMAIN f.d, PdInd(PdDict(Fn2))>> \o PdMisc : sh \in PdShadings}
PdTile == [PatternType |-> PdInt(1), PaintType |-> PdInt(1), TilingType |-> PdInt(1), BBox |-> PdInts(4), XStep |-> PdInt(1), YStep |-> PdInt(1),
         Resources |-> PdDict([Font |-> PdInt(7), Other |-> PdInt(8)]), Matrix |-> PdInts(6)]
PdTiles == {PdStream(PdTile, PdNoEnc, "c1"), PdStream(PdAdd(PdTile, [Filter |-> PdName("Flate"), DecodeParms |-> PdPredict[2], Resources |-> PdRef(3)]), PdPredict, "c1"), PdInd(PdDict(PdTile))}
ShP == [PatternType |-> PdInt(2), Shading |-> PdRef(3), Matrix |-> PdInts(6)]
ShPs == {PdInd(PdDict(ShP)), PdInd(PdDict(PdAdd(ShP, [Shading |-> PdDict(PdAdd(Sh(1), [Function |-> PdDict(Fn2)])), ExtGState |-> PdDict([SA |-> PdInt(1)])]))), PdInd(PdDict(PdAdd(ShP, [Matrix |-> PdRef(4)])))}
TileDocs == {<<x, PdInd(PdDict(Fn2)), PdInd(PdDict([XObject |-> PdInt(7), Odd |-> PdInt(1)]))>> \o PdMisc : x \in PdTiles}
ShPDocs == {<<x, PdInd(PdDict(Fn2)), PdInd(PdDict(PdAdd(Sh(2), [Function |-> PdRef(2), Coords |-> PdInts(4)])))>> \o PdMisc : x \in ShPs}
PdDocs == FnDocs \cup ShDocs \cup TileDocs \cup ShPDocs

Paint == INSTANCE PaintDicts WITH
    Docs <- PdDocs, MaxLoads <- 2, MaxWrites <- 2, Contents <- {"c2"}, NotYet <- Idle,
    Encoders <- {PdNoEnc, PdFlate, PdPredict}

-----------------------------------------------------------------------------
\* Forms and images with and without filters, some that are refused, and images with and
\* without alpha; an encoder for faxes and one with a predictor.
XoV(k) == <<"val", k>>
XoForm == [Subtype |-> <<"name", "Form">>, BBox |-> XoV("BBox"), Matrix |-> XoV("Matrix"), Resources |-> <<"dict", "r">>, Metadata |-> XoV("m")]
XoImg == [Subtype |-> <<"name", "Image">>, Width |-> <<"int", 3>>, Height |-> <<"int", 2>>, BitsPerComponent |-> <<"int", 8>>, ColorSpace |-> <<"comps", 3>>, XoMask |-> XoV("Mask"), SMask |-> <<"stream", 2>>]
XoMask == [Subtype |-> <<"name", "Image">>, Width |-> <<"int", 3>>, Height |-> <<"int", 2>>, BitsPerComponent |-> <<"int", 8>>, ColorSpace |-> <<"comps", 1>>, Matte |-> <<"comps", 3>>]
XoAdd(d, e) == [k \in DOMAIN d \cup DOMAIN e |-> IF k \in DOMAIN e THEN e[k] ELSE d[k]]
XoC(x) == <<<<"data", x>>>>
XoSt(d, bytes) == [d |-> d, data |-> bytes]
XoM == XoSt(XoMask, XoC("mask"))
XoDocs == {<<XoSt(XoForm, XoC("a"))>>, <<XoSt(XoAdd(XoForm, [Filter |-> <<"flate">>]), Append(XoC("a"), <<"flate">>))>>,
         <<XoSt(XoAdd(XoForm, [Filter |-> <<"fax">>, DecodeParms |-> <<"parms", 3, 1>>]), XoC("a"))>>,
         <<XoSt(XoAdd(XoForm, [Resources |-> XoV("x")]), XoC("a"))>>, <<XoSt(XoAdd(XoForm, [Filter |-> <<"crypt">>]), XoC("a"))>>,
         <<XoSt(XoImg, XoC("a")), XoM>>,
         <<XoSt(XoAdd(XoImg, [Filter |-> <<"png">>, DecodeParms |-> <<"parms", 3, 3>>]), XoC("a") \o <<<<"rows", 9>>, <<"flate">>>>), XoM>>,
         <<XoSt(XoAdd(XoImg, [Filter |-> <<"fax">>, DecodeParms |-> <<"parms", 3, 1>>, ColorSpace |-> <<"comps", 1>>]), XoC("a") \o <<<<"fax", 3>>>>), XoM>>,
         <<XoSt(XoAdd(XoImg, [Width |-> XoV("w")]), XoC("a")), XoM>>}
XoOwn == <<[kind |-> "fax", cols |-> 1728, colors |-> 1], [kind |-> "sub", cols |-> 2, colors |-> 1]>>
XoImages == {[w |-> 4, comps |-> 1, data |-> XoC("g"), alpha |-> <<>>], [w |-> 3, comps |-> 3, data |-> XoC("c"), alpha |-> XoC("alpha")],
           [w |-> 3, comps |-> 2, data |-> XoC("d"), alpha |-> <<>>]}

XObj == INSTANCE XObjects WITH
    Docs <- XoDocs, Own <- XoOwn, Images <- XoImages, MaxModels <- 2, MaxCalls <- 3, NotOpen <- Idle,
    Contents <- {XoC("n")}

-----------------------------------------------------------------------------
\* Documents to encrypt.  The first object is the document information, the fourth
\* the encryption dictionary.
Obj(kind, strs, refs) == [kind |-> kind, strs |-> strs, refs |-> refs, crypt |-> "none", within |-> 0]
Str(id, entry) == [id |-> id, at |-> entry]
Ref(to, entry) == [to |-> to, at |-> entry]
Doc(second, third) ==
    <<Obj("dict", <<Str("a", "Title")>>, {}), second, third, Obj("encrypt", <<Str("z", "O")>>, {})>>

\* Dictionaries that refer to each other, or share a string.
PlainDocs ==
    {Doc(Obj(k, <<Str("b", entry), Str(id, "T")>>, refs), Obj("dict", <<Str("d", "T")>>, {Ref(2, "P")})) :
        k \in {"dict", "sig"}, entry \in {"Contents", "Parent"}, id \in {"c", "d"},
        refs \in {{}, {Ref(3, "Annots"), Ref(2, "Self")}}}

\* A stream with or without a crypt filter of its own.
StreamDocs ==
    {Doc([Obj(k, <<Str("b", "T")>>, {Ref(3, "Next")}) EXCEPT !.crypt = c], Obj("dict", <<Str("d", "T")>>, {Ref(2, "Parent")})) :
        k \in {"stream", "xref"}, c \in {"none", "StdCF", "unknown"}}

\* The third object is written within the second, and is reached from the fifth.
CompressedDocs ==
    {Append(Doc(Obj("objstm", <<>>, {}), [Obj("dict", <<Str("d", "T")>>, {}) EXCEPT !.within = 2]),
            Obj("dict", <<>>, {Ref(3, "P")}))}

Pass == {<<>>, <<1>>, <<1, 2, 3>>}
Small == <<Obj("dict", <<Str("a", "Title")>>, {}), Obj("dict", <<Str("b", "T")>>, {})>>

\* One pair of passwords for all documents, and all pairs for one document.
MCSetups ==
    [doc : PlainDocs \cup StreamDocs \cup CompressedDocs,
     pass : {[user |-> <<1>>, owner |-> <<1, 2, 3>>, tried |-> {<<1>>, <<8>>}]}]
    \cup [doc : {Small}, pass : [user : Pass, owner : Pass, tried : {Pass \cup {<<8>>}}]]

Crypt == INSTANCE DocCrypt WITH
    PadWidth <- 2, PassWidth <- 2, MaxRound <- 2, PermOwner <- 9, Setups <- MCSetups,
    Algorithms <- {"V2", "AESV2", "AESV3"}, Info <- 1, EncryptNum <- 4, MaxWrites <- 2

-----------------------------------------------------------------------------
\* The variables of a part, while another one runs.
NoFax4 ==
    /\ white = Idle
NoStreams ==
    /\ encodes = Idle
NoSamples ==
    /\ img = Idle /\ ideal = Idle /\ spoilt = Idle
NoSyntax ==
    /\ task = Idle /\ result = Idle
NoContent ==
    /\ menu = Idle /\ gs = Idle /\ graphicsStack = Idle /\ seen = Idle /\ failed = Idle
NoInline ==
    /\ inline = Idle /\ pos = Idle /\ state = Idle /\ skipBytes = Idle /\ rounds = Idle
NoCalc ==
    /\ mode = Idle /\ open = Idle /\ program = Idle /\ frames = Idle /\ last = Idle
    /\ call = Idle /\ calls = Idle /\ made = Idle
NoPaint ==
    /\ store = Idle /\ models = Idle /\ edited = Idle /\ written = Idle /\ set = Idle
NoXObj ==
    /\ objs = Idle /\ encs = Idle /\ xobjs = Idle /\ count = Idle
NoCrypt ==
    /\ alg = Idle /\ pass = Idle /\ params = Idle /\ data = Idle /\ encrypted = Idle
    /\ file = Idle /\ detects = Idle /\ key = Idle /\ authenticated = Idle
    /\ opened = Idle /\ ObjCache = Idle /\ decrypted = Idle /\ answer = Idle
    /\ firstKey = Idle

Init ==
    \/ part = "bytes" /\ Bytes!Init
         /\ stream = Idle /\ ops = Idle /\ text = Idle /\ at = Idle /\ stack = Idle
         /\ phase = Idle /\ source = Idle /\ doc = Idle /\ writes = Idle /\ NoFax4
         /\ NoStreams /\ NoSamples /\ NoSyntax /\ NoContent /\ NoInline /\ NoCalc
         /\ NoPaint /\ NoXObj /\ NoCrypt
    \/ part = "fax" /\ Fax4!Init
         /\ stream = Idle /\ ops = Idle /\ text = Idle /\ at = Idle /\ stack = Idle
         /\ phase = Idle /\ source = Idle /\ doc = Idle /\ writes = Idle /\ NoStreams
         /\ NoSamples /\ NoSyntax /\ NoContent /\ NoInline /\ NoCalc /\ NoPaint
         /\ NoXObj /\ NoCrypt
    \/ part = "streams" /\ Streams!Init
         /\ encoded = Idle /\ ops = Idle /\ text = Idle /\ at = Idle /\ stack = Idle
         /\ phase = Idle /\ source = Idle /\ doc = Idle /\ writes = Idle /\ NoFax4
         /\ NoSamples /\ NoSyntax /\ NoContent /\ NoInline /\ NoCalc /\ NoPaint
         /\ NoXObj /\ NoCrypt
    \/ part = "images" /\ Samples!Init
         /\ input = Idle /\ encoded = Idle /\ output = Idle /\ stream = Idle
         /\ text = Idle /\ at = Idle /\ stack = Idle /\ phase = Idle /\ source = Idle
         /\ doc = Idle /\ writes = Idle /\ NoFax4 /\ NoStreams /\ NoSyntax /\ NoContent
         /\ NoInline /\ NoCalc /\ NoPaint /\ NoXObj /\ NoCrypt
    \/ part = "syntax" /\ Syntax!Init
         /\ input = Idle /\ encoded = Idle /\ output = Idle /\ stream = Idle
         /\ ops = Idle /\ phase = Idle /\ source = Idle /\ doc = Idle /\ writes = Idle
         /\ NoFax4 /\ NoStreams /\ NoSamples /\ NoContent /\ NoInline /\ NoCalc
         /\ NoPaint /\ NoXObj /\ NoCrypt
    \/ part = "content" /\ Content!Init
         /\ input = Idle /\ encoded = Idle /\ output = Idle /\ text = Idle
         /\ stack = Idle /\ source = Idle /\ doc = Idle /\ writes = Idle /\ NoFax4
         /\ NoStreams /\ NoSamples /\ NoSyntax /\ NoInline /\ NoCalc /\ NoPaint
         /\ NoXObj /\ NoCrypt
    \/ part = "inline" /\ Inline!Init
         /\ input = Idle /\ encoded = Idle /\ output = Idle /\ ops = Idle /\ at = Idle
         /\ stack = Idle /\ phase = Idle /\ doc = Idle /\ writes = Idle /\ NoFax4
         /\ NoStreams /\ NoSamples /\ NoSyntax /\ NoContent /\ NoCalc /\ NoPaint
         /\ NoXObj /\ NoCrypt
    \/ part = "calculator" /\ Calc!Init
         /\ input = Idle /\ encoded = Idle /\ output = Idle /\ stream = Idle
         /\ ops = Idle /\ at = Idle /\ phase = Idle /\ source = Idle /\ doc = Idle
         /\ writes = Idle /\ NoFax4 /\ NoStreams /\ NoSamples /\ NoSyntax /\ NoContent
         /\ NoInline /\ NoPaint /\ NoXObj /\ NoCrypt
    \/ part = "paint" /\ Paint!Init
         /\ input = Idle /\ encoded = Idle /\ output = Idle /\ stream = Idle
         /\ ops = Idle /\ text = Idle /\ at = Idle /\ stack = Idle /\ phase = Idle
         /\ source = Idle /\ NoFax4 /\ NoStreams /\ NoSamples /\ NoSyntax /\ NoContent
         /\ NoInline /\ NoCalc /\ NoXObj /\ NoCrypt
    \/ part = "xobjects" /\ XObj!Init
         /\ input = Idle /\ encoded = Idle /\ output = Idle /\ stream = Idle
         /\ ops = Idle /\ text = Idle /\ at = Idle /\ stack = Idle /\ phase = Idle
         /\ source = Idle /\ writes = Idle /\ NoFax4 /\ NoStreams /\ NoSamples
         /\ NoSyntax /\ NoContent /\ NoInline /\ NoCalc /\ NoPaint /\ NoCrypt
    \/ part = "crypt" /\ Crypt!Init
         /\ input = Idle /\ encoded = Idle /\ output = Idle /\ stream = Idle
         /\ ops = Idle /\ at = Idle /\ stack = Idle /\ NoFax4 /\ NoStreams /\ NoSamples
         /\ NoSyntax /\ NoContent /\ NoInline /\ NoCalc /\ NoPaint /\ NoXObj

BytesStep ==
    /\ part = "bytes" /\ Bytes!Next
    /\ UNCHANGED <<part, stream, ops, text, at, stack, phase, source, doc, writes, faxvars,
        streamsvars, imagesvars, syntaxvars, contentvars, inlinevars, calculatorvars,
        paintvars, xobjectsvars, cryptvars>>
Fax4Step ==
    /\ part = "fax" /\ Fax4!Next
    /\ UNCHANGED <<part, stream, ops, text, at, stack, phase, source, doc, writes, streamsvars,
        imagesvars, syntaxvars, contentvars, inlinevars, calculatorvars, paintvars,
        xobjectsvars, cryptvars>>
StreamsStep ==
    /\ part = "streams" /\ Streams!Next
    /\ UNCHANGED <<part, encoded, ops, text, at, stack, phase, source, doc, writes, faxvars,
        imagesvars, syntaxvars, contentvars, inlinevars, calculatorvars, paintvars,
        xobjectsvars, cryptvars>>
SamplesStep ==
    /\ part = "images" /\ Samples!Next
    /\ UNCHANGED <<part, input, encoded, output, stream, text, at, stack, phase, source, doc,
        writes, faxvars, streamsvars, syntaxvars, contentvars, inlinevars,
        calculatorvars, paintvars, xobjectsvars, cryptvars>>
SyntaxStep ==
    /\ part = "syntax" /\ Syntax!Next
    /\ UNCHANGED <<part, input, encoded, output, stream, ops, phase, source, doc, writes, faxvars,
        streamsvars, imagesvars, contentvars, inlinevars, calculatorvars, paintvars,
        xobjectsvars, cryptvars>>
ContentStep ==
    /\ part = "content" /\ Content!Next
    /\ UNCHANGED <<part, input, encoded, output, text, stack, source, doc, writes, faxvars,
        streamsvars, imagesvars, syntaxvars, inlinevars, calculatorvars, paintvars,
        xobjectsvars, cryptvars>>
InlineStep ==
    /\ part = "inline" /\ Inline!Next
    /\ UNCHANGED <<part, input, encoded, output, ops, at, stack, phase, doc, writes, faxvars,
        streamsvars, imagesvars, syntaxvars, contentvars, calculatorvars, paintvars,
        xobjectsvars, cryptvars>>
CalcStep ==
    /\ part = "calculator" /\ Calc!Next
    /\ UNCHANGED <<part, input, encoded, output, stream, ops, at, phase, source, doc, writes,
        faxvars, streamsvars, imagesvars, syntaxvars, contentvars, inlinevars, paintvars,
        xobjectsvars, cryptvars>>
PaintStep ==
    /\ part = "paint" /\ Paint!Next
    /\ UNCHANGED <<part, input, encoded, output, stream, ops, text, at, stack, phase, source,
        faxvars, streamsvars, imagesvars, syntaxvars, contentvars, inlinevars,
        calculatorvars, xobjectsvars, cryptvars>>
XObjStep ==
    /\ part = "xobjects" /\ XObj!Next
    /\ UNCHANGED <<part, input, encoded, output, stream, ops, text, at, stack, phase, source,
        writes, faxvars, streamsvars, imagesvars, syntaxvars, contentvars, inlinevars,
        calculatorvars, paintvars, cryptvars>>
CryptStep ==
    /\ part = "crypt" /\ Crypt!Next
    /\ UNCHANGED <<part, input, encoded, output, stream, ops, at, stack, faxvars, streamsvars,
        imagesvars, syntaxvars, contentvars, inlinevars, calculatorvars, paintvars,
        xobjectsvars>>

Next == BytesStep \/ Fax4Step \/ StreamsStep \/ SamplesStep \/ SyntaxStep \/ ContentStep \/ InlineStep \/ CalcStep \/ PaintStep \/ XObjStep \/ CryptStep

Spec == Init /\ [][Next]_vars

-----------------------------------------------------------------------------
\* What RunLength, ASCIIHex, ASCII85, the PNG and TIFF predictors and CCITT
\* Group 3 and 4 encode is decoded to the same data, after other calls have
\* changed the colours that the fax package keeps too.
CodecsInvert ==
    /\ part = "bytes" => Bytes!RoundTrip
    /\ part = "fax" => Fax4!RoundTrip

\* A stream that is made, read, changed and encoded again any number of times
\* still decodes to its data with the filters and parameters that its
\* dictionary names.
StreamsReadBack ==
    part = "streams" => Streams!ReadBack

\* The samples of an image are those that were set, however often they are
\* read, converted and set again, and ColorAt finds those of each pixel; an
\* image that Resample has changed is the exception, which drops the last
\* sample of each row.
ImagesKept ==
    part = "images" => Samples!SamplesKept /\ Samples!PixelsFound /\ Samples!DataWhole

\* Objects of every kind, nested in each other, are read by each of the four
\* parsers as they were written by this program or by another, and the parser
\* stops right after them; keys ending in null with a name for their value and
\* references of more than fifteen bytes are the exceptions. An inline image
\* has the data, the attributes and the encoder it was written with, unless an
\* EI in its data looks like its end.
ObjectsReadBack ==
    /\ part = "syntax" => Syntax!ParsedAsWritten /\ Syntax!StopsAtTheEnd
    /\ part = "inline" => Inline!DataFound /\ Inline!EndFound /\ Inline!ImageBack /\ Inline!FilterForms

\* The operations of a content stream survive writing and parsing; processing
\* them calls the handlers in order with the matrix, colour space and colour of
\* the operations around them, balanced or not; and wrapped content leaves the
\* state it found.
ContentAsWritten ==
    part = "content" => Content!StateAsNested /\ Content!ColorInSpace /\ Content!WrappedRestores /\ Content!OperationsKept

\* Programs of PostScript calculator functions leave on the stack what their
\* operators define, within the limit of the stack and with a stack of their
\* own for each evaluation until one fails; and a program that is written is
\* parsed to itself.
FunctionsEvaluate ==
    part = "calculator" => Calc!OperandsExact /\ Calc!LimitKept /\ Calc!FreshStack /\ Calc!ComputesWanted /\ Calc!ParsedBack

\* Functions, shadings and patterns that are loaded, changed, given content and
\* written in any order keep the entries and the data they were loaded with,
\* have the values set last, and load again as the same. So do forms and
\* images, which decode to what was set last and keep masks that fit.
PaintingKept ==
    /\ part = "paint" => Paint!EntriesKept /\ Paint!DataKept /\ Paint!SameAgain /\ Paint!EditsWritten /\ Paint!ContentBack
    /\ part = "xobjects" => XObj!ContentWritten /\ XObj!EntriesKept /\ XObj!MasksFit

\* Every object is encrypted once, with its own key, and what a reader with the
\* key gets is what was written, in whatever order objects are looked up before
\* and after Decrypt.
EncryptedAndReadBack ==
    part = "crypt" => Crypt!EncryptedOnce /\ Crypt!ReadBack

\* A reader that has been accepted has the key of the document, and the user
\* and the owner password are accepted, also after other attempts.
PasswordsDecide ==
    part = "crypt" => Crypt!KeyRecovered /\ Crypt!PasswordsOpen
=============================================================================

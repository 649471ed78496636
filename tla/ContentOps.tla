----------------------------- MODULE ContentOps -----------------------------
(***************************************************************************)
(* Content streams as lists of operations (package contentstream).         *)
(* ContentCreator appends operations, Wrap and Bytes turn the list into a  *)
(* balanced one and into text, Parse reads it, and                         *)
(* ContentStreamProcessor.Process goes through it with a graphics state    *)
(* and a stack of them, and calls a handler for every operation.           *)
(*                                                                         *)
(* The text is a list of tokens (their bytes are those of ObjectSyntax).   *)
(* The coefficients of matrices and colours are integers; a real without   *)
(* a fraction comes back as an integer.  A colour is the family of the     *)
(* space it is in and the parameters it was made from.                     *)
(***************************************************************************)
EXTENDS Integers, Sequences, FiniteSets, SequencesExt

CONSTANTS Resources,    \* the colour spaces of the page by name
          Menus         \* the operands of operations to build content from, none for all, each with a number

VARIABLES phase, menu, ops, stream, at, gs, graphicsStack, seen, failed

vars == <<phase, menu, ops, stream, at, gs, graphicsStack, seen, failed>>

-----------------------------------------------------------------------------
\* Operations and the parameters of the Add functions.
Real(n) == [real |-> n]
Integer(n) == [int |-> n]
Name(s) == [name |-> s]
Str(s) == [str |-> s]
Arr(s) == [arr |-> s]
Op(operand, params) == [op |-> operand, params |-> params]
makeParamsFromFloats(vals) == [i \in DOMAIN vals |-> Real(vals[i])]

Add_cm(m) == Op("cm", makeParamsFromFloats(m))
Translate(tx, ty) == Add_cm(<<1, 0, 0, 1, tx, ty>>)
Scale(sx, sy) == Add_cm(<<sx, 0, 0, sy, 0, 0>>)
\* By a quarter turn.
RotateDeg == Add_cm(<<0, 1, -1, 0, 0, 0>>)

StateOps ==
    {Op("q", <<>>), Op("Q", <<>>), Translate(2, 3), Scale(2, 1), RotateDeg, Op("d", <<Arr(<<Integer(1)>>), Integer(0)>>)}
    \cup {Op(o, <<Real(1)>>) : o \in {"w", "M", "i"}} \cup {Op(o, <<Name("X")>>) : o \in {"J", "j", "ri", "gs"}}
PathOps ==
    {Op(o, makeParamsFromFloats(<<1, 2>>)) : o \in {"m", "l"}} \cup {Op("c", makeParamsFromFloats(<<1, 2, 3, 4, 5, 6>>))}
    \cup {Op(o, makeParamsFromFloats(<<1, 2, 3, 4>>)) : o \in {"v", "y", "re"}} \cup {Op("h", <<>>)}
PaintOps ==
    {Op(o, <<>>) : o \in {"S", "s", "f", "f*", "B", "B*", "b", "b*", "n", "W", "W*"}}
    \cup {Op(o, <<Name("X")>>) : o \in {"Do", "sh"}}
SpaceOps == {Op(o, <<Name(s)>>) : o \in {"CS", "cs"}, s \in DOMAIN Resources \cup {"DeviceRGB", "Pattern", "Lab", "None"}}
\* The parameters that a colour of a space may be given.
Components == {<<>>, <<Real(1)>>, <<Real(1), Real(0), Real(1)>>, <<Name("P")>>, <<Real(1), Name("P")>>}
ColorOps == {Op(o, p) : o \in {"SC", "SCN", "scn", "sc"}, p \in Components}
TextStateOps ==
    {Op("BT", <<>>), Op("ET", <<>>), Op("Tf", <<Name("F"), Real(9)>>), Op("Tr", <<Integer(1)>>)}
    \cup {Op(o, <<Real(1)>>) : o \in {"Tc", "Tw", "Tz", "TL", "Ts"}}
TextOps ==
    {Op(o, makeParamsFromFloats(<<0, 12>>)) : o \in {"Td", "TD"}} \cup {Op("T*", <<>>)}
    \cup {Op("Tm", makeParamsFromFloats(<<1, 0, 0, 1, x, y>>)) : x \in {1, 5}, y \in {1, 5}}
    \cup {Op(o, <<Str("s")>>) : o \in {"Tj", "'"}} \cup {Op("\"", <<Real(1), Real(2), Str("s")>>)}
    \cup {Op("TJ", <<Arr(<<Str("s"), Integer(-200), Real(5), Str("t")>>)>>)}
MarkedOps == {Op("BMC", <<Name("X")>>), Op("EMC", <<>>)}

\* SetStrokingColor and SetNonStrokingColor of a colour of a device space.
Device(color) == IF color.fam = "DeviceGray" THEN "G" ELSE IF color.fam = "DeviceRGB" THEN "RG" ELSE "K"
DeviceFill(color) == IF color.fam = "DeviceGray" THEN "g" ELSE IF color.fam = "DeviceRGB" THEN "rg" ELSE "k"
Colors ==
    {[fam |-> "DeviceGray", vals |-> <<1>>], [fam |-> "DeviceRGB", vals |-> <<1, 0, 1>>], [fam |-> "DeviceCMYK", vals |-> <<0, 1, 0, 1>>]}
SetStrokingColor(color) == Op(Device(color), makeParamsFromFloats(color.vals))
SetNonStrokingColor(color) == Op(DeviceFill(color), makeParamsFromFloats(color.vals))
DeviceOps == {SetStrokingColor(c) : c \in Colors} \cup {SetNonStrokingColor(c) : c \in Colors}

AllOps == StateOps \cup PathOps \cup PaintOps \cup SpaceOps \cup ColorOps \cup DeviceOps \cup TextStateOps \cup TextOps \cup MarkedOps

Offered == {o \in AllOps : menu.operands = {} \/ o.op \in menu.operands}

-----------------------------------------------------------------------------
\* isWrapped, WrapIfNeeded.
Depth(s, k) == Cardinality({j \in 1 .. k : s[j].op = "q"}) - Cardinality({j \in 1 .. k : s[j].op = "Q"})
isWrapped(s) ==
    /\ Len(s) >= 2 /\ Depth(s, Len(s)) = 0
    /\ \A k \in DOMAIN s : s[k].op \notin {"q", "Q"} => Depth(s, k) >= 1

Restores(n) == [k \in 1 .. (IF n > 0 THEN n ELSE 0) |-> Op("Q", <<>>)]
WrapIfNeeded(s) ==
    IF s = <<>> \/ isWrapped(s) THEN s ELSE <<Op("q", <<>>)>> \o s \o Restores(Depth(s, Len(s)) + 1)

\* Bytes: the parameters of an operation and its operand; Parse.
Written(p) ==
    CASE "real" \in DOMAIN p -> Integer(p.real)
      [] "arr" \in DOMAIN p -> Arr([i \in DOMAIN p.arr |-> IF "real" \in DOMAIN p.arr[i] THEN Integer(p.arr[i].real) ELSE p.arr[i]])
      [] OTHER -> p
Bytes(s) == FlattenSeq([k \in DOMAIN s |-> [i \in DOMAIN s[k].params |-> Written(s[k].params[i])] \o <<[operand |-> s[k].op]>>])

RECURSIVE Parse(_, _, _)
Parse(tokens, params, got) ==
    IF tokens = <<>> THEN got
    ELSE LET t == Head(tokens)
             ends == "operand" \in DOMAIN t
         IN  Parse(Tail(tokens), IF ends THEN <<>> ELSE Append(params, t), IF ends THEN Append(got, Op(t.operand, params)) ELSE got)

-----------------------------------------------------------------------------
\* Colour spaces and colours.
NoColor == [fam |-> "none", vals |-> <<>>]
NoSpace == [fam |-> "none"]
Simple(fam, n) == [fam |-> fam, n |-> n, base |-> NoSpace]
DeviceGray == Simple("DeviceGray", 1)
DeviceRGB == Simple("DeviceRGB", 3)
DeviceCMYK == Simple("DeviceCMYK", 4)

getColorspace(name) ==
    CASE name = "DeviceGray" -> DeviceGray [] name = "DeviceRGB" -> DeviceRGB [] name = "DeviceCMYK" -> DeviceCMYK
      [] name = "Pattern" -> [fam |-> "Pattern", n |-> 0, base |-> NoSpace]
      [] name \in DOMAIN Resources -> Resources[name]
      [] name = "CalGray" -> Simple("CalGray", 1) [] name \in {"CalRGB", "Lab"} -> Simple(name, 3)
      [] OTHER -> NoSpace

\* The device space of as many components, for a profile without an alternate space.
Fallback(n) == CASE n = 1 -> DeviceGray [] n = 3 -> DeviceRGB [] n = 4 -> DeviceCMYK [] OTHER -> NoSpace
\* The space in which a colour of a space is really kept.
RECURSIVE Kept(_)
Kept(cs) ==
    CASE cs.fam = "ICCBased" -> IF cs.base = NoSpace THEN Fallback(cs.n) ELSE Kept(cs.base)
      [] cs.fam \in {"Indexed", "Separation", "DeviceN"} -> Kept(cs.base)
      [] OTHER -> cs

Initial(n) == IF n = 4 THEN <<0, 0, 0, 1>> ELSE [i \in 1 .. n |-> 0]
getInitialColor(cs) ==
    IF cs.fam = "Pattern" THEN [ok |-> TRUE, color |-> NoColor]
    ELSE IF Kept(cs) = NoSpace THEN [ok |-> FALSE]
    ELSE [ok |-> TRUE, color |-> [fam |-> Kept(cs).fam, vals |-> Initial(Kept(cs).n)]]

IsNumber(p) == "int" \in DOMAIN p \/ "real" \in DOMAIN p
Number(p) == IF "int" \in DOMAIN p THEN p.int ELSE p.real
GetNumbersAsFloat(params) == [i \in DOMAIN params |-> Number(params[i])]
IsName(p) == "name" \in DOMAIN p

\* ColorFromPdfObjects; a colour through a tint transform or a table is its parameters.
InTable(cs, params) == cs.fam = "Indexed" => Number(params[1]) \in 0 .. cs.hival
ColorFromNumbers(cs, params) ==
    IF Len(params) = cs.n /\ Kept(cs) /= NoSpace /\ (\A i \in DOMAIN params : IsNumber(params[i])) /\ InTable(cs, params)
    THEN [ok |-> TRUE, color |-> [fam |-> Kept(cs).fam, vals |-> GetNumbersAsFloat(params)]] ELSE [ok |-> FALSE]
PatternColor(cs, params) ==
    IF params = <<>> \/ ~IsName(Last(params)) THEN [ok |-> FALSE]
    ELSE IF Len(params) = 1 THEN [ok |-> TRUE, color |-> [fam |-> "Pattern", vals |-> <<>>]]
    ELSE IF cs.base = NoSpace \/ ~ColorFromNumbers(cs.base, Front(params)).ok THEN [ok |-> FALSE]
    ELSE [ok |-> TRUE, color |-> [fam |-> "Pattern", vals |-> GetNumbersAsFloat(Front(params))]]
ColorFromPdfObjects(cs, params) == IF cs.fam = "Pattern" THEN PatternColor(cs, params) ELSE ColorFromNumbers(cs, params)

-----------------------------------------------------------------------------
\* Matrices <<a, b, c, d, tx, ty>>.
IdentityMatrix == <<1, 0, 0, 1, 0, 0>>
Concat_Reversed(m, b) ==
    <<m[1] * b[1] + m[2] * b[3], m[1] * b[2] + m[2] * b[4], m[3] * b[1] + m[4] * b[3], m[3] * b[2] + m[4] * b[4],
      m[5] * b[1] + m[6] * b[3] + b[5], m[5] * b[2] + m[6] * b[4] + b[6]>>
Concat(m, b) ==
    <<b[1] * m[1] + b[2] * m[3], b[1] * m[2] + b[2] * m[4], b[3] * m[1] + b[4] * m[3], b[3] * m[2] + b[4] * m[4],
      b[5] * m[1] + b[6] * m[3] + m[5], b[5] * m[2] + b[6] * m[4] + m[6]>>

NewState ==
    [ColorspaceStroking |-> DeviceGray, ColorspaceNonStroking |-> DeviceGray,
     ColorStroking |-> [fam |-> "DeviceGray", vals |-> <<0>>], ColorNonStroking |-> [fam |-> "DeviceGray", vals |-> <<0>>],
     CTM |-> IdentityMatrix]

\* What a handler of an operation makes of a graphics state; end tells whether an error or a panic ends it.
Done(g) == [end |-> "no", gs |-> g]
Broken(g) == [end |-> "error", gs |-> g]
handleCommand_CS(g, o) ==
    LET cs == getColorspace(o.params[1].name)
        first == getInitialColor(cs)
    IN  IF Len(o.params) /= 1 \/ ~IsName(o.params[1]) \/ cs = NoSpace THEN Broken(g)
        ELSE IF ~first.ok THEN Broken([g EXCEPT !.ColorspaceStroking = cs])
        ELSE Done([g EXCEPT !.ColorspaceStroking = cs, !.ColorStroking = first.color])
handleCommand_cs(g, o) ==
    LET cs == getColorspace(o.params[1].name)
        first == getInitialColor(cs)
    IN  IF Len(o.params) /= 1 \/ ~IsName(o.params[1]) \/ cs = NoSpace THEN Broken(g)
        ELSE IF ~first.ok THEN Broken([g EXCEPT !.ColorspaceNonStroking = cs])
        ELSE Done([g EXCEPT !.ColorspaceNonStroking = cs, !.ColorNonStroking = first.color])

\* SC, unlike the others, counts the parameters of a pattern too, which needs an underlying space.
handleCommand_SC(g, o) ==
    LET cs == g.ColorspaceStroking
        color == ColorFromPdfObjects(cs, o.params)
    IN  IF cs.fam = "Pattern" /\ cs.base = NoSpace THEN [Broken(g) EXCEPT !.end = "panic"]
        ELSE IF Len(o.params) /= cs.n \/ ~color.ok THEN Broken(g) ELSE Done([g EXCEPT !.ColorStroking = color.color])
handleCommand_SCN(g, o) ==
    LET cs == g.ColorspaceStroking
        color == ColorFromPdfObjects(cs, o.params)
    IN  IF (cs.fam /= "Pattern" /\ Len(o.params) /= cs.n) \/ ~color.ok THEN Broken(g) ELSE Done([g EXCEPT !.ColorStroking = color.color])
handleCommand_scn(g, o) ==
    LET cs == g.ColorspaceNonStroking
        color == ColorFromPdfObjects(cs, o.params)
    IN  IF (cs.fam /= "Pattern" /\ Len(o.params) /= cs.n) \/ ~color.ok THEN Broken(g) ELSE Done([g EXCEPT !.ColorNonStroking = color.color])
handleCommand_sc(g, o) == handleCommand_scn(g, o)

\* G, RG and K, and g, rg and k: the space and the colour.
handleDevice(g, o, cs) ==
    LET color == ColorFromPdfObjects(cs, o.params)
    IN  IF ~color.ok THEN Broken(g) ELSE Done([g EXCEPT !.ColorspaceStroking = cs, !.ColorStroking = color.color])
handleDeviceFill(g, o, cs) ==
    LET color == ColorFromPdfObjects(cs, o.params)
    IN  IF ~color.ok THEN Broken(g) ELSE Done([g EXCEPT !.ColorspaceNonStroking = cs, !.ColorNonStroking = color.color])

handleCommand_G(g, o) == handleDevice(g, o, DeviceGray)
handleCommand_g(g, o) == handleDeviceFill(g, o, DeviceGray)
handleCommand_RG(g, o) == handleDevice(g, o, DeviceRGB)
handleCommand_rg(g, o) == handleDeviceFill(g, o, DeviceRGB)
handleCommand_K(g, o) == handleDevice(g, o, DeviceCMYK)
handleCommand_k(g, o) == handleDeviceFill(g, o, DeviceCMYK)

handleCommand_cm(g, o) ==
    IF Len(o.params) /= 6 \/ \E i \in DOMAIN o.params : ~IsNumber(o.params[i]) THEN Broken(g)
    ELSE Done([g EXCEPT !.CTM = Concat(@, GetNumbersAsFloat(o.params))])

Handled(g, o) ==
    CASE o.op = "CS" -> handleCommand_CS(g, o) [] o.op = "cs" -> handleCommand_cs(g, o)
      [] o.op = "SC" -> handleCommand_SC(g, o) [] o.op = "SCN" -> handleCommand_SCN(g, o) [] o.op = "sc" -> handleCommand_sc(g, o) [] o.op = "scn" -> handleCommand_scn(g, o)
      [] o.op = "G" -> handleCommand_G(g, o) [] o.op = "g" -> handleCommand_g(g, o)
      [] o.op = "RG" -> handleCommand_RG(g, o) [] o.op = "rg" -> handleCommand_rg(g, o)
      [] o.op = "K" -> handleCommand_K(g, o) [] o.op = "k" -> handleCommand_k(g, o)
      [] o.op = "cm" -> handleCommand_cm(g, o)
      [] OTHER -> Done(g)

-----------------------------------------------------------------------------
\* ExtractText: whether a text object is open, the position, and the text so far.
NoPos == [none |-> TRUE]
Start == [inText |-> FALSE, x |-> NoPos, y |-> NoPos, txt |-> <<>>]

SetMatrix(s, x, y) ==
    IF s.y /= NoPos /\ s.y.n > y THEN [s EXCEPT !.txt = Append(@, "line"), !.x = [n |-> x], !.y = [n |-> y]]
    ELSE [s EXCEPT !.y = IF @ = NoPos THEN [n |-> y] ELSE @,
                   !.x = IF @ = NoPos \/ @.n < x THEN [n |-> x] ELSE @,
                   !.txt = IF s.x /= NoPos /\ s.x.n < x THEN Append(@, "tab") ELSE @]

Shown(p) == IF "str" \in DOMAIN p THEN <<p.str>> ELSE IF Number(p) < -100 THEN <<"space">> ELSE <<>>

ExtractOp(s, o) ==
    CASE o.op = "BT" -> [s EXCEPT !.inText = TRUE]
      [] o.op = "ET" -> [s EXCEPT !.inText = FALSE]
      [] o.op \in {"Td", "TD", "T*"} -> [s EXCEPT !.txt = Append(@, "line")]
      [] o.op = "Tm" -> SetMatrix(s, Number(o.params[5]), Number(o.params[6]))
      [] o.op = "TJ" /\ s.inText -> [s EXCEPT !.txt = @ \o FlattenSeq([i \in DOMAIN o.params[1].arr |-> Shown(o.params[1].arr[i])])]
      [] o.op = "Tj" /\ s.inText -> [s EXCEPT !.txt = Append(@, o.params[1].str)]
      [] OTHER -> s

RECURSIVE ExtractText(_, _)
ExtractText(list, s) == IF list = <<>> THEN s.txt ELSE ExtractText(Tail(list), ExtractOp(s, Head(list)))

-----------------------------------------------------------------------------
Init ==
    /\ phase = "build"
    /\ menu \in Menus
    /\ ops = <<>> /\ stream = <<>> /\ at = 1
    /\ gs = NewState /\ graphicsStack = <<>> /\ seen = <<>> /\ failed = "no"

\* An Add function of the creator.
Add ==
    /\ phase = "build" /\ Len(ops) < menu.max
    /\ \E o \in Offered : ops' = Append(ops, o)
    /\ UNCHANGED <<phase, menu, stream, at, gs, graphicsStack, seen, failed>>

\* The operations as they are, or wrapped and followed by others, are written and parsed.
Write ==
    /\ phase = "build"
    /\ \E wrap \in BOOLEAN :
          /\ phase' = IF wrap THEN "wrapped" ELSE "plain"
          /\ stream' = Parse(Bytes(IF wrap THEN WrapIfNeeded(ops) ELSE ops), <<>>, <<>>)
    /\ UNCHANGED <<menu, ops, at, gs, graphicsStack, seen, failed>>

Processing == phase \in {"plain", "wrapped"} /\ failed = "no" /\ at <= Len(stream)

\* One turn of the loop of Process.  A Q too many is skipped, the call of the handler included.
Push ==
    /\ Processing /\ stream[at].op = "q"
    /\ graphicsStack' = Append(graphicsStack, gs)
    /\ at' = at + 1 /\ seen' = Append(seen, [idx |-> at, gs |-> gs])
    /\ UNCHANGED <<phase, menu, ops, stream, gs, failed>>

Pop ==
    /\ Processing /\ stream[at].op = "Q" /\ graphicsStack /= <<>>
    /\ gs' = Last(graphicsStack) /\ graphicsStack' = Front(graphicsStack)
    /\ at' = at + 1 /\ seen' = Append(seen, [idx |-> at, gs |-> gs'])
    /\ UNCHANGED <<phase, menu, ops, stream, failed>>

SkipPop ==
    /\ Processing /\ stream[at].op = "Q" /\ graphicsStack = <<>>
    /\ at' = at + 1
    /\ UNCHANGED <<phase, menu, ops, stream, gs, graphicsStack, seen, failed>>

Handle ==
    /\ Processing /\ stream[at].op \notin {"q", "Q"}
    /\ LET r == Handled(gs, stream[at])
       IN  /\ gs' = r.gs /\ failed' = r.end
           /\ at' = at + 1
           /\ seen' = IF r.end = "no" THEN Append(seen, [idx |-> at, gs |-> r.gs]) ELSE seen
    /\ UNCHANGED <<phase, menu, ops, stream, graphicsStack>>

Next == Add \/ Write \/ Push \/ Pop \/ SkipPop \/ Handle

Spec == Init /\ [][Next]_vars

-----------------------------------------------------------------------------
TypeOK ==
    /\ phase \in {"build", "plain", "wrapped"} /\ menu \in Menus
    /\ at \in 1 .. Len(stream) + 1 /\ failed \in {"no", "error", "panic"}
    /\ Len(graphicsStack) < at /\ Len(seen) < at

\* The q that the Q at k closes is the one at j.
Closes(s, j, k) ==
    /\ j < k /\ s[j].op = "q" /\ s[k].op = "Q" /\ Depth(SubSeq(s, j, k), k - j + 1) = 0
    /\ \A m \in j .. k - 1 : Depth(SubSeq(s, j, m), m - j + 1) > 0
\* The operations up to i that are not within a closed pair.
Open(s, i) == SelectSeq([j \in 1 .. i |-> j], LAMBDA j : \A a \in 1 .. i, b \in 1 .. i : a < j /\ j < b => ~Closes(s, a, b))

\* What a point is mapped to by a matrix, and by the open cm operations, the last one first.
Map(m, p) == <<p[1] * m[1] + p[2] * m[3] + m[5], p[1] * m[2] + p[2] * m[4] + m[6]>>
RECURSIVE MapAll(_, _, _)
MapAll(s, idx, p) ==
    IF idx = <<>> THEN p
    ELSE MapAll(s, Front(idx), IF s[Last(idx)].op = "cm" THEN Map(GetNumbersAsFloat(s[Last(idx)].params), p) ELSE p)

\* The last open operation that sets a colour or a colour space.
Setters(fill) == IF fill THEN {"cs", "sc", "scn", "g", "rg", "k"} ELSE {"CS", "SC", "SCN", "G", "RG", "K"}
LastSetter(s, i, fill) == LET open == SelectSeq(Open(s, i), LAMBDA j : s[j].op \in Setters(fill)) IN IF open = <<>> THEN 0 ELSE Last(open)
AsSet(s, j, color) ==
    IF j = 0 THEN color = [fam |-> "DeviceGray", vals |-> <<0>>]
    ELSE IF s[j].op \in {"CS", "cs"} THEN color \in {NoColor} \cup {[fam |-> color.fam, vals |-> Initial(n)] : n \in {1, 3, 4}}
    ELSE color.vals = GetNumbersAsFloat(SelectSeq(s[j].params, IsNumber))

\* A handler is given the state of the operations around it (Push and Pop of GraphicStateStack):
\* those within a closed q and Q no longer count, a Q too many counts for nothing, a cm is
\* applied before those that precede it, and the colour is that which was set last.
StateAsNested ==
    seen /= <<>> =>
        LET i == Last(seen).idx
            g == Last(seen).gs
        IN  /\ \A p \in {<<0, 0>>, <<1, 0>>, <<0, 1>>} : Map(g.CTM, p) = MapAll(stream, Open(stream, i), p)
            /\ AsSet(stream, LastSetter(stream, i, FALSE), g.ColorStroking)
            /\ AsSet(stream, LastSetter(stream, i, TRUE), g.ColorNonStroking)

\* As long as no operation failed, the colour is one of the current colour space
\* (handleCommand_CS to handleCommand_k), or that of its alternate or base space.
ColorInSpace ==
    failed = "no" =>
        /\ gs.ColorStroking = NoColor \/ gs.ColorStroking.fam = Kept(gs.ColorspaceStroking).fam
        /\ gs.ColorNonStroking = NoColor \/ gs.ColorNonStroking.fam = Kept(gs.ColorspaceNonStroking).fam

NoSurplus(s) == \A k \in 1 .. Len(s) : Depth(s, k) >= 0

\* Content that never has a Q too many leaves, once WrapIfNeeded has wrapped it, the state that
\* it found: what is added behind it starts in the default state.
WrappedRestores ==
    phase = "wrapped" /\ NoSurplus(ops) /\ failed = "no" /\ at > Len(stream) => gs = NewState /\ graphicsStack = <<>>

\* Operations survive Bytes and Parse: the same operands with the same parameters, but for reals
\* without a fraction, and the same text for ExtractText; and processing calls the handler once
\* for each of them, in order, but for a Q too many.
OperationsKept ==
    /\ phase = "plain" =>
          /\ Len(stream) = Len(ops)
          /\ \A k \in DOMAIN ops : stream[k].op = ops[k].op /\ Len(stream[k].params) = Len(ops[k].params)
          /\ ExtractText(stream, Start) = ExtractText(ops, Start)
    /\ \A k \in 1 .. Len(seen) - 1 : seen[k].idx < seen[k + 1].idx
    /\ phase /= "build" /\ failed = "no" =>
          \A k \in 1 .. at - 1 : (\E e \in DOMAIN seen : seen[e].idx = k) \/ stream[k].op = "Q"
=============================================================================

---------------------------- MODULE ObjectSyntax ----------------------------
(***************************************************************************)
(* The text of PDF objects.  An object is written by its WriteString       *)
(* method (core/primitives.go) or by another writer, and read by one of    *)
(* the four parsers of the same syntax the program has: of files           *)
(* (core/parser.go), of form data (fdf/parser.go), of content streams      *)
(* (contentstream/parser.go) and of character maps                         *)
(* (internal/cmap/parser.go).                                              *)
(*                                                                         *)
(* A text is a sequence of bytes.  An action is one turn of a parser: the  *)
(* call of parseObject for a value that is no container, the opening or    *)
(* the closing of a container, or an error.  The stack holds the           *)
(* containers that are open, as the calls of parseArray and parseDict do.  *)
(* An integer or a real is kept as its decimal digits.                     *)
(***************************************************************************)
EXTENDS Integers, Sequences, FiniteSets, SequencesExt

CONSTANTS Objects,      \* objects to write and parse
          Separators,   \* what other writers put between tokens: texts of white space and comments
          Tails         \* what follows the object, for each of the parsers

VARIABLES task, text, at, stack, result

vars == <<task, text, at, stack, result>>

Parsers == {"core", "fdf", "content", "cmap"}

-----------------------------------------------------------------------------
\* Bytes.
IsWhiteSpace(b) == b \in {0, 9, 10, 12, 13, 32}
IsDecimalDigit(b) == b \in 48 .. 57
IsFloatDigit(b) == IsDecimalDigit(b) \/ b = 46
IsOctalDigit(b) == b \in 48 .. 55
IsPrintable(b) == b \in 33 .. 126
IsDelimiter(b) == b \in {40, 41, 60, 62, 91, 93, 123, 125, 47, 37}
EOL(b) == b \in {10, 13}
HexDigit(n) == IF n < 10 THEN 48 + n ELSE 87 + n
Hex(b) == <<HexDigit(b \div 16), HexDigit(b % 16)>>
IsHex(b) == b \in 48 .. 57 \/ b \in 65 .. 70 \/ b \in 97 .. 102
HexValue(b) == IF b <= 57 THEN b - 48 ELSE IF b <= 70 THEN b - 55 ELSE b - 87

Keyword == [null |-> <<110, 117, 108, 108>>, true |-> <<116, 114, 117, 101>>, false |-> <<102, 97, 108, 115, 101>>,
            def |-> <<100, 101, 102>>]

-----------------------------------------------------------------------------
\* Writing.
Sign(neg) == IF neg THEN <<45>> ELSE <<>>
WriteInteger(o) == Sign(o.neg) \o o.digits
\* strconv.FormatFloat(f, 'f', -1, 64): the shortest digits, no point when there is no fraction.
WriteFloat(o) == Sign(o.neg) \o o.digits \o IF o.frac = <<>> THEN <<>> ELSE <<46>> \o o.frac

Escaped(b) ==
    CASE b = 10 -> <<92, 110>> [] b = 13 -> <<92, 114>> [] b = 9 -> <<92, 116>> [] b = 8 -> <<92, 98>>
      [] b = 12 -> <<92, 102>> [] b \in {40, 41, 92} -> <<92, b>> [] OTHER -> <<b>>

WriteText(o) ==
    IF o.hex THEN <<60>> \o FlattenSeq([i \in DOMAIN o.bytes |-> Hex(o.bytes[i])]) \o <<62>>
             ELSE <<40>> \o FlattenSeq([i \in DOMAIN o.bytes |-> Escaped(o.bytes[i])]) \o <<41>>

NameByte_NumberSign(b) == IF ~IsPrintable(b) \/ IsDelimiter(b) THEN <<35>> \o Hex(b) ELSE <<b>>
NameByte(b) == IF ~IsPrintable(b) \/ b = 35 \/ IsDelimiter(b) THEN <<35>> \o Hex(b) ELSE <<b>>
WriteName(bytes) == <<47>> \o FlattenSeq([i \in DOMAIN bytes |-> NameByte(bytes[i])])

WriteReference(o) == o.num \o <<32>> \o o.gen \o <<32, 82>>

\* The objects that hold no others.
WriteAtom(o) ==
    CASE o.kind = "null" -> Keyword.null
      [] o.kind = "bool" -> IF o.val THEN Keyword.true ELSE Keyword.false
      [] o.kind = "int" -> WriteInteger(o)
      [] o.kind = "real" -> WriteFloat(o)
      [] o.kind = "string" -> WriteText(o)
      [] o.kind = "name" -> WriteName(o.name)
      [] o.kind = "ref" -> WriteReference(o)

RECURSIVE WriteString(_)
WriteString(o) ==
    IF o.kind \notin {"array", "dict"} THEN WriteAtom(o)
    ELSE LET parts == [i \in DOMAIN o.vals |-> WriteString(o.vals[i])]
             n == Len(parts)
         IN  IF o.kind = "array"
             THEN <<91>> \o FlattenSeq([i \in 1 .. n |-> parts[i] \o IF i < n THEN <<32>> ELSE <<>>]) \o <<93>>
             ELSE <<60, 60>> \o FlattenSeq([i \in 1 .. n |-> WriteName(o.keys[i]) \o <<32>> \o parts[i]]) \o <<62, 62>>

-----------------------------------------------------------------------------
\* Reading bytes.
Byte(i) == text[i]
More(i, n) == i + n - 1 <= Len(text)
Peek(i, n) == SubSeq(text, i, IF i + n - 1 < Len(text) THEN i + n - 1 ELSE Len(text))

\* The first position from i on whose byte ends a run, or the end of the text.
RECURSIVE SkipSpaces(_)
SkipSpaces(i) == IF More(i, 1) /\ IsWhiteSpace(Byte(i)) THEN SkipSpaces(i + 1) ELSE i

RECURSIVE SkipLine(_)
SkipLine(i) == IF More(i, 1) /\ ~EOL(Byte(i)) THEN SkipLine(i + 1) ELSE i

RECURSIVE SkipDigits(_)
SkipDigits(i) == IF More(i, 1) /\ IsDecimalDigit(Byte(i)) THEN SkipDigits(i + 1) ELSE i

\* skipComments, or readComment and skipSpaces in turn: white space and comments.
RECURSIVE skipComments(_)
skipComments(i) ==
    LET j == SkipSpaces(i)
    IN  IF More(j, 1) /\ Byte(j) = 37 THEN skipComments(SkipLine(j)) ELSE j

Parsed(o, i) == [ok |-> TRUE, val |-> o, next |-> i]
Error == [ok |-> FALSE, val |-> [kind |-> "error"], next |-> 0]
EndOfText == [ok |-> FALSE, val |-> [kind |-> "eof"], next |-> 0]

EndsName(b) == IsWhiteSpace(b) \/ b \in {47, 91, 40, 93, 60, 62}

\* What name += string(b) appends is a character: two bytes of UTF-8 from 128 on.
AsRune(b) == IF b < 128 THEN <<b>> ELSE <<192 + (b \div 64), 128 + (b % 64)>>

\* The bytes of a name from a position on.  A # without two hexadecimal digits is an error, or
\* stands for itself where it is literal; where runes, bytes are taken for characters.
RECURSIVE NameFrom(_, _, _, _)
NameFrom(literal, runes, i, got) ==
    IF Len(got) >= 0 /\ (~More(i, 1) \/ EndsName(Byte(i))) THEN Parsed([kind |-> "name", name |-> got], i)
    ELSE LET code == Byte(i) = 35 /\ More(i, 3) /\ IsHex(Byte(i + 1)) /\ IsHex(Byte(i + 2))
         IN  IF Byte(i) = 35 /\ ~code /\ (~literal \/ ~More(i, 3)) THEN Error
             ELSE NameFrom(literal, runes, IF code THEN i + 3 ELSE i + 1,
                           got \o (IF code THEN <<16 * HexValue(Byte(i + 1)) + HexValue(Byte(i + 2))>>
                                   ELSE IF runes THEN AsRune(Byte(i)) ELSE <<Byte(i)>>))

NameAt(literal, runes, i) ==
    IF More(i, 1) /\ Byte(i) = 47 THEN NameFrom(literal, runes, i + 1, <<>>) ELSE Error

\* parseName of each of the parsers.
coreParseName(i) == NameAt(TRUE, FALSE, i)
fdfParseName(i) == NameAt(FALSE, FALSE, i)
contentParseName(i) == NameAt(FALSE, TRUE, i)
cmapParseName(i) == NameAt(FALSE, TRUE, i)

\* The digits of an octal escape whose first digit is at i.
OctalLen(i) == IF ~IsOctalDigit(Byte(i + 1)) THEN 1 ELSE IF ~IsOctalDigit(Byte(i + 2)) THEN 2 ELSE 3
OctalValue(i, n) ==
    (CASE n = 1 -> Byte(i) - 48 [] n = 2 -> 8 * (Byte(i) - 48) + Byte(i + 1) - 48
       [] n = 3 -> 64 * (Byte(i) - 48) + 8 * (Byte(i + 1) - 48) + Byte(i + 2) - 48) % 256

\* The byte an escape stands for: none for a letter that has no meaning.
Unescaped(b) ==
    CASE b = 110 -> <<10>> [] b = 114 -> <<13>> [] b = 116 -> <<9>> [] b = 98 -> <<8>> [] b = 102 -> <<12>>
      [] b \in {40, 41, 92} -> <<b>> [] OTHER -> <<>>

RECURSIVE StringFrom(_, _, _)
StringFrom(i, depth, got) ==
    IF Len(got) >= 0 /\ ~More(i, 1) THEN EndOfText
    ELSE IF Byte(i) = 41 /\ depth = 1 THEN Parsed([kind |-> "string", hex |-> FALSE, bytes |-> got], i + 1)
    ELSE IF Byte(i) = 92 /\ (~More(i, 2) \/ (IsOctalDigit(Byte(i + 1)) /\ ~More(i, 4))) THEN EndOfText
    ELSE LET esc == Byte(i) = 92
             n == IF esc /\ IsOctalDigit(Byte(i + 1)) THEN OctalLen(i + 1) ELSE 0
         IN  StringFrom(i + (IF n > 0 THEN n + 1 ELSE IF esc THEN 2 ELSE 1),
                        depth + (IF Byte(i) = 40 THEN 1 ELSE IF Byte(i) = 41 THEN -1 ELSE 0),
                        got \o (IF n > 0 THEN <<OctalValue(i + 1, n)>> ELSE IF esc THEN Unescaped(Byte(i + 1)) ELSE <<Byte(i)>>))

\* parseString of each of the parsers: they read strings alike.
coreParseString(i) == StringFrom(i + 1, 1, <<>>)
fdfParseString(i) == StringFrom(i + 1, 1, <<>>)
contentParseString(i) == StringFrom(i + 1, 1, <<>>)
cmapParseString(i) == StringFrom(i + 1, 1, <<>>)

\* hex.DecodeString: the bytes before the first pair that is not hexadecimal.
Padded(s) == IF Len(s) % 2 = 1 THEN Append(s, 48) ELSE s
DecodeHex(s) ==
    LET whole == {k \in 0 .. Len(s) \div 2 : \A j \in 1 .. 2 * k : IsHex(s[j])}
        n == CHOOSE k \in whole : \A j \in whole : j <= k
    IN  [k \in 1 .. n |-> 16 * HexValue(s[2 * k - 1]) + HexValue(s[2 * k])]

\* The bytes of a hexadecimal string that are kept, as Decoded reads them.
HexStringAt(Kept(_), Decoded(_), i) ==
    LET ends == {j \in i .. Len(text) : Byte(j) = 62}
        j == CHOOSE j \in ends : \A k \in ends : j <= k
        digits == SelectSeq(SubSeq(text, i + 1, j - 1), Kept)
    IN  IF ends = {} THEN EndOfText
        ELSE Parsed([kind |-> "string", hex |-> TRUE, bytes |-> Decoded(Padded(digits))], j + 1)

\* parseHexString of each of the parsers: two drop white space, and one of them gives no bytes at
\* all where others are not hexadecimal; two drop all bytes that are not.
NotSpace(b) == ~IsWhiteSpace(b)
AllHex(s) == IF \A k \in DOMAIN s : IsHex(s[k]) THEN DecodeHex(s) ELSE <<>>
coreParseHexString(i) == HexStringAt(NotSpace, DecodeHex, i)
fdfParseHexString(i) == HexStringAt(NotSpace, AllHex, i)
contentParseHexString(i) == HexStringAt(IsHex, DecodeHex, i)
cmapParseHexString(i) == HexStringAt(IsHex, DecodeHex, i)

-----------------------------------------------------------------------------
\* Numbers and references.
\* The position after what ParseNumber reads: a sign is read at the start, as long as none was
\* read, and after an e.
RECURSIVE NumberEnd(_, _)
NumberEnd(i, signs) ==
    IF ~More(i, 1) THEN i
    ELSE IF signs /\ Byte(i) \in {43, 45} THEN NumberEnd(i + 1, FALSE)
    ELSE IF IsFloatDigit(Byte(i)) THEN NumberEnd(i + 1, signs)
    ELSE IF Byte(i) \in {69, 101} THEN NumberEnd(i + 1, TRUE)
    ELSE i

RECURSIVE Stripped(_)
Stripped(digits) == IF Len(digits) > 1 /\ digits[1] = 48 THEN Stripped(Tail(digits)) ELSE digits
RECURSIVE Trimmed(_)
Trimmed(digits) == IF digits /= <<>> /\ Last(digits) = 48 THEN Trimmed(Front(digits)) ELSE digits

MaxInt64 == <<57, 50, 50, 51, 51, 55, 50, 48, 51, 54, 56, 53, 52, 55, 55, 53, 56, 48, 55>>
Exceeds(a, b) == \/ Len(a) > Len(b)
                 \/ Len(a) = Len(b) /\ \E k \in DOMAIN a : a[k] > b[k] /\ \A j \in 1 .. k - 1 : a[j] = b[j]
Zero == [kind |-> "int", neg |-> FALSE, digits |-> <<48>>]
ZeroReal == [kind |-> "real", neg |-> FALSE, digits |-> <<48>>, frac |-> <<>>]

\* strconv.ParseInt and strconv.ParseFloat, and the zero the code takes when they fail.  The
\* texts have no exponents.
Signless(s) == IF s /= <<>> /\ s[1] \in {43, 45} THEN Tail(s) ELSE s
ParseInt(s) ==
    LET digits == Stripped(Signless(s))
        neg == s /= <<>> /\ s[1] = 45 /\ digits /= <<48>>
    IN  IF digits = <<>> \/ (\E k \in DOMAIN digits : ~IsDecimalDigit(digits[k])) \/ Exceeds(digits, MaxInt64) THEN Zero
        ELSE [kind |-> "int", neg |-> neg, digits |-> digits]

ParseFloat(s) ==
    LET body == Signless(s)
        points == {k \in DOMAIN body : body[k] = 46}
        point == CHOOSE k \in points : TRUE
    IN  IF Cardinality(points) /= 1 \/ Len(body) = 1 \/ (\E k \in DOMAIN body : ~IsFloatDigit(body[k])) THEN ZeroReal
        ELSE [kind |-> "real", neg |-> s[1] = 45, digits |-> Stripped(<<48>> \o SubSeq(body, 1, point - 1)),
              frac |-> Trimmed(SubSeq(body, point + 1, Len(body)))]

ParseNumber(i) ==
    LET j == NumberEnd(i, TRUE)
        s == SubSeq(text, i, j - 1)
    IN  Parsed(IF \E k \in DOMAIN s : s[k] \in {46, 69, 101} THEN ParseFloat(s) ELSE ParseInt(s), j)

\* reReference on the next fifteen bytes.
RECURSIVE SkipDashes(_)
SkipDashes(i) == IF More(i, 1) /\ Byte(i) = 45 THEN SkipDashes(i + 1) ELSE i
RegexSpace(b) == b \in {9, 10, 12, 13, 32}
RECURSIVE SkipBlank(_)
SkipBlank(i) == IF More(i, 1) /\ RegexSpace(Byte(i)) THEN SkipBlank(i + 1) ELSE i

ReferenceFrom(n1, i) ==
    LET e1 == SkipDigits(n1)
        n2 == SkipBlank(e1)
        e2 == SkipDigits(n2)
        r == SkipBlank(e2)
    IN  [found |-> e1 > n1 /\ n2 > e1 /\ e2 > n2 /\ r > e2 /\ More(r, 1) /\ Byte(r) = 82 /\ r - i + 1 <= 15,
         val |-> [kind |-> "ref", num |-> Stripped(SubSeq(text, n1, e1 - 1)), gen |-> Stripped(SubSeq(text, n2, e2 - 1))],
         next |-> r + 1]

\* parseReference: in files, dashes may come before the number.
coreParseReference(i) == ReferenceFrom(SkipDashes(i), i)
fdfParseReference(i) == ReferenceFrom(i, i)

\* reNumeric: signs, commas and points, then a digit or a point.
RECURSIVE SkipSigns(_)
SkipSigns(i) == IF More(i, 1) /\ Byte(i) \in 43 .. 46 THEN SkipSigns(i + 1) ELSE i
IsNumeric(i) ==
    LET j == SkipSigns(i)
    IN  (More(j, 1) /\ IsDecimalDigit(Byte(j))) \/ \E k \in i .. j - 1 : Byte(k) = 46

-----------------------------------------------------------------------------
\* Values that are no containers, at a position after white space and comments.
\* parseNull and parseBool.
parseKeyword(i) ==
    CASE Peek(i, 4) = Keyword.null -> Parsed([kind |-> "null"], i + 4)
      [] Peek(i, 5) = Keyword.false -> Parsed([kind |-> "bool", val |-> FALSE], i + 5)
      [] Peek(i, 4) = Keyword.true -> Parsed([kind |-> "bool", val |-> TRUE], i + 4)
IsKeyword(i) == Peek(i, 4) \in {Keyword.null, Keyword.true} \/ Peek(i, 5) = Keyword.false

RECURSIVE OperandEnd(_)
OperandEnd(i) == IF More(i, 1) /\ ~IsDelimiter(Byte(i)) /\ ~IsWhiteSpace(Byte(i)) THEN OperandEnd(i + 1) ELSE i
Operand(i, j) == IF j = i THEN Error ELSE Parsed([kind |-> "op", name |-> SubSeq(text, i, j - 1)], j)

\* parseOperand: the end of a content stream within an operand is an error.
contentParseOperand(i) ==
    LET j == OperandEnd(i) IN IF j > i /\ ~More(j, 1) THEN EndOfText ELSE Operand(i, j)
cmapParseOperand(i) == Operand(i, OperandEnd(i))

\* parseObject of each of the parsers: in files and form data, a word is a keyword, a reference
\* or a number; in content streams and character maps, it is a number or an operand.
coreParseObject(i) ==
    CASE Byte(i) = 47 -> coreParseName(i)
      [] Byte(i) = 40 -> coreParseString(i)
      [] Byte(i) = 60 -> coreParseHexString(i)
      [] OTHER -> IF IsKeyword(i) THEN parseKeyword(i)
                  ELSE LET ref == coreParseReference(i)
                       IN  IF ref.found THEN Parsed(ref.val, ref.next)
                           ELSE IF IsNumeric(i) THEN ParseNumber(i) ELSE Error

fdfParseObject(i) ==
    CASE Byte(i) = 47 -> fdfParseName(i)
      [] Byte(i) = 40 -> fdfParseString(i)
      [] Byte(i) = 60 -> fdfParseHexString(i)
      [] OTHER -> IF IsKeyword(i) THEN parseKeyword(i)
                  ELSE LET ref == fdfParseReference(i)
                       IN  IF ref.found THEN Parsed(ref.val, ref.next)
                           ELSE IF IsNumeric(i) THEN ParseNumber(i) ELSE Error

contentParseObject(i) ==
    CASE Byte(i) = 47 -> contentParseName(i)
      [] Byte(i) = 40 -> contentParseString(i)
      [] Byte(i) = 60 -> contentParseHexString(i)
      [] OTHER -> IF IsFloatDigit(Byte(i)) \/ (Byte(i) = 45 /\ IsFloatDigit(Byte(i + 1))) THEN ParseNumber(i)
                  ELSE IF IsKeyword(i) THEN parseKeyword(i)
                  ELSE contentParseOperand(i)

cmapParseObject(i) ==
    CASE Byte(i) = 47 -> cmapParseName(i)
      [] Byte(i) = 40 -> cmapParseString(i)
      [] Byte(i) = 60 -> cmapParseHexString(i)
      [] OTHER -> IF IsDecimalDigit(Byte(i)) \/ (Byte(i) = 45 /\ IsDecimalDigit(Byte(i + 1))) THEN ParseNumber(i)
                  ELSE cmapParseOperand(i)

parseObject(p, i) ==
    CASE p = "core" -> coreParseObject(i)
      [] p = "fdf" -> fdfParseObject(i)
      [] p = "content" -> contentParseObject(i)
      [] p = "cmap" -> cmapParseObject(i)

-----------------------------------------------------------------------------
\* One turn.  Where the next value of the innermost container begins, or what else is there.
Top == Last(stack)
Value(i, key) == [turn |-> "value", pos |-> i, key |-> key]
Turn(kind, i) == [turn |-> kind, pos |-> i, key |-> <<>>]

EndsInNull(name) == Len(name) > 4 /\ SubSeq(name, Len(name) - 3, Len(name)) = Keyword.null

\* The loop of parseArray.
parseArray(i) ==
    IF ~More(i, 1) THEN Turn("eof", i) ELSE IF Byte(i) = 93 THEN Turn("close", i + 1) ELSE Value(i, <<>>)

\* A turn at a dictionary whose next key is name.  Where it may be so, a key ending in null that
\* is followed by a name stands for a key and a null written without a space between them.
DictTurn(i, name, nulls) ==
    LET j == SkipSpaces(name.next)
        short == SubSeq(name.val.name, 1, Len(name.val.name) - 4)
    IN  IF ~More(i, 2) THEN Turn("eof", i)
        ELSE IF Byte(i) = 62 /\ Byte(i + 1) = 62 THEN Turn("close", i + 2)
        ELSE IF ~name.ok THEN Turn("error", i)
        ELSE IF nulls /\ EndsInNull(name.val.name) /\ More(j, 1) /\ Byte(j) = 47 THEN [Turn("null", j) EXCEPT !.key = short]
        ELSE Value(j, name.val.name)

\* The loops of parseDict: in files and form data, comments may come before a key; character
\* maps have no nulls.
coreParseDict(i) == LET k == skipComments(i) IN DictTurn(k, coreParseName(k), TRUE)
fdfParseDict(i) == LET k == skipComments(i) IN DictTurn(k, fdfParseName(k), TRUE)
contentParseDict(i) == LET k == SkipSpaces(i) IN DictTurn(k, contentParseName(k), TRUE)
cmapParseDict(i) == LET k == SkipSpaces(i) IN DictTurn(k, cmapParseName(k), FALSE)

parseDict(p, i) ==
    CASE p = "core" -> coreParseDict(i)
      [] p = "fdf" -> fdfParseDict(i)
      [] p = "content" -> contentParseDict(i)
      [] p = "cmap" -> cmapParseDict(i)

NextTurn(p) ==
    CASE stack = <<>> \/ Top.kind = "operation" -> Value(at, <<>>)
      [] Top.kind = "array" -> parseArray(SkipSpaces(at))
      [] Top.kind = "dict" -> parseDict(p, at)

\* PdfObjectDictionary.Set.
Set(frame, key, val) ==
    IF \E k \in DOMAIN frame.keys : frame.keys[k] = key
    THEN [frame EXCEPT !.vals = [k \in DOMAIN @ |-> IF frame.keys[k] = key THEN val ELSE @[k]]]
    ELSE [frame EXCEPT !.keys = Append(@, key), !.vals = Append(@, val)]

\* The def that may follow a value of a dictionary in a character map.
AfterValue(p, i) ==
    LET j == SkipSpaces(i)
    IN  IF p /= "cmap" THEN i ELSE IF Peek(j, 3) = Keyword.def THEN j + 3 ELSE j

NotYet == [kind |-> "none"]
Finish(val) == stack' = <<>> /\ result' = val /\ UNCHANGED at

\* A value goes to the container around it: open is the stack it was read under, key its key.
Deliver(p, open, key, val, i) ==
    IF open = <<>> THEN result' = val /\ at' = i /\ stack' = <<>>
    ELSE LET frame == Last(open)
         IN  IF frame.kind = "operation" /\ val.kind = "op"
             THEN result' = [frame EXCEPT !.name = val.name] /\ at' = i /\ stack' = <<>>
             ELSE IF frame.kind = "dict" /\ p = "cmap" /\ ~More(SkipSpaces(i), 3) THEN Finish([kind |-> "eof"])
             ELSE /\ at' = IF frame.kind = "dict" THEN AfterValue(p, i) ELSE i
                  /\ stack' = Append(Front(open), IF frame.kind = "dict" THEN [Set(frame, key, val) EXCEPT !.key = <<>>]
                                                                        ELSE [frame EXCEPT !.vals = Append(@, val)])
                  /\ UNCHANGED result

\* parseObject: past white space and comments; the parsers of form data, of content streams and
\* of character maps look at two bytes, also at the end of a text.
ObjectAt(i) == skipComments(i)
Readable(p, i) == More(i, IF p = "core" THEN 1 ELSE 2)
IsArray(i) == Byte(i) = 91
IsDict(i) == Byte(i) = 60 /\ More(i, 2) /\ Byte(i + 1) = 60

Running == task.parser /= "none" /\ result = NotYet

ParseAtom ==
    /\ Running
    /\ LET t == NextTurn(task.parser)
           i == ObjectAt(t.pos)
           got == parseObject(task.parser, i)
       IN  /\ t.turn = "value"
           /\ Readable(task.parser, i) /\ ~IsArray(i) /\ ~IsDict(i)
           /\ IF got.ok THEN Deliver(task.parser, stack, t.key, got.val, got.next) ELSE Finish(got.val)
    /\ UNCHANGED <<task, text>>

OpenContainer ==
    /\ Running
    /\ LET t == NextTurn(task.parser)
           i == ObjectAt(t.pos)
           pending == IF stack = <<>> \/ Top.kind /= "dict" THEN stack ELSE [stack EXCEPT ![Len(stack)].key = t.key]
       IN  /\ t.turn = "value"
           /\ Readable(task.parser, i) /\ (IsArray(i) \/ IsDict(i))
           /\ stack' = Append(pending, IF IsArray(i) THEN [kind |-> "array", vals |-> <<>>]
                                       ELSE [kind |-> "dict", keys |-> <<>>, vals |-> <<>>, key |-> <<>>])
           /\ at' = IF IsArray(i) THEN i + 1 ELSE i + 2
    /\ UNCHANGED <<task, text, result>>

CloseContainer ==
    /\ Running
    /\ LET t == NextTurn(task.parser)
           below == Front(stack)
           key == IF below /= <<>> /\ Last(below).kind = "dict" THEN Last(below).key ELSE <<>>
           val == IF Top.kind = "array" THEN Top ELSE [kind |-> "dict", keys |-> Top.keys, vals |-> Top.vals]
       IN  t.turn = "close" /\ Deliver(task.parser, below, key, val, t.pos)
    /\ UNCHANGED <<task, text>>

\* The key written together with a null.
SetNull ==
    /\ Running
    /\ LET t == NextTurn(task.parser)
       IN  /\ t.turn = "null"
           /\ stack' = [stack EXCEPT ![Len(stack)] = Set(Top, t.key, [kind |-> "null"])]
           /\ at' = t.pos
    /\ UNCHANGED <<task, text, result>>

\* The end of the text, or no name where a key should be.
Fail ==
    /\ Running
    /\ LET t == NextTurn(task.parser)
       IN  /\ t.turn \in {"eof", "error"} \/ (t.turn = "value" /\ ~Readable(task.parser, ObjectAt(t.pos)))
           /\ Finish([kind |-> IF t.turn = "error" THEN "error" ELSE "eof"])
    /\ UNCHANGED <<task, text>>

-----------------------------------------------------------------------------
\* Objects as other writers spell them: every byte of a string in octal, every byte of a name
\* but letters in hexadecimal, and a separator between tokens.
Octal(b) == <<92, 48 + (b \div 64), 48 + ((b \div 8) % 8), 48 + (b % 8)>>
Upper(b) == IF b \in 97 .. 102 THEN b - 32 ELSE b
SpelledName(bytes) ==
    <<47>> \o FlattenSeq([i \in DOMAIN bytes |->
        IF bytes[i] \in 97 .. 122 THEN <<bytes[i]>> ELSE <<35, Upper(Hex(bytes[i])[1]), Upper(Hex(bytes[i])[2])>>])
SpelledAtom(o, sep) ==
    CASE o.kind = "string" /\ ~o.hex -> <<40>> \o FlattenSeq([i \in DOMAIN o.bytes |-> Octal(o.bytes[i])]) \o <<41>>
      [] o.kind = "string" /\ o.hex ->
            <<60>> \o FlattenSeq([i \in DOMAIN o.bytes |-> <<Upper(Hex(o.bytes[i])[1]), 10, Upper(Hex(o.bytes[i])[2])>>]) \o <<62>>
      [] o.kind = "name" -> SpelledName(o.name)
      [] o.kind = "int" -> Sign(o.neg) \o <<48>> \o o.digits
      [] o.kind = "real" -> Sign(o.neg) \o o.digits \o <<46>> \o o.frac \o <<48>>
      [] OTHER -> WriteAtom(o)

RECURSIVE Spelled(_, _)
Spelled(o, sep) ==
    IF o.kind \notin {"array", "dict"} THEN SpelledAtom(o, sep)
    ELSE LET parts == [i \in DOMAIN o.vals |-> Spelled(o.vals[i], sep)]
         IN  IF o.kind = "array" THEN <<91>> \o FlattenSeq([i \in DOMAIN parts |-> sep \o parts[i]]) \o <<93>>
             ELSE <<60, 60>> \o FlattenSeq([i \in DOMAIN parts |-> sep \o SpelledName(o.keys[i]) \o sep \o parts[i]]) \o <<62, 62>>

\* The separator that stands for the program's own writer.
Own == <<>>
HasComment(sep) == \E k \in DOMAIN sep : sep[k] = 37

RECURSIVE Parts(_)
Parts(o) == IF o.kind \in {"array", "dict"} THEN {o} \cup UNION {Parts(o.vals[i]) : i \in DOMAIN o.vals} ELSE {o}
Kinds(o) == {q.kind : q \in Parts(o)}

\* Only files and form data have references and allow comments before the keys of a dictionary;
\* in character maps null and the booleans are operands.
Speaks(p, o, sep) ==
    /\ p \in {"content", "cmap"} => "ref" \notin Kinds(o) /\ ~HasComment(sep)
    /\ p = "cmap" => Kinds(o) \cap {"null", "bool"} = {}

NoTask == [parser |-> "none"]

Init ==
    /\ task = NoTask
    /\ text = <<>>
    /\ at = 1
    /\ stack = <<>>
    /\ result = NotYet

\* A text to parse: an object, a separator, a parser and what follows the object.
Begin ==
    /\ task = NoTask
    /\ \E o \in Objects, sep \in Separators, p \in Parsers : \E tail \in Tails[p] :
          /\ Speaks(p, o, sep)
          /\ task' = [parser |-> p, obj |-> o, sep |-> sep, tail |-> tail]
          /\ text' = (IF sep = Own THEN WriteString(o) ELSE Spelled(o, sep)) \o tail
          /\ stack' = IF p = "content" THEN <<[kind |-> "operation", vals |-> <<>>, name |-> <<>>]>> ELSE <<>>
    /\ UNCHANGED <<at, result>>

Finished == result /= NotYet /\ UNCHANGED vars

Next == Begin \/ ParseAtom \/ OpenContainer \/ CloseContainer \/ SetNull \/ Fail \/ Finished

Spec == Init /\ [][Next]_vars

-----------------------------------------------------------------------------
\* The position, the stack and the result: a container is on the stack as long as it is open.
TypeOK ==
    /\ at \in 1 .. Len(text) + 1
    /\ \A i \in DOMAIN stack : stack[i].kind \in {"array", "dict", "operation"}
    /\ result /= NotYet => stack = <<>>

\* What an object is once it was written and read: the program's writer writes no point after a
\* real without a fraction, which is read as an integer, and as zero when it exceeds an int64.
RECURSIVE Read(_, _)
Read(o, own) ==
    IF o.kind \in {"array", "dict"} THEN [o EXCEPT !.vals = [i \in DOMAIN o.vals |-> Read(o.vals[i], own)]]
    ELSE IF o.kind = "real" /\ o.frac = <<>> /\ own
         THEN IF Exceeds(o.digits, MaxInt64) THEN Zero ELSE [kind |-> "int", neg |-> o.neg, digits |-> o.digits]
    ELSE o

\* A key that ends in null and has a name for its value.
NullKey(o) == o.kind = "dict" /\ \E i \in DOMAIN o.keys : EndsInNull(o.keys[i]) /\ o.vals[i].kind = "name"

\* A reference whose text is longer than the fifteen bytes looked at.
LongReference(o) == o.kind = "ref" /\ Len(WriteReference(o)) > 15

Wanted ==
    LET o == Read(task.obj, task.sep = Own)
    IN  IF task.parser = "content"
        THEN [kind |-> "operation", vals |-> <<o>>, name |-> SubSeq(task.tail, 2, Len(task.tail) - 1)]
        ELSE o

\* Every parser reads an object back from the text the program writes for it (WriteString of
\* core/primitives.go) and from the text of another writer that escapes more and separates
\* tokens otherwise, whatever it is nested in; the exceptions are dictionary keys ending in null
\* whose value is a name and references longer than the lookahead.
ParsedAsWritten ==
    result /= NotYet /\ ~(\E o \in Parts(task.obj) : NullKey(o) \/ LongReference(o)) => result = Wanted

\* A parser stops right after the object: the bytes that follow it are left for the next call of
\* parseObject (an endobj, the next operand).
StopsAtTheEnd ==
    result /= NotYet /\ task.parser /= "content" /\ ~(\E o \in Parts(task.obj) : NullKey(o) \/ LongReference(o))
        => at = Len(text) - Len(task.tail) + 1
=============================================================================

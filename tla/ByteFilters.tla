---------------------------- MODULE ByteFilters ----------------------------
(***************************************************************************)
(* The stream filters of core/encoding.go that work on the bytes           *)
(* themselves: RunLengthEncoder, ASCIIHexEncoder and ASCII85Encoder, and   *)
(* the PNG and TIFF predictors of FlateEncoder and LZWEncoder.  Data is    *)
(* encoded, or run through a predictor, and decoded again.                 *)
(*                                                                         *)
(* The sizes are parameters.  A byte has 2 * Half values (Half is 128 in   *)
(* the code); ASCII85 turns four digits of base Base (256) into five of    *)
(* base Code (85).                                                         *)
(***************************************************************************)
EXTENDS Integers, Sequences, SequencesExt

CONSTANTS
    Half,       \* half of the number of values of a byte
    Base, Code, \* bases of ASCII85
    Inputs      \* what is encoded: filter, parameters and data

VARIABLES
    input,      \* the filter and its data
    encoded,    \* what the encoder has made of it
    output      \* what the decoder returns: data, or an error

vars == <<input, encoded, output>>

Byte(n) == n % (2 * Half)

Ok(data) == [data |-> data, err |-> FALSE]
Err == [data |-> <<>>, err |-> TRUE]

-----------------------------------------------------------------------------
\* RunLengthEncoder.  The encoder keeps the byte before, the length of its run and the
\* bytes that belong to no run.

Literal(l) == IF l = <<>> THEN <<>> ELSE <<Byte(Len(l) - 1)>> \o l
RunOf(n, b) == <<Byte(2 * Half + 1 - n), b>>

\* The loop of EncodeBytes, for the next byte.
RunLengthStep(s, b) ==
    IF b = s.b0
    THEN LET out == IF s.literal = <<>> THEN s.out ELSE s.out \o Literal(Front(s.literal))
             run == (IF s.literal = <<>> THEN s.runLen ELSE 1) + 1
         IN  IF run >= Half - 1 THEN [out |-> out \o RunOf(run, b), literal |-> <<>>, runLen |-> 0, b0 |-> b]
             ELSE [out |-> out, literal |-> <<>>, runLen |-> run, b0 |-> b]
    ELSE LET out == IF s.runLen > 1 THEN s.out \o RunOf(s.runLen, s.b0) ELSE s.out
             lit == Append(IF s.runLen = 1 THEN <<s.b0>> ELSE s.literal, b)
         IN  IF Len(lit) >= Half - 1 THEN [out |-> out \o Literal(lit), literal |-> <<>>, runLen |-> 0, b0 |-> b]
             ELSE [out |-> out, literal |-> lit, runLen |-> 0, b0 |-> b]

RunLengthEncode(data) ==
    IF data = <<>> THEN <<>>
    ELSE LET s == FoldLeft(RunLengthStep, [out |-> <<>>, literal |-> <<>>, runLen |-> 1, b0 |-> Head(data)], Tail(data))
         IN  s.out \o (IF s.literal # <<>> THEN Literal(s.literal)
                       ELSE IF s.runLen > 0 THEN RunOf(s.runLen, s.b0) ELSE <<>>)
                   \o <<Half>>

\* DecodeBytes: data that ends before the end mark is an error.
RECURSIVE RunLengthDecode(_, _)
RunLengthDecode(e, out) ==
    IF e = <<>> THEN Err
    ELSE IF Head(e) > Half
         THEN IF Len(e) < 2 THEN Err
              ELSE RunLengthDecode(SubSeq(e, 3, Len(e)), out \o [i \in 1 .. 2 * Half + 1 - Head(e) |-> e[2]])
    ELSE IF Head(e) < Half
         THEN IF Len(e) < Head(e) + 2 THEN Err
              ELSE RunLengthDecode(SubSeq(e, Head(e) + 3, Len(e)), out \o SubSeq(e, 2, Head(e) + 2))
    ELSE Ok(out)

-----------------------------------------------------------------------------
\* ASCIIHexEncoder.  A character is a digit (0 .. Digit - 1), a space, the end mark or
\* another one; a byte is two digits.
Digit == CHOOSE d \in 1 .. 2 * Half : d * d >= 2 * Half
Space == 900
End == 901
Other == 902

ASCIIHexEncode(data) ==
    FlattenSeq([i \in DOMAIN data |-> <<data[i] \div Digit, data[i] % Digit, Space>>]) \o <<End>>

ASCIIHexDecode(e) ==
    LET end == SelectInSeq(e, LAMBDA c : c = End)
        body == SubSeq(e, 1, end - 1)
        digits == SelectSeq(body, LAMBDA c : c # Space)
        even == IF Len(digits) % 2 = 1 THEN Append(digits, 0) ELSE digits
    IN  IF Contains(body, Other) \/ end = 0 THEN Err
        ELSE Ok([i \in 1 .. Len(even) \div 2 |-> Digit * even[2 * i - 1] + even[2 * i]])

-----------------------------------------------------------------------------
\* ASCII85Encoder.  A character is a digit, Space, z (a group of zeros) or the end mark
\* ~>, which is one here.
Z == 903

\* base256Tobase85.
base256Tobase85(value) ==
    [i \in 1 .. 5 |-> (value % (Code ^ (6 - i))) \div (Code ^ (5 - i))]

\* The five digits as a number that wraps (uint32), and its four bytes.
Value(codes) == (FoldLeft(LAMBDA v, c : v * Code + c, 0, codes)) % (Base ^ 4)
Split(value) == [i \in 1 .. 4 |-> (value \div (Base ^ (4 - i))) % Base]

\* A group of four bytes; the last one may be shorter and is filled with zeros.
ASCII85Group(g) ==
    LET value == FoldLeft(LAMBDA v, b : v * Base + b, 0, g \o [i \in 1 .. 4 - Len(g) |-> 0])
    IN  IF value = 0 THEN <<Z>> ELSE SubSeq(base256Tobase85(value), 1, Len(g) + 1)

Groups(data) == [i \in 1 .. (Len(data) + 3) \div 4 |->
                   SubSeq(data, 4 * i - 3, IF 4 * i < Len(data) THEN 4 * i ELSE Len(data))]

ASCII85Encode(data) ==
    FlattenSeq([i \in DOMAIN Groups(data) |-> ASCII85Group(Groups(data)[i])]) \o <<End>>

\* One group of DecodeBytes: its digits, how many characters it takes, how many bytes it
\* stands for, whether the end mark was met.
RECURSIVE ASCII85Take(_, _, _)
ASCII85Take(e, j, codes) ==
    IF Len(codes) = 5 \/ j = Len(e) THEN [codes |-> codes, taken |-> j, toWrite |-> 4, eod |-> FALSE, err |-> FALSE]
    ELSE LET c == e[j + 1]
         IN  IF c = Space THEN ASCII85Take(e, j + 1, codes)
             ELSE IF c = End
                  THEN [codes |-> codes, taken |-> j, eod |-> TRUE, err |-> FALSE,
                        toWrite |-> IF codes = <<>> THEN 0 ELSE Len(codes) - 1]
             ELSE IF c < Code THEN ASCII85Take(e, j + 1, Append(codes, c))
             ELSE IF c = Z /\ codes = <<>>
                  THEN [codes |-> <<0, 0, 0, 0, 0>>, taken |-> j + 1, toWrite |-> 4, eod |-> FALSE, err |-> FALSE]
             ELSE [codes |-> codes, taken |-> j, toWrite |-> 0, eod |-> TRUE, err |-> TRUE]

\* Digits that were not read are 0; those past the bytes to write are the greatest one.
Padded(t) == [m \in 1 .. 5 |-> IF m > t.toWrite + 1 THEN Code - 1 ELSE IF m <= Len(t.codes) THEN t.codes[m] ELSE 0]

RECURSIVE ASCII85Decode(_, _)
ASCII85Decode(e, out) ==
    IF e = <<>> THEN Ok(out)
    ELSE LET t == ASCII85Take(e, 0, <<>>)
             more == out \o SubSeq(Split(Value(Padded(t))), 1, t.toWrite)
         IN  IF t.err THEN Err
             ELSE IF t.eod THEN Ok(more)
             ELSE ASCII85Decode(SubSeq(e, t.taken + 1, Len(e)), more)

-----------------------------------------------------------------------------
\* The predictors.  Every byte of a row is the sum of what is stored and what is predicted
\* from the byte to the left (a), above (b) and above left (c); the first bpp bytes have
\* none to the left.

paeth(a, b, c) ==
    LET Abs(n) == IF n < 0 THEN -n ELSE n
        pa == Abs(b - c)
        pb == Abs(a - c)
        pc == Abs(a + b - 2 * c)
    IN  IF pa <= pb /\ pa <= pc THEN a ELSE IF pb <= pc THEN b ELSE c

Predicted(fb, a, b, c) ==
    CASE fb = 0 -> 0
      [] fb = 1 -> a
      [] fb = 2 -> b
      [] fb = 3 -> (a + b) \div 2
      [] OTHER -> paeth(a, b, c)

Left(row, j, bpp) == IF j > bpp THEN row[j - bpp] ELSE 0

DecodeRow(fb, stored, prev, bpp) ==
    FoldLeft(LAMBDA row, x : Append(row, Byte(x + Predicted(fb, Left(row, Len(row) + 1, bpp), prev[Len(row) + 1], Left(prev, Len(row) + 1, bpp)))),
             <<>>, stored)

Rows(data, n) == [i \in 1 .. Len(data) \div n |-> SubSeq(data, n * (i - 1) + 1, n * i)]

\* The PNG part of postDecodePredict and of LZWEncoder.DecodeStream, the latter with the
\* first three filters and the byte before as the one to the left.
RECURSIVE PNGRows(_, _, _, _)
PNGRows(p, rows, prev, out) ==
    IF rows = <<>> THEN Ok(out)
    ELSE LET fb == Head(rows)[1]
             row == DecodeRow(fb, Tail(Head(rows)), prev, IF p.filter = "LZW" THEN 1 ELSE p.colors)
         IN  IF fb > (IF p.filter = "LZW" THEN 2 ELSE 4) THEN Err
             ELSE PNGRows(p, Tail(rows), row, out \o row)

PNGDecode(p, data) ==
    LET n == p.columns * p.colors + 1
    IN  IF Len(data) % n # 0 \/ n > Len(data) THEN Err
        ELSE PNGRows(p, Rows(data, n), [j \in 1 .. n - 1 |-> 0], <<>>)

TIFFDecode(p, data) ==
    LET n == p.columns * p.colors
    IN  IF n < 1 THEN Ok(<<>>)
        ELSE IF Len(data) % n # 0 \/ n > Len(data) THEN Err
        ELSE Ok(FlattenSeq([i \in DOMAIN Rows(data, n) |-> DecodeRow(1, Rows(data, n)[i], [j \in 1 .. n |-> 0], p.colors)]))

Unpredict(p, data) ==
    IF p.predictor <= 1 THEN Ok(data)
    ELSE IF p.predictor = 2 THEN TIFFDecode(p, data)
    ELSE IF p.predictor \in 10 .. 15 THEN PNGDecode(p, data)
    ELSE Err

\* FlateEncoder.EncodeBytes up to the compression: no predictor, or every row of Columns
\* bytes with the Sub filter.
FlatePredict(p, data) ==
    CASE p.predictor = 1 -> Ok(data)
      [] p.predictor = 11 /\ Len(data) % p.columns = 0 ->
           Ok(FlattenSeq([i \in DOMAIN Rows(data, p.columns) |->
                LET row == Rows(data, p.columns)[i]
                IN  <<1>> \o [j \in DOMAIN row |-> Byte(row[j] - Left(row, j, 1))]]))
      [] OTHER -> Err

\* What another writer stores: every row with the filter the file gives it.
OtherPredict(p, data) ==
    LET n == p.columns * p.colors
        rows == Rows(data, n)
        zero == [j \in 1 .. n |-> 0]
        Stored(fb, row, prev) ==
            [j \in DOMAIN row |-> Byte(row[j] - Predicted(fb, Left(row, j, p.colors), prev[j], Left(prev, j, p.colors)))]
    IN  FlattenSeq([i \in DOMAIN rows |->
            IF p.predictor = 2 THEN Stored(1, rows[i], zero)
            ELSE <<p.filters[i]>> \o Stored(p.filters[i], rows[i], IF i = 1 THEN zero ELSE rows[i - 1])])

-----------------------------------------------------------------------------
\* Encode, the copy of the encoded data another program makes, decode.

NotYet == [st |-> "none", data |-> <<>>, err |-> FALSE]

EncodeBytes(p) ==
    CASE p.filter = "RunLength" -> Ok(RunLengthEncode(p.data))
      [] p.filter = "ASCIIHex" -> Ok(ASCIIHexEncode(p.data))
      [] p.filter = "ASCII85" -> Ok(ASCII85Encode(p.data))
      [] p.filter = "Flate" /\ p.filters = <<>> -> FlatePredict(p, p.data)
      [] OTHER -> Ok(OtherPredict(p, p.data))

DecodeStream(p, e) ==
    CASE p.filter = "RunLength" -> RunLengthDecode(e, <<>>)
      [] p.filter = "ASCIIHex" -> ASCIIHexDecode(e)
      [] p.filter = "ASCII85" -> ASCII85Decode(e, <<>>)
      [] OTHER -> Unpredict(p, e)

Init ==
    /\ input \in Inputs
    /\ encoded = NotYet
    /\ output = NotYet

Encode ==
    /\ encoded.st = "none"
    /\ LET r == EncodeBytes(input)
       IN  encoded' = [st |-> "whole", data |-> r.data, err |-> r.err]
    /\ UNCHANGED <<input, output>>

\* White space is put anywhere in the text of ASCIIHex and ASCII85.
Respace ==
    /\ encoded.st = "whole" /\ output.st = "none"
    /\ input.filter \in {"ASCIIHex", "ASCII85"}
    /\ \E i \in DOMAIN encoded.data :
         encoded' = [encoded EXCEPT !.st = "spaced", !.data = InsertAt(encoded.data, i, Space)]
    /\ UNCHANGED <<input, output>>

\* The end of the data is lost.
Truncate ==
    /\ encoded.st = "whole" /\ output.st = "none"
    /\ input.filter \in {"ASCIIHex", "RunLength"}
    /\ \E n \in 0 .. Len(encoded.data) - 1 :
         encoded' = [encoded EXCEPT !.st = "cut", !.data = SubSeq(encoded.data, 1, n)]
    /\ UNCHANGED <<input, output>>

Decode ==
    /\ encoded.st # "none"
    /\ ~encoded.err
    /\ output.st = "none"
    /\ LET r == DecodeStream(input, encoded.data)
       IN  output' = [st |-> "done", data |-> r.data, err |-> r.err]
    /\ UNCHANGED <<input, encoded>>

Finished == output.st = "done" \/ encoded.err

Next == Encode \/ Respace \/ Truncate \/ Decode \/ (Finished /\ UNCHANGED vars)

Spec == Init /\ [][Next]_vars

-----------------------------------------------------------------------------
TypeOK ==
    /\ input.filter \in {"RunLength", "ASCIIHex", "ASCII85", "Flate", "LZW"}
    /\ encoded.st \in {"none", "whole", "spaced", "cut"}
    /\ output.st \in {"none", "done"}
    /\ encoded.err \in BOOLEAN /\ output.err \in BOOLEAN

\* What the filters do not give back: no data at all under RunLength, whose encoder writes
\* not even the end mark; a last group of ASCII85 that is shorter than four bytes and all
\* zero, which is written as a whole one; rows of several colours, which FlateEncoder
\* predicts from the byte before; and the rows LZWEncoder does not support.
Unsupported ==
    \/ input.filter = "RunLength" /\ input.data = <<>>
    \/ /\ input.filter = "ASCII85" /\ Len(input.data) % 4 # 0
       /\ \A b \in ToSet(Last(Groups(input.data))) : b = 0
    \/ input.filter = "Flate" /\ input.filters = <<>> /\ input.colors > 1 /\ input.predictor > 1
    \/ input.filter = "LZW" /\ \E fb \in ToSet(input.filters) : fb > 2 \/ (fb = 1 /\ input.colors > 1)
    \/ input.predictor > 1 /\ input.data = <<>>

\* What an encoder of core/encoding.go makes of the data, and what another writer makes of
\* it with any PNG filter on any row, is decoded to the data itself, wherever white space
\* was put into the text of ASCIIHex and ASCII85; a RunLength or ASCIIHex stream whose end
\* is lost is refused, though any byte of it may look like the end mark.
RoundTrip ==
    output.st = "done" =>
       CASE encoded.st = "cut" -> output.err
         [] ~Unsupported -> ~output.err /\ output.data = input.data
         [] OTHER -> TRUE

=============================================================================

------------------------------ MODULE CCITTFax ------------------------------
(***************************************************************************)
(* internal/ccittfax: the Group 3 (one- and two-dimensional) and Group 4   *)
(* facsimile codes of CCITTFaxEncoder.  An image is encoded to bits and    *)
(* decoded again.  The colours white and black are variables of the        *)
(* package, which every call of Encode and Decode sets.                    *)
(*                                                                         *)
(* The bits are those of the code; a run has a terminal code below Unit    *)
(* (64), a make-up code of its colour up to MaxOwn * Unit (27 * 64), a     *)
(* common one up to MaxCommon * Unit (40 * 64), and is cut into pieces     *)
(* beyond.                                                                 *)
(***************************************************************************)
EXTENDS Integers, Sequences, SequencesExt

CONSTANTS
    Unit, MaxOwn, MaxCommon,
    Jobs        \* images to encode, with the parameters of the encoder

VARIABLES
    input,      \* the image and the parameters
    encoded,    \* the encoded bits
    output,     \* the decoded image
    white       \* the package's value of a white pixel; black is the other

vars == <<input, encoded, output, white>>

-----------------------------------------------------------------------------
\* The codes.  Of the tables of codes.go those of the shortest runs stand for all.

eol == <<0, 0, 0, 0, 0, 0, 0, 0, 0, 0, 0, 1>>
eol0 == Append(eol, 0)
eol1 == Append(eol, 1)

Terms == [w |-> <<<<0, 0, 1, 1, 0, 1, 0, 1>>, <<0, 0, 0, 1, 1, 1>>, <<0, 1, 1, 1>>, <<1, 0, 0, 0>>>>,
          b |-> <<<<0, 0, 0, 0, 1, 1, 0, 1, 1, 1>>, <<0, 1, 0>>, <<1, 1>>, <<1, 0>>>>]
Makeups == [w |-> <<<<1, 1, 0, 1, 1>>>>, b |-> <<<<0, 0, 0, 0, 0, 0, 1, 1, 1, 1>>>>]
commonMakeups == <<0, 0, 0, 0, 0, 0, 0, 1, 1, 1, 1, 1>>

TwoDim == [p |-> <<0, 0, 0, 1>>, h |-> <<0, 0, 1>>, v0 |-> <<1>>,
           v1r |-> <<0, 1, 1>>, v2r |-> <<0, 0, 0, 0, 1, 1>>, v3r |-> <<0, 0, 0, 0, 0, 1, 1>>,
           v1l |-> <<0, 1, 0>>, v2l |-> <<0, 0, 0, 0, 1, 0>>, v3l |-> <<0, 0, 0, 0, 0, 1, 0>>]

\* a1 - b1 of the vertical codes.
Shift == [v0 |-> 0, v1r |-> 1, v2r |-> 2, v3r |-> 3, v1l |-> -1, v2l |-> -2, v3l |-> -3]

\* getRunCode and encodeRunLen: make-up codes, then a terminal one.
RECURSIVE encodeRunLen(_, _)
encodeRunLen(n, colour) ==
    LET m == n \div Unit
    IN  IF m = 0 THEN Terms[colour][n + 1]
        ELSE IF m > MaxCommon THEN commonMakeups \o encodeRunLen(n - MaxCommon * Unit, colour)
        ELSE IF m > MaxOwn THEN commonMakeups \o encodeRunLen(n - m * Unit, colour)
        ELSE Makeups[colour][m] \o encodeRunLen(n - m * Unit, colour)

Flip(colour) == IF colour = "w" THEN "b" ELSE "w"
Pixel(w, colour) == IF colour = "w" THEN w ELSE 1 - w

-----------------------------------------------------------------------------
\* The elements of a row at which the colour changes; positions begin with 0, as in the
\* code, and -1 is the white pixel before the row.

At(row, i) == row[i + 1]

seekChangingElem(w, row, e) ==
    IF e >= Len(row) THEN e
    ELSE LET c == IF e > -1 THEN At(row, e) ELSE w
             ahead == {i \in (IF e < -1 THEN 0 ELSE e + 1) .. Len(row) - 1 : At(row, i) # c}
         IN  IF ahead = {} THEN Len(row) ELSE CHOOSE i \in ahead : \A k \in ahead : i <= k

\* b1 of the encoder, which looks at the colour of the row at a0.
seekB1(w, row, ref, a0) ==
    LET c == seekChangingElem(w, ref, a0)
    IN  IF /\ c < Len(ref)
           /\ \/ a0 = -1 /\ At(ref, c) = w
              \/ a0 >= 0 /\ a0 < Len(row) /\ At(row, a0) = At(ref, c)
              \/ a0 >= Len(row) /\ At(row, a0 - 1) # At(ref, c)
        THEN seekChangingElem(w, ref, c) ELSE c

\* Variant: b1 of the decoder is the next change of the row above, whatever its colour.
seekB12D_AnyColour(w, row, ref, a0, colour) == seekChangingElem(w, ref, a0)

\* b1 of the decoder, which has no pixel at a0 yet and goes by the current colour.
seekB12D(w, row, ref, a0, colour) ==
    LET c == seekChangingElem(w, ref, a0)
    IN  IF /\ c < Len(ref)
           /\ \/ a0 = -1 /\ At(ref, c) = w
              \/ a0 >= 0 /\ a0 < Len(row) /\ At(row, a0) = At(ref, c)
              \/ a0 >= Len(row) /\ Pixel(w, colour) = At(ref, c)
        THEN seekChangingElem(w, ref, c) ELSE c

-----------------------------------------------------------------------------
\* Encoding a row.

RECURSIVE Runs(_, _, _, _)
Runs(w, row, pos, colour) ==
    IF pos >= Len(row) THEN <<>>
    ELSE LET stop == {i \in pos .. Len(row) - 1 : At(row, i) # Pixel(w, colour)}
             end == IF stop = {} THEN Len(row) ELSE CHOOSE i \in stop : \A k \in stop : i <= k
         IN  encodeRunLen(end - pos, colour) \o Runs(w, row, end, Flip(colour))

encodeRow1D(w, row, prefix) == prefix \o Runs(w, row, 0, "w")

getVCode(d) == TwoDim[CHOOSE v \in DOMAIN Shift : Shift[v] = d]

encodeHorizontalMode(w, row, a0, a1) ==
    LET c == IF a0 = -1 \/ (a0 >= 0 /\ At(row, a0) = w) THEN "w" ELSE "b"
    IN  TwoDim.h \o encodeRunLen(IF a0 > -1 THEN a1 - a0 ELSE a1, c)
                 \o encodeRunLen(seekChangingElem(w, row, a1) - a1, Flip(c))

\* The mode for the changing elements a1, b1 and b2, and what follows it.
RECURSIVE encodeRow2D(_, _, _, _)
Mode2D(w, row, ref, a0, a1, b1, b2) ==
    IF b2 < a1 THEN [code |-> TwoDim.p, a0 |-> b2]
    ELSE IF b1 - a1 \notin -3 .. 3
         THEN [code |-> encodeHorizontalMode(w, row, a0, a1), a0 |-> seekChangingElem(w, row, a1)]
    ELSE [code |-> getVCode(a1 - b1), a0 |-> a1]
Then2D(w, row, ref, m) == m.code \o encodeRow2D(w, row, ref, m.a0)
encodeRow2D(w, row, ref, a0) ==
    IF a0 >= Len(row) THEN <<>>
    ELSE LET b1 == seekB1(w, row, ref, a0)
         IN  Then2D(w, row, ref, Mode2D(w, row, ref, a0, seekChangingElem(w, row, a0), b1, seekChangingElem(w, ref, b1)))

\* Bits are filled up to a byte at the end, and after every row with EncodedByteAlign.
Fill(bits) == bits \o [i \in 1 .. (8 - (Len(bits) % 8)) % 8 |-> 0]
EndRow(e, bits) == IF e.EncodedByteAlign THEN Fill(bits) ELSE bits

Limited(e) == e.Rows > 0 /\ ~e.EndOfBlock

\* encodeG31D, encodeG32D (every K-th row with one dimension) and encodeG4.
encodeG31D(e, w, image) ==
    LET n == IF Limited(e) /\ e.Rows < Len(image) THEN e.Rows ELSE Len(image)
        body == FoldLeft(LAMBDA bits, row : EndRow(e, bits \o encodeRow1D(w, row, eol)), <<>>, SubSeq(image, 1, n))
    IN  Fill(body \o (IF e.EndOfBlock THEN FlattenSeq([i \in 1 .. 6 |-> eol]) ELSE <<>>))

\* The limit ends a group of K rows, and the image only if the group begins at it.
Skipped(e, i) ==
    Limited(e) /\ \/ e.Rows % e.K = 0 /\ i >= e.Rows
                  \/ e.Rows % e.K # 0 /\ i \div e.K = e.Rows \div e.K /\ i >= e.Rows

encodeG32D(e, w, image) ==
    LET Row(i) == IF i % e.K = 0 THEN encodeRow1D(w, At(image, i), eol1)
                  ELSE eol0 \o encodeRow2D(w, At(image, i), At(image, i - 1), -1)
        body == FoldLeft(LAMBDA bits, i : IF Skipped(e, i) THEN bits ELSE EndRow(e, bits \o Row(i)),
                         <<>>, [i \in 1 .. Len(image) |-> i - 1])
    IN  Fill(body \o (IF e.EndOfBlock THEN FlattenSeq([i \in 1 .. 6 |-> eol1]) ELSE <<>>))

encodeG4(e, w, image) ==
    LET n == IF Limited(e) /\ e.Rows < Len(image) THEN e.Rows ELSE Len(image)
        Ref(i) == IF i = 1 THEN [k \in 1 .. Len(image[1]) |-> w] ELSE image[i - 1]
        body == FoldLeft(LAMBDA bits, i : EndRow(e, bits \o encodeRow2D(w, image[i], Ref(i), -1)),
                         <<>>, [i \in 1 .. n |-> i])
    IN  Fill(body \o (IF e.EndOfBlock THEN eol \o eol ELSE <<>>))

EncodeImage(e, w, image) ==
    IF e.K = 0 THEN encodeG31D(e, w, image)
    ELSE IF e.K > 0 THEN encodeG32D(e, w, image)
    ELSE encodeG4(e, w, image)

-----------------------------------------------------------------------------
\* Decoding: b are the bits, pos those that have been read.

Has(b, pos, code) == Len(b) >= pos + Len(code) /\ SubSeq(b, pos + 1, pos + Len(code)) = code

\* How many times a code follows, up to n.
RECURSIVE Times(_, _, _, _)
Times(b, pos, code, n) == IF n > 0 /\ Has(b, pos, code) THEN 1 + Times(b, pos + Len(code), code, n - 1) ELSE 0

RunCodes(colour) == {<<n, Terms[colour][n + 1]>> : n \in 0 .. Unit - 1}
                    \cup {<<m * Unit, Makeups[colour][m]>> : m \in 1 .. MaxOwn}
                    \cup {<<MaxCommon * Unit, commonMakeups>>}

\* fetchNextRunLen: -1 if no code follows.
fetchNextRunLen(b, pos, colour) ==
    LET found == {c \in RunCodes(colour) : Has(b, pos, c[2])}
    IN  IF found = {} THEN [n |-> -1, pos |-> pos]
        ELSE LET c == CHOOSE c \in found : TRUE IN [n |-> c[1], pos |-> pos + Len(c[2])]

drawPixels(w, row, colour, n) == row \o [i \in 1 .. (IF n < 0 THEN 0 ELSE n) |-> Pixel(w, colour)]

\* A row under way: s holds its pixels, the bits read and the colour.
Row0(pos) == [row |-> <<>>, pos |-> pos, colour |-> "w", a0 |-> -1, err |-> FALSE]
Draw(w, s, n, pos) == [s EXCEPT !.row = drawPixels(w, s.row, s.colour, n), !.pos = pos]
Turned(s) == [s EXCEPT !.colour = Flip(@)]

\* A row of runs ends when it is full, or no code follows.
RECURSIVE decodeRow1D(_, _, _, _)
Drawn1D(e, w, b, s, n) ==
    IF n >= Unit THEN decodeRow1D(e, w, b, s)
    ELSE IF Len(s.row) >= e.Columns THEN s
    ELSE decodeRow1D(e, w, b, Turned(s))
Fetched1D(e, w, b, s, r) == IF r.n = -1 THEN s ELSE Drawn1D(e, w, b, Draw(w, s, r.n, r.pos), r.n)
decodeRow1D(e, w, b, s) == Fetched1D(e, w, b, s, fetchNextRunLen(b, s.pos, s.colour))

\* One run of a horizontal mode.
RECURSIVE decodeNextRunLen(_, _, _)
FetchedRun(w, b, s, r) ==
    IF r.n = -1 THEN [s EXCEPT !.err = TRUE]
    ELSE IF r.n < Unit THEN Draw(w, s, r.n, r.pos)
    ELSE decodeNextRunLen(w, b, Draw(w, s, r.n, r.pos))
decodeNextRunLen(w, b, s) == IF s.err THEN s ELSE FetchedRun(w, b, s, fetchNextRunLen(b, s.pos, s.colour))

\* A row of two-dimensional codes.  A code that is not known ends it: an error in Group 4.
Pass(w, s, pos, b2) == [Draw(w, s, IF s.a0 = -1 THEN b2 ELSE b2 - s.a0, pos) EXCEPT !.a0 = b2]
TwoRuns(w, b, s) == [decodeNextRunLen(w, b, Turned(decodeNextRunLen(w, b, s))) EXCEPT !.colour = s.colour]
Mode(w, b, ref, s, c, b1) ==
    LET pos == s.pos + Len(TwoDim[c])
    IN  IF c = "p" THEN Pass(w, s, pos, seekChangingElem(w, ref, b1))
        ELSE IF c = "h" THEN TwoRuns(w, b, [s EXCEPT !.pos = pos])
        ELSE Turned(Pass(w, s, pos, b1 + Shift[c]))
RECURSIVE decodeRow2D(_, _, _, _, _)
Drawn2D(e, w, b, ref, c, old, s) ==
    IF s.err THEN [old EXCEPT !.err = TRUE, !.pos = @ + Len(TwoDim[c])]
    ELSE IF Len(s.row) >= e.Columns \/ (e.K < 0 /\ s.a0 >= e.Columns) THEN s
    ELSE decodeRow2D(e, w, b, ref, [s EXCEPT !.a0 = IF c = "h" THEN Len(s.row) ELSE @])
Found2D(e, w, b, ref, s, found) ==
    IF found = {} THEN [s EXCEPT !.err = e.K < 0]
    ELSE LET c == CHOOSE c \in found : TRUE
         IN  Drawn2D(e, w, b, ref, c, s, Mode(w, b, ref, s, c, seekB12D(w, s.row, ref, s.a0, s.colour)))
decodeRow2D(e, w, b, ref, s) ==
    Found2D(e, w, b, ref, s, {c \in DOMAIN TwoDim : Has(b, s.pos, TwoDim[c])})

Align(e, pos) == IF e.EncodedByteAlign THEN pos + ((8 - (pos % 8)) % 8) ELSE pos
Full(e, rows) == Limited(e) /\ Len(rows) >= e.Rows
AddRow(rows, row) == IF row = <<>> THEN rows ELSE Append(rows, row)

Done(rows, st) == [rows |-> rows, st |-> st]

\* The loops over the rows.  One that comes round without reading a bit never ends.
RECURSIVE decodeG31D(_, _, _, _, _)
After31D(e, w, b, pos, more, at) ==
    IF Full(e, more) THEN Done(more, "ok")
    ELSE IF at = pos /\ ~Limited(e) THEN Done(Front(more), "hang")
    ELSE decodeG31D(e, w, b, at, more)
Got31D(e, w, b, pos, rows, r) == After31D(e, w, b, pos, Append(rows, r.row), Align(e, r.pos))
Head31D(e, w, b, pos, rows, n) ==
    IF n = 6 THEN Done(rows, "ok")
    ELSE IF (n = 0 /\ e.EndOfLine) \/ n > 1 THEN Done(<<>>, "err")
    ELSE Got31D(e, w, b, pos, rows, decodeRow1D(e, w, b, Row0(pos + 12 * n)))
decodeG31D(e, w, b, pos, rows) ==
    IF pos \div 8 >= Len(b) \div 8 THEN Done(rows, "ok")
    ELSE Head31D(e, w, b, pos, rows, Times(b, pos, eol, 6))

\* The K - 1 rows after the first of a group.
RECURSIVE Rest(_, _, _, _, _, _)
Out(rows, st, pos) == [rows |-> rows, st |-> st, pos |-> pos]
AfterRest(e, w, b, pos, more, i) ==
    IF Full(e, more) THEN Out(more, "ok", pos) ELSE Rest(e, w, b, Align(e, pos), more, i + 1)
GotRest(e, w, b, pos, rows, i, r) ==
    IF r.err THEN Out(rows, "err", pos) ELSE AfterRest(e, w, b, r.pos, AddRow(rows, r.row), i)
HeadRest(e, w, b, pos, rows, i, got, n) ==
    IF ~got /\ n = 6 THEN Out(rows, "ok", pos)
    ELSE IF (~got /\ (n > 1 \/ e.EndOfLine)) \/ rows = <<>> THEN Out(rows, "err", pos)
    ELSE GotRest(e, w, b, pos, rows, i, decodeRow2D(e, w, b, Last(rows), Row0(IF got THEN pos + 13 ELSE pos)))
Rest(e, w, b, pos, rows, i) ==
    IF i >= e.K \/ pos \div 8 >= Len(b) \div 8 THEN Out(rows, "go", pos)
    ELSE HeadRest(e, w, b, pos, rows, i, Has(b, pos, eol0), Times(b, pos, eol1, 6))

RECURSIVE decodeG32D(_, _, _, _, _)
After32D(e, w, b, pos, rows, rest) ==
    IF rest.st # "go" THEN Done(rest.rows, rest.st)
    ELSE IF rest.pos = pos THEN Done(rows, "hang")
    ELSE decodeG32D(e, w, b, rest.pos, rest.rows)
Got32D(e, w, b, pos, rows, more, at) ==
    IF Full(e, more) THEN Done(more, "ok") ELSE After32D(e, w, b, pos, rows, Rest(e, w, b, at, more, 1))
First32D(e, w, b, pos, rows, r) == Got32D(e, w, b, pos, rows, AddRow(rows, r.row), Align(e, r.pos))
Head32D(e, w, b, pos, rows, n) ==
    IF n = 6 THEN Done(rows, "ok")
    ELSE IF (n = 0 /\ e.EndOfLine) \/ n > 1 THEN Done(<<>>, "err")
    ELSE First32D(e, w, b, pos, rows, decodeRow1D(e, w, b, Row0(pos + 13 * n)))
decodeG32D(e, w, b, pos, rows) ==
    IF pos \div 8 >= Len(b) \div 8 THEN Done(rows, "ok")
    ELSE Head32D(e, w, b, pos, rows, Times(b, pos, eol1, 6))

RECURSIVE decodeG4(_, _, _, _, _)
AfterG4(e, w, b, more, pos) == IF Full(e, more) THEN Done(more, "ok") ELSE decodeG4(e, w, b, Align(e, pos), more)
GotG4(e, w, b, rows, r) == IF r.err THEN Done(<<>>, "err") ELSE AfterG4(e, w, b, Append(rows, r.row), r.pos)
HeadG4(e, w, b, pos, rows, n) ==
    IF n = 2 THEN Done(rows, "ok")
    ELSE IF n = 1 THEN Done(<<>>, "err")
    ELSE GotG4(e, w, b, rows,
               decodeRow2D(e, w, b, IF rows = <<>> THEN [k \in 1 .. e.Columns |-> w] ELSE Last(rows), Row0(pos)))
decodeG4(e, w, b, pos, rows) ==
    IF pos \div 8 >= Len(b) \div 8 THEN Done(rows, "ok")
    ELSE HeadG4(e, w, b, pos, rows, Times(b, pos, eol, 2))

DecodeImage(e, w, b) ==
    IF e.K = 0 THEN decodeG31D(e, w, b, 0, <<>>)
    ELSE IF e.K > 0 THEN decodeG32D(e, w, b, 0, <<>>)
    ELSE decodeG4(e, w, b, 0, <<>>)

-----------------------------------------------------------------------------
\* One image is encoded and decoded; other calls of the package come between.

NotYet == <<>>
White(e) == IF e.BlackIs1 THEN 0 ELSE 1

Init ==
    /\ input \in Jobs
    /\ encoded = NotYet
    /\ output = Done(<<>>, "none")
    /\ white \in {0, 1}

Encode ==
    /\ encoded = NotYet
    /\ white' = White(input)
    /\ encoded' = EncodeImage(input, white', input.image)
    /\ UNCHANGED <<input, output>>

Decode ==
    /\ encoded # NotYet
    /\ output.st = "none"
    /\ white' = White(input)
    /\ output' = DecodeImage(input, white', encoded)
    /\ UNCHANGED <<input, encoded>>

\* A call for another image leaves its colours behind.
OtherCall ==
    /\ output.st = "none"
    /\ white' = 1 - white
    /\ UNCHANGED <<input, encoded, output>>

Next == Encode \/ Decode \/ OtherCall \/ (output.st # "none" /\ UNCHANGED vars)

Spec == Init /\ [][Next]_vars

-----------------------------------------------------------------------------
TypeOK ==
    /\ white \in {0, 1}
    /\ output.st \in {"none", "ok", "err", "hang"}
    /\ \A i \in DOMAIN encoded : encoded[i] \in {0, 1}

\* The rows the parameters ask for.
Wanted == IF Limited(input) THEN SubSeq(input.image, 1, IF input.Rows < Len(input.image) THEN input.Rows ELSE Len(input.image))
          ELSE input.image

\* Whether the end of the data is marked: by a code, by the number of rows, or because
\* the last row ends with its byte.
Ended ==
    \/ input.EndOfBlock
    \/ Limited(input) /\ input.Rows <= Len(input.image)
    \/ input.EncodedByteAlign

\* Decode returns the image Encode was given, up to the rows the parameters ask for: with
\* every combination of K, EncodedByteAlign, EndOfBlock, EndOfLine, Rows and BlackIs1,
\* whatever runs and changes of colour the rows have and whatever colours an earlier call
\* left in the package, as long as the end of the data can be seen.
RoundTrip == output.st # "none" /\ Ended => output = Done(Wanted, "ok")

=============================================================================

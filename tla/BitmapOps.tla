----------------------------- MODULE BitmapOps -----------------------------
(***************************************************************************)
(* What the JBIG2 coder does with whole bitmaps: raster operations on      *)
(* rectangles, borders, blitting of regions on pages and of symbols on     *)
(* text, cutting symbols out of a strip, packing without padding,          *)
(* expansion and rank reduction (bitmap.go, blit.go, combine.go,           *)
(* bin-expand.go, bin-reduce.go).  Each is one call on the bitmaps of a    *)
(* job; each is compared with what it does to the pixels.                  *)
(*                                                                         *)
(* Rows are of whole bytes, padded on the right; the raster operations     *)
(* combine a rectangle of one bitmap with a rectangle of another a byte at *)
(* a time, with shifts and masks for rectangles that do not start or end   *)
(* at a byte.  A byte is the set of the positions of its bits that are 1;  *)
(* position 7 is the leftmost pixel.  A bitmap has a width, a height and   *)
(* the bytes of its Data, numbered from 0; where Go would stop with an     *)
(* index out of range the result is Panic.                                 *)
(***************************************************************************)
EXTENDS Integers, Sequences, FiniteSets, SequencesExt

CONSTANTS Calls         \* calls to make: records with the field k and the arguments of the call

VARIABLES call, result

vars == <<call, result>>

-----------------------------------------------------------------------------
Byte == 0 .. 7
Shl(s, k) == {i + k : i \in s} \cap Byte
Shr(s, k) == {i - k : i \in s} \cap Byte
Not(s) == Byte \ s

Panic == [w |-> 0, h |-> 0, data |-> <<"panic">>]

RowStride(w) == (w + 7) \div 8
Bytes(w, h) == 0 .. (h * RowStride(w) - 1)
New(w, h) == [w |-> w, h |-> h, data |-> [i \in Bytes(w, h) |-> {}]]
GetByteIndex(bm, x, y) == y * RowStride(bm.w) + (x \div 8)
GetPixel(bm, x, y) ==
    LET i == GetByteIndex(bm, x, y) IN i \in DOMAIN bm.data /\ 7 - (x % 8) \in bm.data[i]

\* What a bitmap shows: its black pixels.  The bits of the padding are not shown.
Pixels(bm) == {p \in (0 .. bm.w - 1) \X (0 .. bm.h - 1) : GetPixel(bm, p[1], p[2])}
\* The bitmap with the given black pixels.
Packed(w, h, px) ==
    [w |-> w, h |-> h, data |-> [i \in Bytes(w, h) |->
        {b \in Byte : <<8 * (i % RowStride(w)) + 7 - b, i \div RowStride(w)>> \in px}]]

-----------------------------------------------------------------------------
\* The operators, on sets of bits.
PixSrc(s, d) == s
PixNotSrc(s, d) == Not(s)
PixSrcOrDst(s, d) == s \cup d
PixSrcAndDst(s, d) == s \cap d
PixSrcXorDst(s, d) == (s \ d) \cup (d \ s)
PixNotSrcOrDst(s, d) == Not(s) \cup d
PixNotSrcAndDst(s, d) == d \ s
PixSrcOrNotDst(s, d) == s \cup Not(d)
PixSrcAndNotDst(s, d) == s \ d
PixNotPixSrcOrDst(s, d) == Not(s \cup d)
PixNotPixSrcAndDst(s, d) == Not(s \cap d)
PixNotPixSrcXorDst(s, d) == Not(PixSrcXorDst(s, d))

\* Operators have the codes of their truth tables.
Apply(op, s, d) ==
    CASE op = 12 -> PixSrc(s, d) [] op = 3 -> PixNotSrc(s, d) [] op = 14 -> PixSrcOrDst(s, d) [] op = 8 -> PixSrcAndDst(s, d)
      [] op = 6 -> PixSrcXorDst(s, d) [] op = 11 -> PixNotSrcOrDst(s, d) [] op = 2 -> PixNotSrcAndDst(s, d)
      [] op = 13 -> PixSrcOrNotDst(s, d) [] op = 4 -> PixSrcAndNotDst(s, d) [] op = 1 -> PixNotPixSrcOrDst(s, d)
      [] op = 7 -> PixNotPixSrcAndDst(s, d) [] op = 9 -> PixNotPixSrcXorDst(s, d)
ApplyUni(op, d) == CASE op = 0 -> {} [] op = 15 -> Byte [] op = 5 -> Not(d)

combinePartial(d, s, m) == (d \ m) \cup (s \cap m)

-----------------------------------------------------------------------------
\* The bytes of a row that a rectangle from dx with dw pixels touches, with the bits of each.
LMask(n) == {p \in Byte : p >= 8 - n}
RMask(n) == {p \in Byte : p < n}

FirstBits(dx) == IF dx % 8 = 0 THEN 0 ELSE 8 - (dx % 8)
Doubly(dx, dw) == dw < FirstBits(dx)
FirstMask(dx, dw) == RMask(FirstBits(dx)) \cap (IF Doubly(dx, dw) THEN LMask(8 - FirstBits(dx) + dw) ELSE Byte)
FullBytes(dx, dw) == IF Doubly(dx, dw) THEN 0 ELSE (dw - FirstBits(dx)) \div 8
LastBits(dx, dw) == IF Doubly(dx, dw) THEN 0 ELSE (dx + dw) % 8
FirstFull(dx) == (dx + FirstBits(dx)) \div 8

Masks(dx, dw) ==
    LET f == FirstFull(dx)
        n == FullBytes(dx, dw)
    IN  [k \in (IF FirstBits(dx) = 0 THEN {} ELSE {dx \div 8}) \cup (f .. f + n - 1)
               \cup (IF LastBits(dx, dw) = 0 THEN {} ELSE {f + n}) |->
            IF k < f THEN FirstMask(dx, dw) ELSE IF k < f + n THEN Byte ELSE LMask(LastBits(dx, dw))]

\* The rectangle as it is clipped: to the left and above first, which moves both corners.
Rect(dx, dy, dw, dh, sx, sy) == [dx |-> dx, dy |-> dy, dw |-> dw, dh |-> dh, sx |-> sx, sy |-> sy]
Least(a, b) == IF a < b THEN a ELSE b
ClipSide(d, n, s, dlen, slen) ==
    LET a == IF d < 0 THEN <<0, n + d, s - d>> ELSE <<d, n, s>>
        b == IF a[3] < 0 THEN <<a[1] - a[3], a[2] + a[3], 0>> ELSE a
        c == Least(b[2], dlen - b[1])
    IN  <<b[1], Least(c, slen - b[3]), b[3]>>
Clip(r, dest, src) ==
    LET x == ClipSide(r.dx, r.dw, r.sx, dest.w, src.w)
        y == ClipSide(r.dy, r.dh, r.sy, dest.h, src.h)
    IN  Rect(x[1], y[1], x[2], y[2], x[3], y[3])
ClipUni(r, dest) ==
    LET Side(d, n, len) == LET e == IF d < 0 THEN <<0, n + d>> ELSE <<d, n>> IN <<e[1], Least(e[2], len - e[1])>>
        x == Side(r.dx, r.dw, dest.w)
        y == Side(r.dy, r.dh, dest.h)
    IN  Rect(x[1], y[1], x[2], y[2], 0, 0)

-----------------------------------------------------------------------------
\* Where the bytes of the source of a row are: the same bytes when both rectangles have the
\* same place in their bytes, two neighbours shifted together when they have not.
Hang(x) == FirstBits(x)
LeftShift(r) == IF Hang(r.dx) > Hang(r.sx) THEN Hang(r.dx) - Hang(r.sx) ELSE 8 - (Hang(r.sx) - Hang(r.dx))
RightShift(r) == 8 - LeftShift(r)
AtFirst(r, k) == Hang(r.dx) /= 0 /\ k = r.dx \div 8
AtLast(r, k) == k = FirstFull(r.dx) + FullBytes(r.dx, r.dw)
ShiftsLeft(r) == Hang(r.dx) > 8 - (r.sx % 8)
\* Whether the byte after the source byte is needed as well.  (Variant: never for the last.)
AddsByte_Full(r, k) == IF AtFirst(r, k) THEN ShiftsLeft(r) /\ r.dw >= Hang(r.sx) ELSE ~AtLast(r, k)
AddsByte(r, k) ==
    IF AtFirst(r, k) THEN ShiftsLeft(r) /\ r.dw >= Hang(r.sx)
    ELSE AtLast(r, k) => LastBits(r.dx, r.dw) > RightShift(r)
SourceByte(r, k) ==
    IF AtFirst(r, k) THEN r.sx \div 8 ELSE ((r.sx + Hang(r.dx)) \div 8) + (k - FirstFull(r.dx))
Shifted(r, src, base, k) ==
    LET i == base + SourceByte(r, k)
        left == Shl(src.data[i], LeftShift(r))
    IN  IF AtFirst(r, k) /\ ~ShiftsLeft(r) THEN Shr(src.data[i], RightShift(r))
        ELSE IF AddsByte(r, k) THEN combinePartial(left, Shr(src.data[i + 1], RightShift(r)), RMask(LeftShift(r)))
        ELSE left

Aligned(r) == r.dx % 8 = r.sx % 8
rasterOpVAlignedLow(r, src, base, k) == src.data[base + (r.sx \div 8) + (k - (r.dx \div 8))]
rasterOpByteAlignedLow(r, src, base, k) == src.data[base + (r.sx \div 8) + (k - (r.dx \div 8))]
rasterOpGeneralLow(r, src, base, k) == Shifted(r, src, base, k)

\* An index past the last byte is an error of Go.
Overruns(r, src) ==
    ~Aligned(r) /\ \E k \in DOMAIN Masks(r.dx, r.dw), i \in 0 .. r.dh - 1 :
        AddsByte(r, k) /\ RowStride(src.w) * (r.sy + i) + SourceByte(r, k) + 1 \notin DOMAIN src.data

\* The bytes of the rectangle, each replaced where its mask has bits.
Rows(dest, r, New2(_, _, _)) ==
    LET m == Masks(r.dx, r.dw)
        wd == RowStride(dest.w)
    IN  [dest EXCEPT !.data = [i \in DOMAIN dest.data |->
            LET y == i \div wd
                k == i % wd
            IN  IF y >= r.dy /\ y < r.dy + r.dh /\ k \in DOMAIN m
                THEN combinePartial(dest.data[i], New2(y - r.dy, k, dest.data[i]), m[k]) ELSE dest.data[i]]]

rasterOpUniLow(dest, r, op) ==
    LET c == ClipUni(r, dest)
        Byte2(y, k, d) == ApplyUni(op, d)
    IN  IF c.dw <= 0 \/ c.dh <= 0 THEN dest ELSE Rows(dest, c, Byte2)

rasterOpLow(dest, r, op, src) ==
    LET c == Clip(r, dest, src)
        Base(y) == RowStride(src.w) * (c.sy + y)
        Byte2(y, k, d) ==
            Apply(op, IF c.dx % 8 = 0 /\ c.sx % 8 = 0 THEN rasterOpByteAlignedLow(c, src, Base(y), k)
                      ELSE IF Aligned(c) THEN rasterOpVAlignedLow(c, src, Base(y), k)
                      ELSE rasterOpGeneralLow(c, src, Base(y), k), d)
    IN  IF c.dw <= 0 \/ c.dh <= 0 THEN dest
        ELSE IF Overruns(c, src) THEN Panic
        ELSE Rows(dest, c, Byte2)

rasterOperation(dest, r, op, src) ==
    IF op = 10 THEN dest
    ELSE IF op \in {0, 5, 15} THEN rasterOpUniLow(dest, r, op)
    ELSE rasterOpLow(dest, r, op, src)

-----------------------------------------------------------------------------
Failed == [w |-> 0, h |-> 0, data |-> <<"error">>]
NoResult == [w |-> -1, h |-> 0, data |-> <<"none">>]

-----------------------------------------------------------------------------
\* SetPadBits: with 0 the mask of the padding is cleared with itself, and so is the byte.
setPadBits(bm, val) ==
    LET last == bm.w \div 8
        Padded(i) == i % RowStride(bm.w) = last
    IN  IF bm.w % 8 = 0 THEN bm
        ELSE [bm EXCEPT !.data = [i \in DOMAIN bm.data |->
                IF ~Padded(i) THEN bm.data[i] ELSE IF val = 0 THEN {} ELSE bm.data[i] \cup RMask(8 - (bm.w % 8))]]

addBorderGeneral(bm, left, right, top, bot, val) ==
    LET wd == bm.w + left + right
        hd == bm.h + top + bot
        op == IF val > 0 THEN 15 ELSE 0
        Side(d, r) == rasterOperation(d, r, op, d)
        a == Side(New(wd, hd), Rect(0, 0, left, hd, 0, 0))
        b == Side(a, Rect(wd - right, 0, right, hd, 0, 0))
        c == Side(b, Rect(0, 0, wd, top, 0, 0))
        d == Side(c, Rect(0, hd - bot, wd, bot, 0, 0))
    IN  IF left < 0 \/ right < 0 \/ top < 0 \/ bot < 0 THEN Failed
        ELSE rasterOperation(d, Rect(left, top, bm.w, bm.h, 0, 0), 12, bm)

removeBorderGeneral(bm, left, right, top, bot) ==
    LET wd == bm.w - left - right
        hd == bm.h - top - bot
    IN  IF left < 0 \/ right < 0 \/ top < 0 \/ bot < 0 \/ wd <= 0 \/ hd <= 0 THEN Failed
        ELSE rasterOperation(New(wd, hd), Rect(0, 0, wd, hd, left, top), 12, bm)

Most(a, b) == IF a > b THEN a ELSE b
ClipRectangle(bm, x, y, w, h) ==
    LET x0 == Most(x, 0)
        y0 == Most(y, 0)
        bw == Least(x + w, bm.w) - x0
        bh == Least(y + h, bm.h) - y0
    IN  IF bw <= 0 \/ bh <= 0 THEN Failed ELSE rasterOperation(New(bw, bh), Rect(0, 0, bw, bh, x0, y0), 12, bm)

-----------------------------------------------------------------------------
\* GetUnpaddedData and NewWithUnpaddedData: the bits of the rows one after the other.
RowBits(bm, y) == [x \in 1 .. bm.w |-> GetPixel(bm, x - 1, y)]
PackedBytes(bits) ==
    [i \in 0 .. ((Len(bits) + 7) \div 8) - 1 |-> {p \in Byte : 8 * i + 8 - p <= Len(bits) /\ bits[8 * i + 8 - p]}]
GetUnpaddedData(bm) ==
    IF bm.w % 8 = 0 THEN bm.data ELSE PackedBytes(FlattenSeq([y \in 1 .. bm.h |-> RowBits(bm, y - 1)]))
BitOf(data, n) == n \div 8 \in DOMAIN data /\ 7 - (n % 8) \in data[n \div 8]
NewWithUnpaddedData(w, h, data) ==
    IF Cardinality(DOMAIN data) < (w * h + 7) \div 8 THEN Failed
    ELSE IF w % 8 = 0 THEN [w |-> w, h |-> h, data |-> data]
    ELSE [w |-> w, h |-> h, data |-> [i \in Bytes(w, h) |->
            {p \in Byte : 8 * (i % RowStride(w)) + 7 - p < w /\ BitOf(data, (i \div RowStride(w)) * w + 8 * (i % RowStride(w)) + 7 - p)}]]

-----------------------------------------------------------------------------
\* Operators of combineBytes.
CombineBytes(old, new, op) ==
    CASE op = "or" -> new \cup old [] op = "and" -> new \cap old [] op = "xor" -> PixSrcXorDst(new, old)
      [] op = "xnor" -> Not(PixSrcXorDst(new, old)) [] op = "not" -> Not(new) [] op = "replace" -> new

\* A negative number of bits is a huge one.
unpad(n, b) == IF n < 0 THEN {} ELSE {p \in b : p >= n}

\* Blit: the parts outside are meant to be skipped, with pixels counted as bytes.
BlitPlan(src, dst, x, y) ==
    LET over == IF x >= 0 /\ x + src.w > dst.w THEN src.w + x - dst.w ELSE 0
        rows == IF y < 0 THEN RowStride(src.w) ELSE 0
        start == (IF x < 0 THEN -x ELSE 0) + rows
        end == RowStride(src.w) - 1 - over + rows
        startLine == IF y < 0 THEN -y ELSE IF y + src.h > dst.h THEN src.h + y - dst.h ELSE 0
        s2 == 8 - (Most(x, 0) % 8)
    IN  [start |-> start, end |-> end, shift |-> s2, pad |-> src.w % 8, toShift |-> s2 - (src.w % 8),
         special |-> src.w <= 8 * (end - start) + s2,
         at |-> GetByteIndex(dst, Most(x, 0), Most(y, 0)), lines |-> Least(src.h, startLine + dst.h) - startLine]

\* A byte of the source as it falls on the destination: the bits left over from the byte
\* before it, and its own.
Register(src, i, first, shift) ==
    (IF i = first THEN {} ELSE Shl(src.data[i - 1], shift)) \cup Shr(src.data[i], 8 - shift)
NewByte(src, p, i, first, last) ==
    IF p.shift = 8 THEN src.data[i]
    ELSE IF i = last /\ p.special THEN unpad(p.toShift, Register(src, i, first, p.shift))
    ELSE Register(src, i, first, p.shift)
Spill(src, p, last) ==
    LET b == Shl(src.data[last], p.shift) IN IF p.pad = 0 THEN b ELSE unpad(8 + p.toShift, b)

\* The bytes of one line, left to right; an index that is out of range ends the call.
BlitLine(src, dst, p, l, op) ==
    LET first == p.start + l * RowStride(src.w)
        last == p.end + l * RowStride(src.w)
        at == p.at + l * RowStride(dst.w)
        n == last - first + 1
        spills == p.shift /= 8 /\ ~p.special
        Whole == [i \in DOMAIN dst.data |->
                    IF i >= at /\ i < at + n THEN CombineBytes(dst.data[i], NewByte(src, p, first + i - at, first, last), op)
                    ELSE IF spills /\ i = at + n THEN CombineBytes(dst.data[i], Spill(src, p, last), op)
                    ELSE dst.data[i]]
    IN  IF n <= 0 THEN dst
        ELSE IF first \notin DOMAIN src.data \/ last \notin DOMAIN src.data
                \/ at + n - (IF spills THEN 0 ELSE 1) \notin DOMAIN dst.data THEN Failed
        ELSE [dst EXCEPT !.data = Whole]
Blit(src, dst, x, y, op) ==
    LET p == BlitPlan(src, dst, x, y)
        Line(d, l) == IF d = Failed THEN d ELSE BlitLine(src, d, p, l, op)
    IN  FoldLeft(Line, dst, [l \in 1 .. Most(p.lines, 0) |-> l - 1])

-----------------------------------------------------------------------------
\* Extract: cuts a rectangle out.  A width of whole bytes leaves eight bits of padding.
Extract(src, x, y, w, h) ==
    LET dst == New(w, h)
        up == x % 8
        pad == 8 - (w % 8)
        wd == RowStride(w)
        first == x \div 8
        last == (x + w - 1) \div 8
        use == wd = last + 1 - first
        At(k, row) == src.data[GetByteIndex(src, 0, y + row) + k]
        Value(k, row) ==
            IF first = last THEN unpad(pad, Shl(At(first, row), up))
            ELSE IF up = 0 THEN IF first + k = last /\ use THEN unpad(pad, At(last, row)) ELSE At(first + k, row)
            ELSE IF first + k = last THEN IF use THEN unpad(pad, Shl(At(last, row), up)) ELSE {}
            ELSE LET v == Shl(At(first + k, row), up) \cup Shr(At(first + k + 1, row), 8 - up)
                 IN  IF first + k + 1 = last /\ ~use THEN unpad(pad, v) ELSE v
    IN  [dst EXCEPT !.data = [i \in DOMAIN dst.data |-> Value(i % wd, i \div wd)]]

-----------------------------------------------------------------------------
\* expandBinaryReplicate.  Lines are written once and copied; factors 2, 4 and 8 go by bytes,
\* and may write past the end of a line that the copies then repair.
SetBytes(data, at, bytes) == [i \in DOMAIN data |-> IF i >= at /\ i < at + Len(bytes) THEN bytes[i - at + 1] ELSE data[i]]
Expanded(b, f) == [k \in 1 .. f |-> {p \in Byte : (8 * (f - k) + p) \div f \in b}]
CopiedLine(data, line, stride, f) ==
    [i \in DOMAIN data |-> IF i >= line + stride /\ i < line + f * stride THEN data[line + ((i - line) % stride)] ELSE data[i]]
\* The bytes that one byte of the source is written to, at its place in the line.
Written(dst, f, j, bytes) ==
    LET wd == RowStride(dst.w) IN
    IF f = 2 /\ (j + 1) * 2 > wd THEN SubSeq(bytes, 1, 1)
    ELSE IF f = 8 /\ wd - 8 * j < 8 THEN SubSeq(bytes, 1, wd - 8 * j)
    ELSE bytes
ExpandLine(src, dst, f, i) ==
    LET wd == RowStride(dst.w)
        ws == RowStride(src.w)
        line == f * i * wd
        Put(data, j) == SetBytes(data, line + j * f, Written(dst, f, j, Expanded(src.data[i * ws + j], f)))
    IN  [dst EXCEPT !.data = CopiedLine(FoldLeft(Put, dst.data, [j \in 1 .. ws |-> j - 1]), line, wd, f)]
expandBinaryPower2(src, f) ==
    LET Line(d, i) == ExpandLine(src, d, f, i)
    IN  FoldLeft(Line, New(f * src.w, f * src.h), [i \in 1 .. src.h |-> i - 1])
expandBinaryReplicate(src, xf, yf) ==
    IF xf = yf /\ xf = 1 THEN src
    ELSE IF xf = yf /\ xf \in {2, 4, 8} THEN expandBinaryPower2(src, xf)
    ELSE Packed(xf * src.w, yf * src.h, {p \in (0 .. xf * src.w - 1) \X (0 .. yf * src.h - 1) : GetPixel(src, p[1] \div xf, p[2] \div yf)})

-----------------------------------------------------------------------------
\* reduceRankBinary2: two rows of four bytes at a time become two bytes.
Word(src, y, j) ==
    UNION {{8 * (3 - k) + p : p \in IF j + k < RowStride(src.w) THEN src.data[y * RowStride(src.w) + j + k] ELSE {}} : k \in 0 .. 3}
Up(w) == {p + 1 : p \in w} \cap (0 .. 31)
Ranked(w1, w2, level) ==
    LET both == w1 \cap w2
        any == w1 \cup w2
    IN  CASE level = 1 -> any \cup Up(any)
          [] level = 2 -> (both \cup Up(both)) \cup (any \cap Up(any))
          [] level = 3 -> (both \cup Up(both)) \cap (any \cap Up(any))
          [] level = 4 -> both \cap Up(both)
\* The odd bits, gathered through the table: of the upper half, and of the lower half.
Gathered(w, high) == {p \in Byte : 2 * p + 1 + (IF high THEN 16 ELSE 0) \in w}
ReduceWord(src, dst, level, id, st) ==
    LET w == Ranked(Word(src, 2 * id, st.j), Word(src, 2 * id + 1, st.j), level)
        wd == RowStride(dst.w)
        at == id * wd + st.jd
        single == at + 1 = Cardinality(DOMAIN st.data) - 1 \/ st.jd + 1 >= wd
    IN  [data |-> SetBytes(st.data, at, IF single THEN <<Gathered(w, TRUE)>> ELSE <<Gathered(w, TRUE), Gathered(w, FALSE)>>),
         j |-> st.j + 4, jd |-> st.jd + (IF single THEN 1 ELSE 2)]
reduceRankBinary2(src, level) ==
    LET dst == New(src.w \div 2, src.h \div 2)
        wpl == Least(RowStride(src.w), 2 * RowStride(dst.w))
        Words == [k \in 1 .. (wpl + 3) \div 4 |-> k]
        Line(data, id) ==
            LET Step(st, k) == ReduceWord(src, dst, level, id, st)
            IN  FoldLeft(Step, [data |-> data, j |-> 0, jd |-> 0], Words).data
    IN  IF src.h <= 1 \/ level \notin 1 .. 4 THEN Failed
        ELSE [dst EXCEPT !.data = FoldLeft(Line, dst.data, [i \in 1 .. src.h \div 2 |-> i - 1])]

-----------------------------------------------------------------------------
Init == call \in Calls /\ result = NoResult

Called(k, value) ==
    /\ call.k = k /\ result = NoResult
    /\ result' = value
    /\ UNCHANGED call

RasterOperation == Called("raster", rasterOperation(call.dst, call.r, call.op, call.src))
AddBorder == Called("border", addBorderGeneral(call.bm, call.left, call.right, call.top, call.bot, call.val))
RemoveBorder == Called("remove", removeBorderGeneral(call.bm, call.left, call.right, call.top, call.bot))
ClipToBox == Called("clip", ClipRectangle(call.bm, call.x, call.y, call.w, call.h))
PadBits == Called("pad", setPadBits(call.bm, call.val))
Unpad == Called("unpad", NewWithUnpaddedData(call.bm.w, call.bm.h, GetUnpaddedData(call.bm)))
BlitBitmap == Called("blit", Blit(call.src, call.dst, call.x, call.y, call.op))
ExtractBitmap == Called("extract", Extract(call.src, call.x, call.y, call.w, call.h))
Expand == Called("expand", expandBinaryReplicate(call.bm, call.xf, call.yf))
Reduce == Called("reduce", reduceRankBinary2(call.bm, call.level))

Done == result /= NoResult /\ UNCHANGED vars

Next ==
    \/ RasterOperation \/ AddBorder \/ RemoveBorder \/ ClipToBox \/ PadBits \/ Unpad
    \/ BlitBitmap \/ ExtractBitmap \/ Expand \/ Reduce \/ Done

Spec == Init /\ [][Next]_vars

-----------------------------------------------------------------------------
TypeOK == result = NoResult \/ (result.w \in Nat /\ result.h \in Nat)

Answered(k) == call.k = k /\ result /= NoResult
Grid(w, h) == (0 .. w - 1) \X (0 .. h - 1)
Black(b) == IF b THEN 1 ELSE 0
\* The pixel that operator op, a truth table, makes of a source and a destination pixel.
Bit(op, s, d) == (op \div (2 ^ (2 * Black(s) + Black(d)))) % 2 = 1
\* The pixels after an operation on a rectangle, each from its own two pixels.
Painted(dst, r, op, src) ==
    {p \in Grid(dst.w, dst.h) :
        LET q == <<p[1] - r.dx + r.sx, p[2] - r.dy + r.sy>>
            inside == p[1] >= r.dx /\ p[1] < r.dx + r.dw /\ p[2] >= r.dy /\ p[2] < r.dy + r.dh
                      /\ (op \in {0, 5, 10, 15} \/ q \in Grid(src.w, src.h))
        IN  IF inside THEN Bit(op, q \in Pixels(src), p \in Pixels(dst)) ELSE p \in Pixels(dst)}
\* Moved by an offset, the pixels that stay on a bitmap of the given size.
Moved(px, dx, dy, w, h) == {<<p[1] + dx, p[2] + dy>> : p \in px} \cap Grid(w, h)

\* RasterOperation gives each pixel of the destination's rectangle what the operator makes of
\* it and of the source pixel over it, and leaves all others, whichever of the three loops and
\* masks are chosen; it only ends in an index out of range when the rectangle reaches the
\* source's last byte.
RasterExact ==
    Answered("raster") =>
        IF result = Panic THEN call.r.sy + call.r.dh >= call.src.h /\ (call.r.sx + call.r.dw + 7) \div 8 >= RowStride(call.src.w)
        ELSE Pixels(result) = Painted(call.dst, call.r, call.op, call.src)

\* AddBorderGeneral surrounds the bitmap with pixels of one colour, RemoveBorderGeneral and
\* ClipRectangle keep the pixels of the inner rectangle, at their places; setting the bits of
\* the padding changes no pixel (clearing them does: the byte they are in is cleared).
BordersExact ==
    /\ Answered("pad") /\ call.val = 1 => Pixels(result) = Pixels(call.bm)
    /\ Answered("border") /\ result /= Failed =>
        Pixels(result) = Moved(Pixels(call.bm), call.left, call.top, result.w, result.h)
            \cup {p \in Grid(result.w, result.h) : call.val = 1 /\ <<p[1] - call.left, p[2] - call.top>> \notin Grid(call.bm.w, call.bm.h)}
    /\ Answered("remove") /\ result \notin {Failed, Panic} =>
        Pixels(result) = Moved(Pixels(call.bm), -call.left, -call.top, result.w, result.h)
    /\ Answered("clip") /\ result \notin {Failed, Panic} =>
        Pixels(result) = Moved(Pixels(call.bm), -Most(call.x, 0), -Most(call.y, 0), result.w, result.h)

\* The data of a bitmap without its padding gives back the bitmap.
UnpaddedBack == Answered("unpad") => result.w = call.bm.w /\ Pixels(result) = Pixels(call.bm)

\* Blit with or and xor of a source that lies inside the destination combines exactly the
\* pixels under it.
BlitExact ==
    Answered("blit") /\ call.op \in {"or", "xor"} /\ call.x >= 0 /\ call.y >= 0
            /\ call.x + call.src.w <= call.dst.w /\ call.y + call.src.h <= call.dst.h =>
        Pixels(result) = Painted(call.dst, Rect(call.x, call.y, call.src.w, call.src.h, 0, 0),
                                 IF call.op = "or" THEN 14 ELSE 6, call.src)

\* Extract cuts out the pixels of the rectangle when its width is not a whole number of bytes.
ExtractExact ==
    Answered("extract") /\ call.w % 8 /= 0 =>
        Pixels(result) = Moved(Pixels(call.src), -call.x, -call.y, call.w, call.h)

\* Extract cuts out the pixels of the rectangle.
ExtractKeepsPixels ==
    Answered("extract") => Pixels(result) = Moved(Pixels(call.src), -call.x, -call.y, call.w, call.h)

\* Expansion makes a block of every pixel, whatever the padding of the two bitmaps.
ExpandExact ==
    Answered("expand") =>
        Pixels(result) = {p \in Grid(call.bm.w * call.xf, call.bm.h * call.yf) : <<p[1] \div call.xf, p[2] \div call.yf>> \in Pixels(call.bm)}

\* Rank reduction sets a pixel when at least level pixels of its block of four are set, but for
\* the last byte of the last row when rows have an even number of bytes.
ReduceExact ==
    Answered("reduce") /\ result /= Failed =>
        LET n == RowStride(result.w)
            Block(p) == {<<2 * p[1] + a, 2 * p[2] + b>> : a \in {0, 1}, b \in {0, 1}}
            Lost(p) == n % 2 = 0 /\ p[2] = result.h - 1 /\ p[1] \div 8 = n - 1
        IN  \A p \in Grid(result.w, result.h) :
                ~Lost(p) => (p \in Pixels(result) <=> Cardinality(Block(p) \cap Pixels(call.bm)) >= call.level)
=============================================================================

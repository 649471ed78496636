-------------------------- MODULE RegionContexts --------------------------
(***************************************************************************)
(* Generic and refinement regions of JBIG2: the context with which each    *)
(* pixel is coded.  The code keeps contexts in shift registers filled      *)
(* byte by byte from the rows above; the standard defines them by the      *)
(* pixels around the coded one.  A region is coded row by row by           *)
(* Encoder.EncodeBitmap or Encoder.Refine (encoder/arithmetic/encoder.go)  *)
(* or by another encoder that follows the definition, and decoded row by   *)
(* row by GenericRegion or GenericRefinementRegion (document/segments).    *)
(*                                                                         *)
(* The arithmetic coder is a channel of decisions, pairs of a context and  *)
(* a bit: it returns the bits as long as it is asked with the contexts     *)
(* they were coded with.  A word is the set of the positions of its bits   *)
(* that are 1, a bitmap has its width, height and set of black pixels.     *)
(***************************************************************************)
EXTENDS Integers, Sequences, FiniteSets

CONSTANTS Regions       \* regions to code: records with the fields of Region below

VARIABLES region, row, channel, decoder

vars == <<region, row, channel, decoder>>

Shl(s, k) == {i + k : i \in s}
Shr(s, k) == {i - k : i \in {p \in s : p >= k}}
Low(s, n) == {i \in s : i < n}
Bits(a, b) == a .. b

RowStride(bm) == (bm.w + 7) \div 8
Pixel(bm, x, y) == x >= 0 /\ y >= 0 /\ x < bm.w /\ y < bm.h /\ <<x, y>> \in bm.px
\* The byte with an index in the data: the bits of eight pixels, the leftmost highest.
GetByte(bm, i) == {p \in 0 .. 7 : <<8 * (i % RowStride(bm)) + 7 - p, i \div RowStride(bm)>> \in bm.px}
RowByte(bm, y, k) == GetByte(bm, y * RowStride(bm) + k)
Blank(w, h) == [w |-> w, h |-> h, px |-> {}]

-----------------------------------------------------------------------------
\* Templates of generic regions: how far the second row above is shifted to the left, the
\* shift and the bits of the first context, the bits kept and entered with each pixel, the
\* context of the line flags, and the positions and the usual places of the adaptive pixels.
Template ==
    [t0a |-> [sh2 |-> 6, first |-> 0, init1 |-> Bits(4, 7), init2 |-> Bits(11, 13), keep |-> Bits(0, 14) \ {3, 10},
              in1 |-> 4, in2 |-> 11, from |-> 7, sltp |-> {0, 2, 5, 8, 9, 11, 12, 15},
              pos |-> <<4, 10, 11, 15>>, clear |-> <<4, 10, 11, 15>>, at |-> <<<<3, -1>>, <<-3, -1>>, <<2, -2>>, <<-2, -2>>>>],
     t0b |-> [sh2 |-> 6, first |-> 0, init1 |-> Bits(4, 7), init2 |-> Bits(11, 13), keep |-> Bits(0, 14) \ {3, 10},
              in1 |-> 4, in2 |-> 11, from |-> 7, sltp |-> {0, 2, 5, 8, 9, 11, 12, 15},
              pos |-> <<1, 13, 9, 14, 12, 5, 2, 3, 11, 4, 15, 10>>, clear |-> <<1, 13, 9, 14, 12, 5, 2, 3, 11, 4, 15, 9>>,
              at |-> <<<<-2, 0>>, <<0, -2>>, <<-2, -1>>, <<-1, -2>>, <<1, -2>>, <<2, -1>>, <<-3, 0>>, <<-4, 0>>, <<2, -2>>,
                       <<3, -1>>, <<-2, -2>>, <<-3, -1>>>>],
     t1 |-> [sh2 |-> 5, first |-> 1, init1 |-> Bits(3, 8), init2 |-> Bits(9, 12), keep |-> Bits(0, 11) \ {2, 8},
             in1 |-> 3, in2 |-> 9, from |-> 8, sltp |-> {0, 2, 4, 7, 8, 9, 10},
             pos |-> <<3>>, clear |-> <<3>>, at |-> <<<<3, -1>>>>],
     t2 |-> [sh2 |-> 4, first |-> 3, init1 |-> Bits(2, 6), init2 |-> Bits(7, 9), keep |-> Bits(0, 8) \ {1, 6},
             in1 |-> 2, in2 |-> 7, from |-> 10, sltp |-> {0, 2, 5, 6, 7},
             pos |-> <<2>>, clear |-> <<2>>, at |-> <<<<2, -1>>>>],
     t3 |-> [sh2 |-> 0, first |-> 1, init1 |-> Bits(4, 6), init2 |-> {}, keep |-> Bits(0, 8) \ {3},
             in1 |-> 4, in2 |-> -1, from |-> 8, sltp |-> {0, 2, 4, 7, 8},
             pos |-> <<4>>, clear |-> <<4>>, at |-> <<<<2, -1>>>>]]

\* What the standard says: the pixels of the context, from the lowest bit, of the current row
\* and of the rows above.
Around ==
    LET Run(y, a, b) == [i \in 1 .. a - b + 1 |-> <<a - i + 1, y>>]
    IN  [t0a |-> Run(0, -1, -4) \o Run(-1, 3, -3) \o Run(-2, 2, -2), t0b |-> Run(0, -1, -4) \o Run(-1, 3, -3) \o Run(-2, 2, -2),
         t1 |-> Run(0, -1, -3) \o Run(-1, 3, -2) \o Run(-2, 2, -1), t2 |-> Run(0, -1, -2) \o Run(-1, 2, -2) \o Run(-2, 1, -1),
         t3 |-> Run(0, -1, -4) \o Run(-1, 2, -3)]

\* A generic region: the template, its adaptive pixels, whether repeated rows are left out,
\* and who codes it.  A refinement region has the bitmap it refines and its offset as well.
Region(kind, template, at, tpgd, own, bm, ref, dx, dy) ==
    [kind |-> kind, template |-> template, at |-> at, tpgd |-> tpgd, own |-> own, bm |-> bm, ref |-> ref, dx |-> dx, dy |-> dy]

Nominal(t) == Template[t].at
Place(t, at, p) ==
    IF \E i \in DOMAIN Template[t].pos : Template[t].pos[i] = p
    THEN at[CHOOSE i \in DOMAIN Template[t].pos : Template[t].pos[i] = p] ELSE Around[t][p + 1]
Defined(t, at, bm, x, y) ==
    {p \in 0 .. Len(Around[t]) - 1 : Pixel(bm, x + Place(t, at, p)[1], y + Place(t, at, p)[2])}

\* The places in a refinement's context: of the region itself and of the refined bitmap.
OfRegion == <<<<-1, 0>>, <<1, -1>>, <<0, -1>>, <<-1, -1>>>>
OfReference(t) ==
    IF t = "r0" THEN <<<<1, 1>>, <<0, 1>>, <<-1, 1>>, <<1, 0>>, <<0, 0>>, <<-1, 0>>, <<1, -1>>, <<0, -1>>, <<-1, -1>>>>
    ELSE <<<<1, 1>>, <<0, 1>>, <<1, 0>>, <<0, 0>>, <<-1, 0>>, <<0, -1>>>>
RegionPlace(r, p) == IF r.template = "r0" /\ p = 3 THEN r.at[1] ELSE OfRegion[p + 1]
DefinedRefinement(r, x, y) ==
    {p \in 0 .. 3 : Pixel(r.bm, x + RegionPlace(r, p)[1], y + RegionPlace(r, p)[2])}
    \cup {p \in 4 .. 3 + Len(OfReference(r.template)) :
            Pixel(r.ref, x - r.dx + OfReference(r.template)[p - 3][1], y - r.dy + OfReference(r.template)[p - 3][2])}

-----------------------------------------------------------------------------
\* The row of the region as decisions.
Decision(ctx, bit) == [ctx |-> ctx, bit |-> bit]
SameAsAbove(bm, y) == y > 0 /\ \A x \in 0 .. bm.w - 1 : Pixel(bm, x, y) = Pixel(bm, x, y - 1)
\* Whether rows are left out changes in the row.
Changes(r, y) == r.tpgd /\ SameAsAbove(r.bm, y) # SameAsAbove(r.bm, y - 1)

\* EncodeBitmap: b1 and b2 hold what is left of the bytes of the rows above, b3 of the row.
Rolled(bm, y, x, at, b) == IF x % 8 = at /\ y >= 0
                           THEN IF x \div 8 + 1 < RowStride(bm) THEN RowByte(bm, y, x \div 8 + 1) ELSE {}
                           ELSE Low(Shl(b, 1), 8)
Entered(c, b, n) == Low(Shl(c, 1) \cup Shr(b, 7), n)

EncodePixel(bm, y, x, s) ==
    [c1 |-> Entered(s.c1, s.b1, 5), c2 |-> Entered(s.c2, s.b2, 7), c3 |-> Entered(s.c3, s.b3, 4),
     b1 |-> Rolled(bm, y - 2, x, 4, s.b1), b2 |-> Rolled(bm, y - 1, x, 3, s.b2), b3 |-> Rolled(bm, y, x, 7, s.b3),
     out |-> Append(s.out, Decision(Shl(s.c1, 11) \cup Shl(s.c2, 4) \cup s.c3, 7 \in s.b3))]
RECURSIVE EncodeRow(_, _, _)
EncodeRow(bm, y, s) == IF Len(s.out) = bm.w THEN s.out ELSE EncodeRow(bm, y, EncodePixel(bm, y, Len(s.out), s))
Above(bm, y) == IF y >= 0 THEN RowByte(bm, y, 0) ELSE {}
EncodeBitmapRow(bm, y) ==
    EncodeRow(bm, y, [c1 |-> Shr(Above(bm, y - 2), 5), c2 |-> Shr(Above(bm, y - 1), 4), c3 |-> {},
                         b1 |-> Low(Shl(Above(bm, y - 2), 3), 8), b2 |-> Low(Shl(Above(bm, y - 1), 4), 8),
                         b3 |-> RowByte(bm, y, 0), out |-> <<>>])

\* Refine: rows of the refined bitmap around row ty = y + oy, the row above and the row itself.
InRef(ref, y) == y >= 0 /\ y < ref.h
RefAt(ref, y, k) == IF InRef(ref, y) /\ k < RowStride(ref) THEN RowByte(ref, y, k) ELSE {}
RefRolled(r, y, x, b) == IF x % 8 = 5 + r.dx THEN RefAt(r.ref, y, x \div 8 + 1) ELSE Low(Shl(b, 1), 8)
RefineContext(s) == Shl(s.c1, 10) \cup Shl(s.c2, 7) \cup Shl(s.c3, 4) \cup Shl(s.c4, 1) \cup s.c5
RefinePixel(r, y, x, s) ==
    [c1 |-> Entered(s.c1, s.b1, 3), c2 |-> Entered(s.c2, s.b2, 3), c3 |-> Entered(s.c3, s.b3, 3), c4 |-> Entered(s.c4, s.b4, 3),
     c5 |-> Shr(s.b5, 7),
     b1 |-> RefRolled(r, y - r.dy - 1, x, s.b1), b2 |-> RefRolled(r, y - r.dy, x, s.b2), b3 |-> RefRolled(r, y - r.dy + 1, x, s.b3),
     b4 |-> Rolled(r.bm, y - 1, x, 5, s.b4), b5 |-> Rolled(r.bm, y, x, 7, s.b5),
     out |-> Append(s.out, Decision(RefineContext(s), 7 \in s.b5))]
RECURSIVE RefineRow(_, _, _)
RefineRow(r, y, s) == IF Len(s.out) = r.bm.w THEN s.out ELSE RefineRow(r, y, RefinePixel(r, y, Len(s.out), s))
FirstC(r, y) == Shr(RefAt(r.ref, y, 0), 6 + r.dx)
FirstB(r, y) == Low(Shl(RefAt(r.ref, y, 0), 2 - r.dx), 8)
Refine(r, y) ==
    RefineRow(r, y, [c1 |-> FirstC(r, y - r.dy - 1), c2 |-> FirstC(r, y - r.dy), c3 |-> FirstC(r, y - r.dy + 1),
                        c4 |-> Shr(Above(r.bm, y - 1), 6), c5 |-> {},
                        b1 |-> FirstB(r, y - r.dy - 1), b2 |-> FirstB(r, y - r.dy), b3 |-> FirstB(r, y - r.dy + 1),
                        b4 |-> Low(Shl(Above(r.bm, y - 1), 2), 8), b5 |-> RowByte(r.bm, y, 0), out |-> <<>>])

\* Another encoder, by the definition.
DefinedRow(r, y) ==
    [i \in 1 .. r.bm.w |->
        Decision(IF r.kind = "generic" THEN Defined(r.template, r.at, r.bm, i - 1, y) ELSE DefinedRefinement(r, i - 1, y),
                 Pixel(r.bm, i - 1, y))]

Pixels(r, y) ==
    IF ~r.own THEN DefinedRow(r, y) ELSE IF r.kind = "generic" THEN EncodeBitmapRow(r.bm, y) ELSE Refine(r, y)
LineFlag(r, y) == IF r.tpgd THEN <<Decision(Template[r.template].sltp, Changes(r, y))>> ELSE <<>>
CodedRow(r, y) == LineFlag(r, y) \o (IF r.tpgd /\ SameAsAbove(r.bm, y) THEN <<>> ELSE Pixels(r, y))

-----------------------------------------------------------------------------
\* DecodeBit: the bit if the context is the one it was coded with.
Asked(s, ctx) == s.pos <= Len(channel) /\ channel[s.pos].ctx = ctx
BitAt(s) == s.pos <= Len(channel) /\ channel[s.pos].bit

\* Adaptive pixels that are not in their usual place replace bits of the context.
InRow(at, minorX) == at[2] = 0 /\ at[1] >= -minorX
FromResult(t, at, minorX, result) ==
    IF t \in {"t0a", "t0b"}
    THEN IF 7 - minorX < at[1] % 2 THEN {} ELSE Shr(result, 7 - minorX - (at[1] % 2))
    ELSE IF 7 - (minorX + at[1]) \in result THEN {0} ELSE {}
AtBits(t, at, bm, x, y, result) ==
    IF InRow(at, x % 8) THEN FromResult(t, at, x % 8, result) ELSE IF Pixel(bm, x + at[1], y + at[2]) THEN {0} ELSE {}
RECURSIVE OverrideAt(_, _, _, _, _, _, _)
OverrideAt(r, i, ctx, bm, x, y, result) ==
    IF i > Len(r.at) THEN ctx
    ELSE OverrideAt(r, i + 1,
                    IF r.at[i] = Template[r.template].at[i] THEN ctx
                    ELSE (ctx \ {Template[r.template].clear[i]})
                         \cup Shl(AtBits(r.template, r.at[i], bm, x, y, result), Template[r.template].pos[i]),
                    bm, x, y, result)

\* Before the first pixel of a byte the next byte of the rows above enters their registers.
NextByteOf(bm, y, x) == IF x + 8 < bm.w THEN RowByte(bm, y, x \div 8 + 1) ELSE {}
Loaded(t, y, s) ==
    IF s.x % 8 # 0 THEN s
    ELSE [s EXCEPT !.line1 = IF y > 0 THEN Shl(@, 8) \cup NextByteOf(s.bm, y - 1, s.x) ELSE @,
                   !.line2 = IF y > 1 THEN Shl(@, 8) \cup Shl(NextByteOf(s.bm, y - 2, s.x), t.sh2) ELSE @,
                   !.result = {}]
\* A finished byte is stored.
Stored(y, s) ==
    IF s.x % 8 # 0 /\ s.x # s.bm.w THEN s
    ELSE [s EXCEPT !.bm.px = @ \cup {<<8 * ((s.x - 1) \div 8) + 7 - p, y>> : p \in s.result}]
Taken(t, ctx, s) ==
    [s EXCEPT !.x = @ + 1, !.pos = @ + 1, !.ok = @ /\ Asked(s, ctx),
              !.result = IF BitAt(s) THEN @ \cup {7 - (s.x % 8)} ELSE @,
              !.ctx = Shl(@ \cap t.keep, 1) \cup (IF BitAt(s) THEN {0} ELSE {})
                      \cup (Shr(s.line1, t.from - (s.x % 8)) \cap {t.in1}) \cup (Shr(s.line2, t.from - (s.x % 8)) \cap {t.in2})]
DecodePixel(r, y, s) ==
    Stored(y, Taken(Template[r.template], OverrideAt(r, 1, s.ctx, s.bm, s.x, y, s.result), s))
RECURSIVE DecodeRow(_, _, _)
DecodeRow(r, y, s) ==
    IF s.x = s.bm.w THEN s ELSE DecodeRow(r, y, DecodePixel(r, y, Loaded(Template[r.template], y, s)))
Result(d, s) == [d EXCEPT !.bm = s.bm, !.pos = s.pos, !.ok = s.ok]
FirstContext(t, line1, line2) == (Shr(line1, t.first) \cap t.init1) \cup (Shr(line2, t.first) \cap t.init2)
decodeLine(r, y, d) ==
    LET line1 == Above(d.bm, y - 1)
        line2 == Shl(Above(d.bm, y - 2), Template[r.template].sh2)
    IN  Result(d, DecodeRow(r, y, [x |-> 0, bm |-> d.bm, pos |-> d.pos, ok |-> d.ok, result |-> {},
                                   line1 |-> line1, line2 |-> line2,
                                   ctx |-> FirstContext(Template[r.template], line1, line2)]))

copyLineAbove(y, d) == [d EXCEPT !.bm.px = @ \cup {<<p[1], y>> : p \in {q \in @ : q[2] = y - 1}}]
decodeSLTP(r, d) ==
    IF ~r.tpgd THEN d
    ELSE [d EXCEPT !.pos = @ + 1, !.ok = @ /\ Asked(d, Template[r.template].sltp), !.ltp = @ # BitAt(d)]
GenericLine(r, y, d) == IF d.ltp THEN (IF y > 0 THEN copyLineAbove(y, d) ELSE d) ELSE decodeLine(r, y, d)

-----------------------------------------------------------------------------
\* Division in Go rounds towards zero.
Rem8(a) == IF a >= 0 THEN a % 8 ELSE -((-a) % 8)
\* Words of the rows of the refined bitmap above, at and below the current line, at an index.
InData(bm, i) == i >= 0 /\ i < RowStride(bm) * bm.h
RefRows(r, cl, i) == [k \in {-1, 0, 1} |-> IF InRef(r.ref, cl + k) THEN GetByte(r.ref, i + k * RowStride(r.ref)) ELSE {}]
RefRowsRead(r, cl, i) == \A k \in {-1, 0, 1} : InRef(r.ref, cl + k) => InData(r.ref, i + k * RowStride(r.ref))
NoRows == [k \in {-1, 0, 1} |-> {}]
ShlRows(w, n) == [k \in {-1, 0, 1} |-> Low(Shl(w[k], n), 8)]

\* The three bits of each row before the first pixel, by how far the shift is.
FirstThree(r, cl, i, w) ==
    LET so == 6 + Rem8(r.dx)
        before == IF so = 6 /\ (i % RowStride(r.ref)) > 1 THEN RefRows(r, cl, i - 2) ELSE NoRows
        after == IF (i % RowStride(r.ref)) < RowStride(r.ref) - 1 THEN RefRows(r, cl, i) ELSE NoRows
    IN  [k \in {-1, 0, 1} |->
            IF so < 0 THEN Low(Shl(w[k], 1), 3) \cup Shr(after[k], 7)
            ELSE IF so >= 8 THEN {} ELSE Low(Shr(w[k], so), 3) \cup (Shl(before[k], 2) \cap {2})]
Reloads(r) == 6 + Rem8(r.dx) <= 0
Reloaded(r, cl, i, w) ==
    IF ~Reloads(r) THEN w
    ELSE IF (i % RowStride(r.ref)) < RowStride(r.ref) - 1 THEN RefRows(r, cl, i) ELSE NoRows
NextIndex(r, i) ==
    IF 6 + Rem8(r.dx) = 0 \/ (6 + Rem8(r.dx) < 0 /\ (i % RowStride(r.ref)) < RowStride(r.ref) - 1) THEN i + 1 ELSE i
Trimmed(r, w) == IF Rem8(2 - Rem8(r.dx)) < 0 THEN NoRows ELSE ShlRows(w, Rem8(2 - Rem8(r.dx)))

form(t, c, c4, c5) ==
    IF t = "r0" THEN Shl(c[-1], 10) \cup Shl(c[0], 7) \cup Shl(c[1], 4) \cup Shl(c4, 1) \cup c5
    ELSE Shl(c[-1] \cap {1}, 8) \cup Shl(c[0], 6) \cup Shl(c[1] \cap {0, 1}, 4) \cup Shl(c4, 1) \cup c5

\* Only pixels of which both coordinates differ from -1 are taken as moved.
Moved(at) == at[1] # -1 /\ at[2] # -1
AtRegion(at, bm, x, y) ==
    IF InRow(at, x % 8) THEN 7 - ((x % 8) + at[1]) \in RowByte(bm, y, x \div 8) ELSE Pixel(bm, x + at[1], y + at[2])
overrideFirst(r, ctx, bm, x, y) ==
    IF r.template = "r0" /\ Moved(r.at[1]) THEN (ctx \ {3}) \cup (IF AtRegion(r.at[1], bm, x, y) THEN {3} ELSE {}) ELSE ctx
overrideSecond(r, ctx, bm, x, y) ==
    IF ~(r.template = "r0" /\ Moved(r.at[2])) THEN ctx
    ELSE (ctx \ {12}) \cup (IF InRow(r.at[2], x % 8) THEN (IF AtRegion(r.at[2], bm, x, y) THEN {12} ELSE {})
                             ELSE IF Pixel(r.ref, x + r.at[2][1], y + r.at[2][2]) THEN {0} ELSE {})
RefinementContext(r, y, s) ==
    overrideSecond(r, overrideFirst(r, form(r.template, s.c, s.c4, s.c5), s.bm, s.x, y), s.bm, s.x, y)

RefFill(r, y, s) == Rem8(s.x - r.dx) = 5
FillsIn(r, s) == (s.x - r.dx) \div 8 + 1 < RowStride(r.ref)
RefinementPixel(r, y, s) ==
    [s EXCEPT !.x = @ + 1, !.pos = @ + 1,
              !.ok = @ /\ Asked(s, RefinementContext(r, y, s))
                       /\ (RefFill(r, y, s) /\ FillsIn(r, s) => RefRowsRead(r, y - r.dy, s.ri)),
              !.bm.px = IF BitAt(s) THEN @ \cup {<<s.x, y>>} ELSE @,
              !.c = [k \in {-1, 0, 1} |-> Entered(@[k], s.w[k], 3)], !.c4 = Entered(@, s.w4, 3),
              !.c5 = IF BitAt(s) THEN {0} ELSE {},
              !.w = IF RefFill(r, y, s) THEN (IF FillsIn(r, s) THEN RefRows(r, y - r.dy, s.ri) ELSE NoRows) ELSE ShlRows(@, 1),
              !.ri = IF RefFill(r, y, s) THEN @ + 1 ELSE @,
              !.w4 = IF s.x % 8 = 5 /\ y >= 1
                     THEN IF s.x \div 8 + 1 >= RowStride(s.bm) THEN {} ELSE GetByte(s.bm, s.bi - RowStride(s.bm))
                     ELSE Low(Shl(@, 1), 8),
              !.bi = IF s.x % 8 = 5 /\ y >= 1 THEN @ + 1 ELSE @]
RECURSIVE RefinementRow(_, _, _)
RefinementRow(r, y, s) == IF s.x = s.bm.w THEN s ELSE RefinementRow(r, y, RefinementPixel(r, y, s))

ByteOf(x) == IF x > 0 THEN x \div 8 ELSE 0
\* i and b are the indices of the first bytes of the refined bitmap's row and of the region's.
RefinementLine(r, y, d, i, b) ==
    LET cl == y - r.dy
        w == RefRows(r, cl, i)
        w4 == IF y >= 1 THEN GetByte(d.bm, b - RowStride(d.bm)) ELSE {}
    IN  Result(d, RefinementRow(r, y, [x |-> 0, bm |-> d.bm, pos |-> d.pos, ok |-> d.ok /\ RefRowsRead(r, cl, i),
                                       c |-> FirstThree(r, cl, i + 1, w), c4 |-> Shr(w4, 6), c5 |-> {},
                                       w |-> Trimmed(r, Reloaded(r, cl, i + 1, w)), w4 |-> Low(Shl(w4, 2), 8),
                                       ri |-> NextIndex(r, i + 1), bi |-> b + 1]))
decodeTemplate(r, y, d) ==
    RefinementLine(r, y, d, (y - r.dy) * RowStride(r.ref) + ByteOf(-r.dx), y * RowStride(d.bm) + ByteOf(r.dx))

-----------------------------------------------------------------------------
Init ==
    /\ region \in Regions
    /\ row = 0 /\ channel = <<>>
    /\ decoder = [bm |-> Blank(region.bm.w, region.bm.h), ltp |-> FALSE, pos |-> 1, ok |-> TRUE]

\* A row is coded and decoded; the coder's decisions are read in the order they were made.
CodeRow ==
    /\ row < region.bm.h /\ decoder.pos > Len(channel)
    /\ channel' = CodedRow(region, row)
    /\ decoder' = [decoder EXCEPT !.pos = 1]
    /\ UNCHANGED <<region, row>>

DecodeGeneric ==
    /\ region.kind = "generic" /\ decoder.pos <= Len(channel)
    /\ decoder' = GenericLine(region, row, decodeSLTP(region, decoder))
    /\ row' = row + 1
    /\ UNCHANGED <<region, channel>>

DecodeRefinement ==
    /\ region.kind = "refinement" /\ decoder.pos <= Len(channel)
    /\ decoder' = decodeTemplate(region, row, decoder)
    /\ row' = row + 1
    /\ UNCHANGED <<region, channel>>

Finished == row = region.bm.h /\ decoder.pos > Len(channel) /\ UNCHANGED vars

Next == CodeRow \/ DecodeGeneric \/ DecodeRefinement \/ Finished

Spec == Init /\ [][Next]_vars

-----------------------------------------------------------------------------
TypeOK == row \in 0 .. region.bm.h /\ decoder.bm.px \subseteq (0 .. region.bm.w - 1) \X (0 .. region.bm.h - 1)

\* The decoder asks for every pixel and every line flag with the context it was coded with,
\* and rebuilds the rows, those left out as repetitions included.
ContextsAgree ==
    /\ decoder.ok
    /\ decoder.bm.px = {p \in region.bm.px : p[2] < row}
    /\ row = region.bm.h /\ decoder.pos > Len(channel) => decoder.bm = region.bm
=============================================================================

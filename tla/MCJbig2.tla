------------------------------- MODULE MCJbig2 -------------------------------
(***************************************************************************)
(* The parts of the JBIG2 coder, each with the data on which it is         *)
(* explored: the arithmetic encoder and decoder (ArithmeticCoder), the     *)
(* contexts of regions (RegionContexts) and the operations on bitmaps      *)
(* (BitmapOps). A behaviour is one of one part; the variables of the       *)
(* others stay Idle.                                                       *)
(***************************************************************************)
EXTENDS Integers, Sequences, FiniteSets, TLC

CONSTANTS Idle

VARIABLES
    part,
    \* ArithmeticCoder
    input, coder, encoded, output, next, pending,
    \* RegionContexts
    region, row, channel, decoder,
    \* BitmapOps
    call, result

arithvars == <<input, coder, encoded, output, next, pending>>
regionsvars == <<region, row, channel, decoder>>
bitmapsvars == <<call, result>>
vars == <<part, arithvars, regionsvars, bitmapsvars>>

-----------------------------------------------------------------------------
\* Long repetitions of short patterns in one and two contexts, and integers and
\* identifiers around the ends of their ranges; the third group carries into a byte 0xff.
Patterns(n) == UNION {[1 .. k -> {0, 1}] : k \in 1 .. n}
Repeat(contexts, p, n) == [i \in 1 .. n |-> <<"bit", i % contexts, p[((i - 1) % Len(p)) + 1]>>]
Ends == {0, 3, 4, 19, 20, 83, 84, 339, 340, 4435, 4436, 2000000000}
Integers1 == {<<"int", "IADW", v>> : v \in {-1, -2} \cup Ends \cup {-v : v \in Ends}} \cup {<<"oob", "IADW">>}
ArithmeticJobs ==
    {Repeat(2, p, n) : p \in Patterns(3), n \in {1, 9, 100}} \cup {Repeat(1, p, 150) : p \in Patterns(5)}
    \cup {Repeat(3, <<1, 0, 0, 0, 1, 0, 0, 1>>, 160)}
    \cup {<<x, y, <<"int", "IADH", 2>>>> : x, y \in Integers1}
    \cup {<<<<"iaid", 2, v>>, x, <<"iaid", 2, w>>, <<"bit", 0, 1>>>> : v, w \in 0 .. 3, x \in {<<"oob", "IADW">>, <<"int", "IADW", -1>>}}

Arith == INSTANCE ArithmeticCoder WITH Jobs <- ArithmeticJobs

-----------------------------------------------------------------------------
\* Bitmaps with one black pixel show every bit of every context on its own; those with
\* stripes fill the registers and repeat rows.
Bm(w, h, px) == [w |-> w, h |-> h, px |-> px]
One(w, h) == {Bm(w, h, {<<x, y>>}) : x \in 0 .. w - 1, y \in 0 .. h - 1}
Striped(w, h) == {Bm(w, h, {p \in (0 .. w - 1) \X (0 .. h - 1) : (p[1] * ab[1] + p[2] * ab[2]) % 3 = 0}) :
    ab \in {<<0, 0>>, <<1, 0>>, <<0, 1>>, <<1, 1>>, <<1, 2>>}}
NoBm == Bm(1, 1, {})
Generic(t, px, tpgd, own, bms) ==
    {[kind |-> "generic", template |-> t, at |-> px, tpgd |-> tpgd, own |-> own, bm |-> b, ref |-> NoBm, dx |-> 0, dy |-> 0] : b \in bms}
Refinement(t, px, own, bms, refs, dxs, dys) ==
    {[kind |-> "refinement", template |-> t, at |-> px, tpgd |-> FALSE, own |-> own, bm |-> b, ref |-> f, dx |-> dx, dy |-> dy] :
        b \in bms, f \in refs, dx \in dxs, dy \in dys}
At0a == <<<<3, -1>>, <<-3, -1>>, <<2, -2>>, <<-2, -2>>>>
At0b == <<<<-2, 0>>, <<0, -2>>, <<-2, -1>>, <<-1, -2>>, <<1, -2>>, <<2, -1>>, <<-3, 0>>, <<-4, 0>>, <<2, -2>>,
          <<3, -1>>, <<-2, -2>>, <<-3, -1>>>>
At1 == <<<<3, -1>>>>
At2 == <<<<2, -1>>>>
Moved(px, i, p) == [px EXCEPT ![i] = p]
Places == {<<-5, -1>>, <<4, -3>>}
Nominal == <<<<-1, -1>>, <<-1, -1>>>>
Sparse == Bm(10, 3, {<<3, 1>>, <<4, 2>>})
RegionJobs ==
    UNION {Generic("t0a", At0a, tpgd, own, Striped(18, 4)) : tpgd, own \in BOOLEAN}
    \cup Generic("t0a", At0a, FALSE, TRUE, One(10, 3)) \cup Generic("t0a", At0a, FALSE, FALSE, One(10, 3))
    \cup UNION {Generic("t0a", At0a, TRUE, TRUE, Striped(w, 4)) : w \in {1, 8}}
    \cup UNION {Generic("t0a", Moved(At0a, i, p), FALSE, FALSE, Striped(10, 4)) : i \in 1 .. 4, p \in Places}
    \cup UNION {Generic("t0b", Moved(At0b, i, <<4, -3>>), FALSE, FALSE, Striped(10, 4)) : i \in 1 .. 11}
    \cup UNION {Generic(t[1], t[2], TRUE, FALSE, Striped(18, 4)) : t \in {<<"t1", At1>>, <<"t2", At2>>, <<"t3", At2>>}}
    \cup UNION {Generic(t, <<p>>, FALSE, FALSE, Striped(10, 3)) : t \in {"t1", "t2", "t3"}, p \in Places \cup {<<-6, 0>>}}
    \cup Refinement("r0", Nominal, TRUE, {Sparse}, Striped(10, 3), -1 .. 1, {0, 1})
    \cup Refinement("r0", Nominal, FALSE, {Sparse}, Striped(10, 3), -5 .. 2, {-1})
    \cup Refinement("r1", Nominal, FALSE, {Sparse}, Striped(10, 3), {0, 2}, {0})
    \cup Refinement("r0", Moved(Nominal, 1, <<-2, 0>>), FALSE, Striped(10, 3), {Sparse}, {0}, {0})
    \cup Refinement("r0", Moved(Nominal, 1, <<2, -2>>), FALSE, Striped(10, 3), {Sparse}, {0}, {0})

Contexts == INSTANCE RegionContexts WITH Regions <- RegionJobs

-----------------------------------------------------------------------------
Raster == INSTANCE BitmapOps WITH Calls <- {}

\* Bitmaps with a pattern that differs on both sides of every byte, and rectangles that start
\* and end at, before and after bytes, inside and outside.
Pattern(w, h, a, b) == Raster!Packed(w, h, {p \in (0 .. w - 1) \X (0 .. h - 1) : ((p[1] * p[1] * a) + p[2] * b + p[1]) % 5 < 2})
RasterCalls ==
    {[k |-> "raster", dst |-> Pattern(19, 2, 1, 2), src |-> Pattern(sw, 2, 3, 1), op |-> op, r |-> Raster!Rect(dx, dy, dw, 2, sx, 0)] :
        sw \in {13, 24}, op \in {12, 6}, dx \in {-1, 0, 3, 8, 11}, dy \in {0, -1}, dw \in {1, 4, 9, 17}, sx \in {0, 2, 3, 8}}
    \cup {[k |-> "raster", dst |-> Pattern(19, 2, 1, 2), src |-> Pattern(24, 2, 3, 1), op |-> op, r |-> Raster!Rect(dx, 0, dw, 1, sx, 1)] :
        op \in 0 .. 15, dx \in {0, 3}, dw \in {4, 17}, sx \in {0, 3, 5}}
BorderCalls ==
    {[k |-> "border", bm |-> Pattern(w, 2, 1, 2), left |-> l, right |-> r, top |-> t, bot |-> 1, val |-> v] :
        w \in {5, 8, 10}, l \in {0, 3, 8}, r \in {0, 4}, t \in {0, 2}, v \in {0, 1}}
    \cup {[k |-> "remove", bm |-> Pattern(w, 4, 1, 2), left |-> l, right |-> r, top |-> t, bot |-> 1] :
        w \in {9, 16, 21}, l \in {0, 3, 8}, r \in {0, 4}, t \in {0, 2}}
    \cup {[k |-> "clip", bm |-> Pattern(w, 4, 1, 2), x |-> x, y |-> y, w |-> cw, h |-> 2] :
        w \in {9, 16, 21}, x \in {-1, 0, 3, 8}, y \in {-1, 1, 3}, cw \in {1, 7, 8, 12}}
    \cup {[k |-> "pad", bm |-> Pattern(w, 2, 1, 2), val |-> v] : w \in {3, 8, 11}, v \in {0, 1}}
    \cup {[k |-> "unpad", bm |-> Pattern(w, h, 1, 2)] : w \in {1, 3, 8, 11, 13}, h \in {1, 2, 3}}
BlitCalls ==
    {[k |-> "blit", src |-> Pattern(sw, 2, 3, 1), dst |-> Pattern(21, 3, 1, 2), x |-> x, y |-> y, op |-> op] :
        sw \in {3, 8, 11, 16}, x \in {-2, 0, 1, 5, 8, 13}, y \in {-1, 0, 2}, op \in {"or", "and", "xor", "xnor", "replace", "not"}}
ExtractCalls ==
    {[k |-> "extract", src |-> Pattern(29, 3, 1, 2), x |-> x, y |-> y, w |-> w, h |-> 2] : x \in {0, 1, 5, 8, 13}, y \in {0, 1}, w \in {1, 3, 7, 8, 9, 15, 16}}
ScaleCalls ==
    {[k |-> "expand", bm |-> Pattern(w, 2, 1, 2), xf |-> f[1], yf |-> f[2]] : w \in {1, 3, 8, 10, 13}, f \in {<<1, 1>>, <<2, 2>>, <<4, 4>>, <<8, 8>>, <<3, 2>>}}
    \cup {[k |-> "reduce", bm |-> Pattern(w, h, 1, 2), level |-> l] : w \in {6, 17, 30, 37, 52}, h \in {1, 2, 4, 5}, l \in 1 .. 4}
BitmapCalls == RasterCalls \cup BorderCalls \cup BlitCalls \cup ExtractCalls \cup ScaleCalls

Maps == INSTANCE BitmapOps WITH Calls <- BitmapCalls

-----------------------------------------------------------------------------
\* The variables of a part, while another one runs.
NoArith ==
    /\ input = Idle /\ coder = Idle /\ encoded = Idle /\ output = Idle /\ next = Idle
    /\ pending = Idle
NoContexts ==
    /\ region = Idle /\ row = Idle /\ channel = Idle /\ decoder = Idle
NoMaps ==
    /\ call = Idle /\ result = Idle

Init ==
    \/ part = "arith" /\ Arith!Init
         /\ NoContexts /\ NoMaps
    \/ part = "regions" /\ Contexts!Init
         /\ NoArith /\ NoMaps
    \/ part = "bitmaps" /\ Maps!Init
         /\ NoArith /\ NoContexts

ArithStep ==
    /\ part = "arith" /\ Arith!Next
    /\ UNCHANGED <<part, regionsvars, bitmapsvars>>
ContextsStep ==
    /\ part = "regions" /\ Contexts!Next
    /\ UNCHANGED <<part, arithvars, bitmapsvars>>
MapsStep ==
    /\ part = "bitmaps" /\ Maps!Next
    /\ UNCHANGED <<part, arithvars, regionsvars>>

Next == ArithStep \/ ContextsStep \/ MapsStep

Spec == Init /\ [][Next]_vars

-----------------------------------------------------------------------------
\* The decisions, integers and identifiers that the JBIG2 arithmetic encoder is
\* given are what its decoder returns, with registers within their widths; and
\* for each pixel of a generic or refinement region the decoder forms the
\* context that the encoder, or the definition of the template, forms from the
\* pixels around it.
RegionsDecoded ==
    /\ part = "arith" => Arith!SymbolsDecoded /\ Arith!RegistersBounded /\ Arith!MarkerOnlyLast
    /\ part = "regions" => Contexts!ContextsAgree

\* What JBIG2 does with bitmaps a byte at a time, with shifts and masks, is
\* what its description does with their pixels: raster operations, borders,
\* clipping, blitting, extraction, packing, expansion and reduction.
BitmapsExact ==
    part = "bitmaps" => Maps!RasterExact /\ Maps!BordersExact /\ Maps!UnpaddedBack /\ Maps!BlitExact /\ Maps!ExtractExact /\ Maps!ExpandExact /\ Maps!ReduceExact
=============================================================================

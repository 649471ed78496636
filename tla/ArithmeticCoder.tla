-------------------------- MODULE ArithmeticCoder --------------------------
(***************************************************************************)
(* The arithmetic coder of JBIG2, internal/jbig2/encoder/arithmetic and    *)
(* decoder/arithmetic: decisions with their contexts, integers of several  *)
(* classes, out-of-band values and symbol identifiers are encoded one      *)
(* after another by one encoder and decoded by one decoder.                *)
(*                                                                         *)
(* The decoder's register c is kept in two halves of 16 bits.  Contexts    *)
(* that have not been used are not in the tables.                          *)
(***************************************************************************)
EXTENDS Integers, Sequences, SequencesExt, TLC

CONSTANTS Jobs          \* lists of symbols to encode

VARIABLES input, coder, encoded, output, next, pending

vars == <<input, coder, encoded, output, next, pending>>

Byte == 256
NotYet == <<"not yet">>

\* Probability estimates: the interval, the next state after a more and after a less
\* probable symbol, and whether the latter changes the sense.
stateTable ==
    << <<22017, 1, 1, 1>>, <<13313, 2, 6, 0>>, <<6145, 3, 9, 0>>, <<2753, 4, 12, 0>>, <<1313, 5, 29, 0>>, <<545, 38, 33, 0>>,
       <<22017, 7, 6, 1>>, <<21505, 8, 14, 0>>, <<18433, 9, 14, 0>>, <<14337, 10, 14, 0>>, <<12289, 11, 17, 0>>,
       <<9217, 12, 18, 0>>, <<7169, 13, 20, 0>>, <<5633, 29, 21, 0>>, <<22017, 15, 14, 1>>, <<21505, 16, 14, 0>>,
       <<20737, 17, 15, 0>>, <<18433, 18, 16, 0>>, <<14337, 19, 17, 0>>, <<13313, 20, 18, 0>>, <<12289, 21, 19, 0>>,
       <<10241, 22, 19, 0>>, <<9217, 23, 20, 0>>, <<8705, 24, 21, 0>>, <<7169, 25, 22, 0>>, <<6145, 26, 23, 0>>,
       <<5633, 27, 24, 0>>, <<5121, 28, 25, 0>>, <<4609, 29, 26, 0>>, <<4353, 30, 27, 0>>, <<2753, 31, 28, 0>>,
       <<2497, 32, 29, 0>>, <<2209, 33, 30, 0>>, <<1313, 34, 31, 0>>, <<1089, 35, 32, 0>>, <<673, 36, 33, 0>>,
       <<545, 37, 34, 0>>, <<321, 38, 35, 0>>, <<273, 39, 36, 0>>, <<133, 40, 37, 0>>, <<73, 41, 38, 0>>, <<37, 42, 39, 0>>,
       <<21, 43, 40, 0>>, <<9, 44, 41, 0>>, <<5, 45, 42, 0>>, <<1, 45, 43, 0>>, <<22017, 46, 46, 0>> >>

Fresh == [i |-> 0, mps |-> 0]
Get(table, n) == IF n \in DOMAIN table THEN table[n] ELSE Fresh
Put(table, n, s) == (n :> s) @@ table
Qe(s) == stateTable[s.i + 1][1]
MoreProbable(s) == [s EXCEPT !.i = stateTable[@ + 1][2]]
LessProbable(s) == [i |-> stateTable[s.i + 1][3], mps |-> IF stateTable[s.i + 1][4] = 1 THEN 1 - s.mps ELSE s.mps]

-----------------------------------------------------------------------------
\* The encoder.
NewEncoder == [c |-> 0, a |-> 32768, ct |-> 12, b |-> 0, bp |-> -1, out |-> <<>>, ctx |-> <<>>]

emit(e) == [e EXCEPT !.out = Append(@, e.b)]
Emitted(e) == IF e.bp >= 0 THEN emit(e) ELSE e
lBlock(e) == [Emitted(e) EXCEPT !.bp = @ + 1, !.b = (e.c \div 2 ^ 19) % Byte, !.c = @ % (2 ^ 19), !.ct = 8]
rBlock(e) == [Emitted(e) EXCEPT !.bp = @ + 1, !.b = (e.c \div 2 ^ 20) % Byte, !.c = @ % (2 ^ 20), !.ct = 7]

\* Variant: a carry into a byte that becomes 0xff is not followed by a stuffed bit.
byteOut_NoStuffing(e) ==
    IF e.b = 255 THEN rBlock(e)
    ELSE IF e.c < 2 ^ 27 THEN lBlock(e) ELSE lBlock([e EXCEPT !.b = @ + 1])

byteOut(e) ==
    IF e.b = 255 THEN rBlock(e)
    ELSE IF e.c < 2 ^ 27 THEN lBlock(e)
    ELSE IF e.b + 1 # 255 THEN lBlock([e EXCEPT !.b = @ + 1])
    ELSE rBlock([e EXCEPT !.b = @ + 1, !.c = @ % (2 ^ 27)])

Shifted(e) == [e EXCEPT !.a = 2 * @, !.c = 2 * @, !.ct = @ - 1]
RECURSIVE renormalize(_)
Renormalized(e) == IF e.a >= 32768 THEN e ELSE renormalize(e)
renormalize(e) == Renormalized(IF e.ct = 1 THEN byteOut(Shifted(e)) ELSE Shifted(e))

\* The context is n, and e.a has been reduced by the interval.
codeMPS(e, n, s) ==
    IF e.a >= 32768 THEN [e EXCEPT !.c = @ + Qe(s)]
    ELSE renormalize([e EXCEPT !.a = IF @ < Qe(s) THEN Qe(s) ELSE @, !.c = IF e.a < Qe(s) THEN @ ELSE @ + Qe(s),
                               !.ctx = Put(@, n, MoreProbable(s))])
codeLPS(e, n, s) ==
    renormalize([e EXCEPT !.c = IF e.a < Qe(s) THEN @ + Qe(s) ELSE @, !.a = IF @ < Qe(s) THEN @ ELSE Qe(s),
                          !.ctx = Put(@, n, LessProbable(s))])
Code(e, n, s, d) == IF s.mps = d THEN codeMPS([e EXCEPT !.a = @ - Qe(s)], n, s) ELSE codeLPS([e EXCEPT !.a = @ - Qe(s)], n, s)
encodeBit(e, n, d) == Code(e, n, Get(e.ctx, n), d)

\* The last bytes, so that the decoder finds what it needs, and the marker.
Filled(e) == LET c == (e.c \div 65536) * 65536 + 65535 IN [e EXCEPT !.c = IF c >= e.c + e.a THEN c - 32768 ELSE c]
Pushed(e) == byteOut([e EXCEPT !.c = @ * 2 ^ e.ct])
Marked(e) == IF e.b # 255 THEN Append(e.out, 255) ELSE e.out
flush(e) == Append(Marked(emit(Pushed(Pushed(Filled(e))))), 172)

-----------------------------------------------------------------------------
\* Integers: bottom and top of each range, the bits that name it (the first one lowest) and
\* their number, what is subtracted, and the number of further bits.
intEncRange ==
    << <<0, 3, 0, 2, 0, 2>>, <<-1, -1, 9, 4, 0, 0>>, <<-3, -2, 5, 3, 2, 1>>, <<4, 19, 2, 3, 4, 4>>, <<-19, -4, 3, 3, 4, 4>>,
       <<20, 83, 6, 4, 20, 6>>, <<-83, -20, 7, 4, 20, 6>>, <<84, 339, 14, 5, 84, 8>>, <<-339, -84, 15, 5, 84, 8>>,
       <<340, 4435, 30, 6, 340, 12>>, <<-4435, -340, 31, 6, 340, 12>>, <<4436, 2000000000, 62, 6, 4436, 32>>,
       <<-2000000000, -4436, 63, 6, 4436, 32>> >>

Bit(v, k) == IF k > 30 THEN 0 ELSE (v \div 2 ^ k) % 2
Abs(v) == IF v < 0 THEN -v ELSE v
IntBits(v) ==
    LET r == CHOOSE x \in Range(intEncRange) : x[1] <= v /\ v <= x[2]
    IN  [j \in 1 .. r[4] |-> Bit(r[3], j - 1)] \o [j \in 1 .. r[6] |-> Bit(Abs(v) - r[5], r[6] - j)]

\* The context of the next bit of an integer.
NextPrev(prev, bit) == IF prev >= 256 THEN 256 + ((2 * prev + bit) % 256) ELSE 2 * prev + bit

\* What an integer, an out-of-band value and an identifier are coded as: contexts and bits.
RECURSIVE EncodeBits(_, _, _)
EncodeBits(class, prev, bits) ==
    IF bits = <<>> THEN <<>> ELSE <<<<<<class, prev>>, Head(bits)>>>> \o EncodeBits(class, NextPrev(prev, Head(bits)), Tail(bits))
EncodeInteger(class, v) == EncodeBits(class, 1, IntBits(v))
EncodeOOB(class) == EncodeBits(class, 1, <<1, 0, 0, 0>>)
EncodeIAID(len, v) == [j \in 1 .. len |-> <<<<"IAID", 2 ^ (j - 1) + v \div 2 ^ (len - j + 1)>>, Bit(v, len - j)>>]

Decisions(x) ==
    CASE x[1] = "bit" -> <<<<<<"bit", x[2]>>, x[3]>>>>
      [] x[1] = "int" -> EncodeInteger(x[2], x[3])
      [] x[1] = "oob" -> EncodeOOB(x[2])
      [] x[1] = "iaid" -> EncodeIAID(x[2], x[3])

-----------------------------------------------------------------------------
\* The decoder.  ok is FALSE once there was no byte to read.
At(d, i) == IF i < Len(d.data) THEN d.data[i + 1] ELSE -1
Plus(d, v) == [d EXCEPT !.lo = (@ + v) % 65536, !.hi = @ + (d.lo + v) \div 65536]

\* The byte before pos is read again; a marker is not passed.
ReadAt(d, p) ==
    IF At(d, p) = -1 \/ At(d, p + 1) = -1 THEN [d EXCEPT !.ok = FALSE]
    ELSE IF At(d, p) # 255 THEN [Plus(d, At(d, p + 1) * 256) EXCEPT !.ct = 8, !.pos = p + 2]
    ELSE IF At(d, p + 1) > 143 THEN [Plus(d, 65280) EXCEPT !.ct = 8, !.pos = p]
    ELSE [Plus(d, At(d, p + 1) * 512) EXCEPT !.ct = 7, !.pos = p + 2]
readByte(d) == ReadAt(d, IF d.pos > 0 THEN d.pos - 1 ELSE d.pos)

Begun(d) == [d EXCEPT !.hi = @ * 128 + d.lo \div 512, !.lo = (@ * 128) % 65536, !.ct = @ - 7]
NewDecoder(data) ==
    Begun(readByte([data |-> data, pos |-> 1, hi |-> data[1], lo |-> 0, a |-> 32768, ct |-> 0, ok |-> TRUE, ctx |-> <<>>, bit |-> 0]))

Advanced(d) == [d EXCEPT !.a = 2 * @, !.hi = 2 * @ + d.lo \div 32768, !.lo = (2 * @) % 65536, !.ct = @ - 1]
RECURSIVE renormalizeDecoder(_)
RenormalizedDecoder(d) == IF d.a >= 32768 THEN [d EXCEPT !.hi = @ % 65536] ELSE IF ~d.ok THEN d ELSE renormalizeDecoder(d)
renormalizeDecoder(d) == RenormalizedDecoder(Advanced(IF d.ct = 0 THEN readByte(d) ELSE d))

\* The interval has been taken off d.a.
lpsExchange(d, n, s) ==
    IF d.a < Qe(s) THEN [d EXCEPT !.ctx = Put(@, n, MoreProbable(s)), !.a = Qe(s), !.bit = s.mps]
    ELSE [d EXCEPT !.ctx = Put(@, n, LessProbable(s)), !.a = Qe(s), !.bit = 1 - s.mps]
mpsExchange(d, n, s) ==
    IF d.a < Qe(s) THEN [d EXCEPT !.ctx = Put(@, n, LessProbable(s)), !.bit = 1 - s.mps]
    ELSE [d EXCEPT !.ctx = Put(@, n, MoreProbable(s)), !.bit = s.mps]
Exchange(d, n, s) ==
    IF d.hi < Qe(s) THEN renormalizeDecoder(lpsExchange(d, n, s))
    ELSE IF d.a < 32768 THEN renormalizeDecoder(mpsExchange([d EXCEPT !.hi = @ - Qe(s)], n, s))
    ELSE [d EXCEPT !.hi = @ - Qe(s), !.bit = s.mps]
DecodeBit(d, n) == Exchange([d EXCEPT !.a = @ - Qe(Get(d.ctx, n))], n, Get(d.ctx, n))

\* An integer: the sign, up to five bits that name the range, and the bits of the value.
Ranges == <<<<2, 0>>, <<4, 4>>, <<6, 20>>, <<8, 84>>, <<12, 340>>, <<32, 4436>>>>
Signed(s, v) == IF s = 0 THEN <<"int", v>> ELSE IF v > 0 THEN <<"int", -v>> ELSE <<"oob">>

RECURSIVE IntValue(_, _, _, _, _, _)
GotValue(d, class, prev, s, left, v) == IntValue(d, class, NextPrev(prev, d.bit), s, left - 1, 2 * v + d.bit)
IntValue(d, class, prev, s, left, v) ==
    IF left = 0 THEN [d |-> d, x |-> <<s, v>>]
    ELSE GotValue(DecodeBit(d, <<class, prev>>), class, prev, s, left, v)

RECURSIVE IntRange(_, _, _, _, _)
GotRange(d, class, prev, s, k) ==
    IF d.bit = 1 /\ k < 5 THEN IntRange(d, class, NextPrev(prev, d.bit), s, k + 1)
    ELSE LET r == Ranges[IF d.bit = 1 THEN 6 ELSE k]
             got == IntValue(d, class, NextPrev(prev, d.bit), s, r[1], 0)
         IN  [d |-> got.d, x |-> Signed(s, got.x[2] + r[2])]
IntRange(d, class, prev, s, k) == GotRange(DecodeBit(d, <<class, prev>>), class, prev, s, k)

GotSign(d, class) == IntRange(d, class, NextPrev(1, d.bit), d.bit, 1)
DecodeInt(d, class) == GotSign(DecodeBit(d, <<class, 1>>), class)

RECURSIVE DecodeIAID(_, _, _, _)
GotIAID(d, prev, left, len) == DecodeIAID(d, 2 * prev + d.bit, left - 1, len)
DecodeIAID(d, prev, left, len) ==
    IF left = 0 THEN [d |-> d, x |-> prev - 2 ^ len] ELSE GotIAID(DecodeBit(d, <<"IAID", prev>>), prev, left, len)

\* What the decoder is asked for is known from the segment; the result is the symbol.
GotBit(d, x) == [d |-> d, x |-> <<"bit", x[2], d.bit>>]
GotInt(r, x) == [d |-> r.d, x |-> IF r.x[1] = "oob" THEN <<"oob", x[2]>> ELSE <<"int", x[2], r.x[2]>>]
GotID(r, x) == [d |-> r.d, x |-> <<"iaid", x[2], r.x>>]
DecodeSymbol(d, x) ==
    CASE x[1] = "bit" -> GotBit(DecodeBit(d, <<"bit", x[2]>>), x)
      [] x[1] \in {"int", "oob"} -> GotInt(DecodeInt(d, x[2]), x)
      [] x[1] = "iaid" -> GotID(DecodeIAID(d, 1, x[2], x[2]), x)

-----------------------------------------------------------------------------
\* coder is the encoder until the end of the input, then the decoder.
Init == input \in Jobs /\ coder = NewEncoder /\ encoded = NotYet /\ output = <<>> /\ next = 1 /\ pending = <<>>

Encode ==
    /\ encoded = NotYet /\ next <= Len(input)
    /\ LET rest == IF pending = <<>> THEN Decisions(input[next]) ELSE pending
       IN  /\ coder' = encodeBit(coder, rest[1][1], rest[1][2])
           /\ pending' = Tail(rest)
           /\ next' = IF Len(rest) = 1 THEN next + 1 ELSE next
    /\ UNCHANGED <<input, encoded, output>>

Flush ==
    /\ encoded = NotYet /\ next > Len(input)
    /\ encoded' = flush(coder)
    /\ coder' = NewDecoder(encoded') /\ next' = 1
    /\ UNCHANGED <<input, output, pending>>

Decode ==
    /\ encoded # NotYet /\ next <= Len(input) /\ coder.ok
    /\ LET r == DecodeSymbol(coder, input[next]) IN coder' = r.d /\ output' = Append(output, r.x)
    /\ next' = next + 1
    /\ UNCHANGED <<input, encoded, pending>>

Finished == encoded # NotYet /\ (next > Len(input) \/ ~coder.ok) /\ UNCHANGED vars

Next == Encode \/ Flush \/ Decode \/ Finished

Spec == Init /\ [][Next]_vars

-----------------------------------------------------------------------------
TypeOK == coder.a \in 0 .. 65535 /\ (encoded # NotYet => \A i \in DOMAIN encoded : encoded[i] \in 0 .. 255)

\* Whatever the decisions, integers and identifiers, and however their contexts have
\* adapted, the decoder returns what the encoder was given, and never lacks a byte.
SymbolsDecoded == encoded # NotYet => coder.ok /\ IsPrefix(output, input)

\* After every symbol the interval is at least half of its range and the registers of both
\* coders are within the bits they have: the encoder's carry fits in c, and the decoder's
\* code lies inside the interval.
RegistersBounded ==
    /\ coder.a >= 32768
    /\ IF encoded = NotYet THEN coder.c < 2 ^ 28 /\ coder.ct \in 1 .. 12 ELSE coder.hi < coder.a

\* Within the data no byte after 0xff looks like a marker, and the data ends with one.
MarkerOnlyLast ==
    encoded # NotYet =>
        \A i \in 1 .. Len(encoded) - 1 : encoded[i] = 255 => (encoded[i + 1] > 143 <=> i = Len(encoded) - 1)
=============================================================================

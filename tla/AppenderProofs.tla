--------------------------- MODULE AppenderProofs ---------------------------
(***************************************************************************)
(* Proofs about the two parts of PdfAppender: the signatures of            *)
(* AppenderSign, for any number of them and any sizes of the parts of a    *)
(* file, and the page list of AppenderPages, for any number of pages and   *)
(* edits.                                                                  *)
(***************************************************************************)
EXTENDS AppenderSign, AppenderPages, SequenceTheorems, WellFoundedInduction, TLAPS

\* The bounds are numbers.
Bounded == MaxSigs \in Nat /\ MaxOld \in Nat /\ MaxPart \in Nat /\ MaxEnd \in Nat

Steps == {"idle", "copy", "mock", "ranges", "segments", "tails", "sign", "flush"}

\* What the original file leaves in w, and in a digest.
OldBytes == [i \in 1 .. offset |-> "data"]
Original == [i \in 1 .. offset |-> <<i - 1, "data">>]

\* The dictionaries lie in the buffer one after the other, the Contents of each before
\* its ByteRange.
Laid ==
    /\ sigDicts \in Seq(SigDict) /\ Len(sigDicts) = Len(sigs)
    /\ bufferData \in Seq(Kinds)
    /\ \A j \in 1 .. Len(sigDicts) :
         LET d == sigDicts[j]
         IN  /\ d.handler = sigs[j]
             /\ offset < d.fileOffset
             /\ d.fileOffset < From(d) /\ From(d) < To(d) /\ To(d) < offset + Len(bufferData)
             /\ To(d) <= d.fileOffset + d.byteRangeOffsetStart
             /\ d.byteRangeOffsetStart <= d.byteRangeOffsetEnd
    /\ \A i, j \in 1 .. Len(sigDicts) :
         i < j => sigDicts[i].fileOffset + sigDicts[i].byteRangeOffsetEnd < sigDicts[j].fileOffset

\* The Contents of the first n signatures are in the buffer, and of no others.
Filled(n) ==
    \A i \in 1 .. Len(bufferData) :
        bufferData[i] = "contents" <=> \E j \in 1 .. n : i \in ContentsBytes(sigDicts[j])

\* What the digest of a sole signature holds in the end.
Whole ==
    (Original \o Bytes(0, From(sigDicts[1]) - offset)) \o Bytes(To(sigDicts[1]) - offset, Len(bufferData))

\* The loops that follow the mock write.
Loops == {"segments", "tails", "sign"}

\* The digest of a sole signature as it is filled, which the ByteRange precedes.
Sole ==
    /\ stage \notin {"idle", "flush"} => signed = << >>
    /\ stage \in {"copy", "mock", "ranges", "segments"} => prevOffset = 0
    /\ stage \in {"mock", "ranges", "segments"} => digestWriters[sigs[1]] = Original
    /\ stage \in Loops => \A i \in RangeBytes(sigDicts[1]) \cap DOMAIN bufferData : bufferData[i] = "range"
    /\ stage = "tails" =>
         /\ prevOffset = To(sigDicts[1]) - offset
         /\ digestWriters[sigs[1]] = Original \o Bytes(0, From(sigDicts[1]) - offset)
    /\ stage = "sign" => digestWriters[sigs[1]] = Whole
    /\ stage = "flush" \/ written => signed = <<Whole>>

Typed ==
    /\ sigs \in Seq(Handlers) /\ Len(sigs) >= 1
    /\ offset \in Nat
    /\ stage \in Steps
    /\ written \in BOOLEAN
    /\ stage \in Loops => k \in 1 .. Len(sigs)
    /\ stage \notin Loops => k = 1

\* The inductive invariant.
SInv ==
    /\ Typed
    /\ written => stage = "idle"
    /\ stage # "idle" => DOMAIN digestWriters = Range(sigs)
    /\ stage \notin {"idle", "copy"} => sent = OldBytes
    /\ stage \in Loops \cup {"ranges", "flush"} \/ written => Laid
    /\ stage \in {"ranges", "segments", "tails"} => Filled(0)
    /\ stage = "sign" => Filled(k - 1)
    /\ stage = "flush" \/ written => Filled(Len(sigs))
    /\ stage \in Loops \cup {"flush"} \/ written => byteRange = Ranges(sigDicts, offset + Len(bufferData))
    /\ written => sent = OldBytes \o bufferData
    /\ Len(sigs) = 1 => Sole

-----------------------------------------------------------------------------
\* The first of the calls of Write starts from nothing.
LEMMA InitSInv == ASSUME Bounded PROVE SignInit => SInv
<1> SUFFICES ASSUME SignInit PROVE SInv
    OBVIOUS
<1>1. PICK n \in 1 .. MaxSigs : sigs \in [1 .. n -> Handlers]
    BY DEF SignInit
<1>2. sigs \in Seq(Handlers) /\ Len(sigs) >= 1
    BY <1>1 DEF Bounded
<1>3. Typed
  <2>1. offset \in Nat
      BY DEF SignInit, Bounded
  <2> QED
      BY Zenon, <1>2, <2>1 DEF SignInit, Typed, Steps, Loops
<1>4. Sole
    BY DEF SignInit, Sole, Loops
<1> QED
    BY <1>3, <1>4 DEF SignInit, SInv, Loops

\* Write: a new digest for each handler.
LEMMA WriteKeeps == ASSUME SInv, StartWrite PROVE SInv'
<1>1. Typed'
    BY DEF SInv, StartWrite, Typed, Steps, Loops, input
<1>2. (Len(sigs) = 1 => Sole)'
    BY DEF SInv, StartWrite, Sole, Loops, input
<1>3. DOMAIN digestWriters' = Range(sigs')
    BY DEF StartWrite, input
<1> QED
    BY <1>1, <1>2, <1>3 DEF SInv, StartWrite, Loops, input

\* A failure, after which Write may be called again.
LEMMA FailKeeps == ASSUME SInv, Fail PROVE SInv'
<1>1. ~written'
    BY DEF SInv, Fail
<1>2. Typed'
    BY DEF SInv, Fail, Typed, Steps, Loops, input
<1>3. (Len(sigs) = 1 => Sole)'
    BY <1>1 DEF Fail, Sole, Loops
<1> QED
    BY <1>1, <1>2, <1>3 DEF SInv, Fail, Loops

\* The copy of the original file.
LEMMA CopyOriginalKeeps == ASSUME SInv, CopyOriginal PROVE SInv'
<1>1. Typed'
    BY DEF SInv, CopyOriginal, Typed, Steps, Loops, input
<1>2. ~written' /\ sent' = OldBytes'
    BY DEF SInv, CopyOriginal, OldBytes, input
<1>3. DOMAIN digestWriters' = Range(sigs')
    BY DEF SInv, CopyOriginal, input
<1>4. (Len(sigs) = 1 => Sole)'
  <2> SUFFICES ASSUME Len(sigs) = 1 PROVE Sole'
      BY DEF CopyOriginal, input
  <2>1. sigs[1] \in Range(sigs)
      BY DEF SInv, Typed, Range
  <2>2. digestWriters'[sigs[1]] = Original
      BY <2>1 DEF SInv, CopyOriginal, Original
  <2>3. Original' = Original
      BY DEF CopyOriginal, Original, input
  <2> QED
      BY <1>2, <2>2, <2>3 DEF SInv, CopyOriginal, Sole, Loops, input
<1> QED
    BY <1>1, <1>2, <1>3, <1>4 DEF SInv, CopyOriginal, Loops

\* The mock write lays the dictionaries out, with nothing yet in their Contents.
LEMMA MockWriteKeeps == ASSUME Bounded, SInv, MockWrite PROVE SInv'
<1>1. PICK start \in [DOMAIN sigs -> 1 .. MaxEnd], gap \in [DOMAIN sigs -> 1 .. MaxPart], tail \in 1 .. MaxPart :
        /\ InOrder(start, gap)
        /\ LET d == Placed(start, gap)
               length == start[Len(d)] - offset + gap[Len(d)] + 4 + tail
               mocked == UNION {ContentsBytes(d[j]) : j \in DOMAIN d}
           IN  /\ sigDicts' = d
               /\ bufferData' = [i \in 1 .. length |-> IF i \in mocked THEN "mock" ELSE "data"]
    BY Zenon DEF MockWrite
<1> DEFINE d == Placed(start, gap)
           n == Len(sigs)
           length == start[n] - offset + gap[n] + 4 + tail
           mocked == UNION {ContentsBytes(d[j]) : j \in DOMAIN d}
<1>2. sigs \in Seq(Handlers) /\ n \in Nat /\ n >= 1 /\ DOMAIN sigs = 1 .. n /\ offset \in Nat
    BY DEF SInv, Typed
<1>3. \A j \in 1 .. n : start[j] \in Nat /\ gap[j] \in Nat /\ gap[j] >= 1 /\ tail \in Nat /\ tail >= 1
    BY SMTT(40), <1>1, <1>2 DEF Bounded
<1>4. d = [j \in 1 .. n |->
             [handler |-> sigs[j], fileOffset |-> start[j],
              contentsOffsetStart |-> 1, contentsOffsetEnd |-> 1 + gap[j],
              byteRangeOffsetStart |-> 2 + gap[j], byteRangeOffsetEnd |-> 3 + gap[j]]]
    BY <1>2 DEF Placed
<1>5. d \in Seq(SigDict) /\ Len(d) = n
  <2>1. \A j \in 1 .. n : sigs[j] \in Handlers
      BY <1>2
  <2>2. \A j \in 1 .. n : d[j] \in SigDict
      BY <1>3, <1>4, <2>1 DEF SigDict
  <2> HIDE DEF d
  <2> QED
      BY <1>2, <1>4, <2>2
<1>6. /\ \A j \in 1 .. n : offset < start[j]
      /\ \A i, j \in 1 .. n : i < j => start[i] + gap[i] + 4 < start[j]
    BY Zenon, <1>1, <1>2 DEF InOrder
<1>7. length \in Nat
  <2>1. n \in 1 .. n
      BY <1>2
  <2>2. start[n] \in Nat /\ gap[n] \in Nat /\ tail \in Nat /\ offset < start[n]
      BY <1>3, <1>6, <2>1
  <2> HIDE DEF n
  <2> QED
      BY <1>2, <2>2
<1>8. sigDicts' = d /\ bufferData' = [i \in 1 .. length |-> IF i \in mocked THEN "mock" ELSE "data"]
    BY <1>1, <1>5
<1>9. bufferData' \in Seq(Kinds) /\ Len(bufferData') = length
  <2> HIDE DEF length, mocked
  <2> QED
      BY <1>7, <1>8 DEF Kinds
<1>10. \A j \in 1 .. n : /\ d[j].handler = sigs[j]
                         /\ d[j].fileOffset = start[j]
                         /\ From(d[j]) = start[j] + 1 /\ To(d[j]) = start[j] + 1 + gap[j]
                         /\ d[j].byteRangeOffsetStart = 2 + gap[j] /\ d[j].byteRangeOffsetEnd = 3 + gap[j]
    BY <1>3, <1>4 DEF From, To
<1>11. UNCHANGED <<sigs, offset, written, calls, k, digestWriters, byteRange, prevOffset, signed, sent>>
       /\ stage = "mock" /\ stage' = "ranges"
    BY DEF MockWrite, input
<1> HIDE DEF d, n, length, mocked
<1>12. Laid'
  <2>1. ASSUME NEW j \in 1 .. n PROVE start[j] + gap[j] <= start[n] + gap[n]
    <3>1. n \in 1 .. n
        BY <1>2
    <3>2. /\ start[j] \in Nat /\ gap[j] \in Nat /\ start[n] \in Nat /\ gap[n] \in Nat
          /\ j < n => start[j] + gap[j] + 4 < start[n]
        BY <1>3, <1>6, <3>1
    <3> QED
        BY <1>2, <3>2
  <2>2. ASSUME NEW j \in 1 .. n PROVE To(d[j]) < offset + length
    <3>1. n \in 1 .. n
        BY <1>2
    <3>2. /\ start[j] \in Nat /\ gap[j] \in Nat /\ start[n] \in Nat /\ gap[n] \in Nat /\ tail \in Nat
          /\ To(d[j]) = start[j] + 1 + gap[j]
        BY <1>3, <1>10, <3>1
    <3>3. start[j] + gap[j] <= start[n] + gap[n]
        BY <2>1
    <3>4. offset \in Nat /\ length = start[n] - offset + gap[n] + 4 + tail
        BY <1>2 DEF length
    <3> DEFINE a == start[j]  b == gap[j]  x == start[n]  y == gap[n]
    <3>5. /\ a \in Nat /\ b \in Nat /\ x \in Nat /\ y \in Nat
          /\ To(d[j]) = a + 1 + b /\ length = x - offset + y + 4 + tail /\ a + b <= x + y
        BY Zenon, <3>2, <3>3, <3>4
    <3> HIDE DEF a, b, x, y
    <3> QED
        BY <3>2, <3>4, <3>5
  <2>3. ASSUME NEW j \in 1 .. n
        PROVE  /\ d[j].handler = sigs[j]
               /\ offset < d[j].fileOffset
               /\ d[j].fileOffset < From(d[j]) /\ From(d[j]) < To(d[j])
               /\ To(d[j]) <= d[j].fileOffset + d[j].byteRangeOffsetStart
               /\ d[j].byteRangeOffsetStart <= d[j].byteRangeOffsetEnd
    <3>1. start[j] \in Nat /\ gap[j] \in Nat /\ gap[j] >= 1 /\ offset < start[j]
        BY <1>3, <1>6
    <3>2. /\ d[j].handler = sigs[j]
          /\ d[j].fileOffset = start[j]
          /\ From(d[j]) = start[j] + 1 /\ To(d[j]) = start[j] + 1 + gap[j]
          /\ d[j].byteRangeOffsetStart = 2 + gap[j] /\ d[j].byteRangeOffsetEnd = 3 + gap[j]
        BY <1>10
    <3> QED
        BY SMTT(40), <1>2, <3>1, <3>2
  <2>4. ASSUME NEW i \in 1 .. n, NEW j \in 1 .. n, i < j
        PROVE  d[i].fileOffset + d[i].byteRangeOffsetEnd < d[j].fileOffset
    <3>1. /\ start[i] \in Nat /\ gap[i] \in Nat /\ start[j] \in Nat
          /\ start[i] + gap[i] + 4 < start[j]
        BY <1>3, <1>6, <2>4
    <3> QED
        BY <1>10, <3>1
  <2>5. n = Len(sigs')
      BY <1>11 DEF n
  <2> QED
      BY Zenon, <1>5, <1>8, <1>9, <1>11, <2>2, <2>3, <2>4, <2>5 DEF Laid, From, To
<1>13. Filled(0)'
    BY <1>7, <1>8, <1>9 DEF Filled
<1>14. Typed'
    BY <1>11 DEF SInv, Typed, Steps, Loops
<1>15. (Len(sigs) = 1 => Sole)'
  <2>1. Original' = Original
      BY <1>11 DEF Original
  <2> QED
      BY <1>11, <2>1 DEF SInv, Sole, Loops
<1>16. sent' = OldBytes'
    BY <1>11 DEF SInv, OldBytes
<1> QED
    BY ZenonT(30), <1>11, <1>12, <1>13, <1>14, <1>15, <1>16 DEF SInv, Loops

-----------------------------------------------------------------------------
\* The places in a dictionary that was laid out are numbers.
LEMMA Places ==
    ASSUME Laid, NEW j \in 1 .. Len(sigDicts)
    PROVE  /\ sigDicts[j].fileOffset \in Nat
           /\ sigDicts[j].byteRangeOffsetStart \in Nat /\ sigDicts[j].byteRangeOffsetEnd \in Nat
           /\ From(sigDicts[j]) \in Nat /\ To(sigDicts[j]) \in Nat
<1>1. sigDicts[j] \in SigDict
    BY DEF Laid
<1> QED
    BY <1>1 DEF SigDict, From, To

\* No ByteRange lies in a Contents.
LEMMA RangesApart ==
    ASSUME Typed, Laid, NEW i \in 1 .. Len(sigDicts), NEW j \in 1 .. Len(sigDicts)
    PROVE  RangeBytes(sigDicts[i]) \cap ContentsBytes(sigDicts[j]) = {}
<1> DEFINE a == sigDicts[i].fileOffset
           b == sigDicts[i].byteRangeOffsetStart
           c == sigDicts[i].byteRangeOffsetEnd
           e == sigDicts[j].fileOffset
           f == From(sigDicts[j])
           t == To(sigDicts[j])
           g == sigDicts[j].byteRangeOffsetStart
           h == sigDicts[j].byteRangeOffsetEnd
<1>1. /\ a \in Nat /\ b \in Nat /\ c \in Nat /\ e \in Nat /\ f \in Nat /\ t \in Nat /\ g \in Nat /\ h \in Nat
      /\ offset \in Nat /\ i \in Nat /\ j \in Nat
    BY SMTT(40), Places DEF Typed
<1>2. e < f /\ t <= e + g /\ g <= h
    BY DEF Laid
<1>3. (i < j => a + c < e) /\ (j < i => e + h < a) /\ (i = j => t <= a + b)
    BY DEF Laid
<1>4. /\ RangeBytes(sigDicts[i]) = a - offset + b + 1 .. a - offset + c
      /\ ContentsBytes(sigDicts[j]) = f - offset + 1 .. t - offset
    BY DEF RangeBytes, ContentsBytes
<1> HIDE DEF a, b, c, e, f, t, g, h
<1>5. a + c < f \/ t <= a + b
    BY SMTT(40), <1>1, <1>2, <1>3
<1> QED
    BY <1>1, <1>4, <1>5

\* What lies in a buffer stays laid out when bytes of it are overwritten.
LEMMA LaidKept ==
    ASSUME Laid, UNCHANGED <<sigs, offset, sigDicts>>,
           bufferData' \in Seq(Kinds), Len(bufferData') = Len(bufferData)
    PROVE  Laid'
BY DEF Laid, From, To

\* The ByteRange is filled in.
LEMMA SetByteRangeKeeps == ASSUME SInv, SetByteRange PROVE SInv'
<1> DEFINE ranges == UNION {RangeBytes(sigDicts[j]) : j \in DOMAIN sigDicts}
<1>1. /\ UNCHANGED <<sigs, offset, written, calls, k, digestWriters, sigDicts, prevOffset, signed, sent>>
      /\ stage = "ranges" /\ stage' = "segments"
      /\ byteRange' = Ranges(sigDicts, offset + Len(bufferData))
      /\ bufferData' = [i \in DOMAIN bufferData |-> IF i \in ranges THEN "range" ELSE bufferData[i]]
    BY DEF SetByteRange, input
<1> HIDE DEF ranges
<1>2. Typed /\ Laid /\ Filled(0)
    BY <1>1 DEF SInv, Loops
<1>3. bufferData' \in Seq(Kinds) /\ Len(bufferData') = Len(bufferData)
  <2>1. bufferData \in Seq(Kinds)
      BY <1>2 DEF Laid
  <2> QED
      BY <1>1, <2>1 DEF Kinds
<1>4. Laid'
    BY <1>1, <1>2, <1>3, LaidKept
<1>5. Filled(0)'
  <2>1. DOMAIN bufferData = 1 .. Len(bufferData)
      BY <1>2 DEF Laid
  <2> QED
      BY SMTT(40), <1>1, <1>2, <1>3, <2>1 DEF Filled
<1>6. byteRange' = Ranges(sigDicts', offset' + Len(bufferData'))
    BY <1>1, <1>3
<1>7. Typed'
    BY SMTT(40), <1>1, <1>2 DEF Typed, Steps, Loops
<1>8. (Len(sigs) = 1 => Sole)'
  <2> SUFFICES ASSUME Len(sigs) = 1 PROVE Sole'
      BY <1>1
  <2>1. Original' = Original
      BY <1>1 DEF Original
  <2>2. \A i \in RangeBytes(sigDicts[1]) \cap DOMAIN bufferData : bufferData'[i] = "range"
      BY <1>1, <1>2 DEF ranges, Laid
  <2>3. RangeBytes(sigDicts[1])' = RangeBytes(sigDicts[1]) /\ DOMAIN bufferData' = DOMAIN bufferData
      BY <1>1 DEF RangeBytes
  <2>4. Sole
      BY DEF SInv
  <2> QED
      BY Zenon, <1>1, <1>2, <2>1, <2>2, <2>3, <2>4 DEF SInv, Sole
<1>9. sent' = OldBytes'
    BY <1>1 DEF SInv, OldBytes
<1> QED
    BY ZenonT(30), <1>1, <1>4, <1>5, <1>6, <1>7, <1>8, <1>9 DEF SInv, Loops

\* A signature is fed the bytes before its Contents.
LEMMA DigestSegmentKeeps == ASSUME SInv, DigestSegment PROVE SInv'
<1> DEFINE d == sigDicts[k]
<1>1. /\ UNCHANGED <<sigs, offset, written, calls, sigDicts, bufferData, byteRange, signed, sent>>
      /\ stage = "segments"
      /\ digestWriters' = [digestWriters EXCEPT ![d.handler] = @ \o Bytes(prevOffset, From(d) - offset)]
      /\ prevOffset' = To(d) - offset
      /\ Proceed("segments", "tails")
    BY DEF DigestSegment, input
<1>2. Typed /\ Laid /\ Filled(0) /\ ~written
    BY <1>1 DEF SInv, Loops
<1>3. k \in 1 .. Len(sigs) /\ Len(sigDicts) = Len(sigs) /\ Len(sigs) \in Nat
    BY <1>1, <1>2 DEF Typed, Laid, Loops
<1>4. Typed' /\ stage' \in {"segments", "tails"}
    BY SMTT(40), <1>1, <1>2, <1>3 DEF Typed, Steps, Loops, Proceed
<1>5. Laid'
    BY <1>1, <1>2, LaidKept DEF Laid
<1>6. Filled(0)'
    BY <1>1, <1>2 DEF Filled
<1>7. DOMAIN digestWriters' = Range(sigs')
    BY <1>1 DEF SInv
<1>8. (Len(sigs) = 1 => Sole)'
  <2> SUFFICES ASSUME Len(sigs) = 1 PROVE Sole'
      BY SMTT(40), <1>1
  <2>1. k = 1 /\ stage' = "tails" /\ d.handler = sigs[1]
      BY SMTT(40), <1>1, <1>3, <1>2 DEF Proceed, Laid
  <2>2. sigs[1] \in DOMAIN digestWriters
      BY SMTT(40), <1>1, <1>2 DEF SInv, Typed, Range
  <2>3. digestWriters[sigs[1]] = Original /\ prevOffset = 0 /\ signed = << >>
      BY <1>1 DEF SInv, Sole
  <2>4. digestWriters'[sigs[1]] = Original \o Bytes(0, From(sigDicts[1]) - offset)
      BY Zenon, <1>1, <2>1, <2>2, <2>3
  <2>5. Original' = Original /\ Bytes(0, From(sigDicts[1]) - offset)' = Bytes(0, From(sigDicts[1]) - offset)
      BY <1>1 DEF Original, Bytes, From
  <2>6. prevOffset' = (To(sigDicts[1]) - offset)'
      BY Zenon, <1>1, <2>1 DEF To
  <2>7. (\A i \in RangeBytes(sigDicts[1]) \cap DOMAIN bufferData : bufferData[i] = "range")'
      BY SMTT(40), <1>1 DEF SInv, Sole, Loops, RangeBytes
  <2> QED
      BY ZenonT(30), <1>1, <1>2, <2>1, <2>3, <2>4, <2>5, <2>6, <2>7 DEF Sole
<1>9. byteRange' = Ranges(sigDicts', offset' + Len(bufferData')) /\ sent' = OldBytes'
    BY SMTT(40), <1>1 DEF SInv, Loops, OldBytes
<1> QED
    BY ZenonT(30), <1>1, <1>2, <1>4, <1>5, <1>6, <1>7, <1>8, <1>9 DEF SInv, Loops

\* A signature is fed the bytes after the last Contents.
LEMMA DigestTailKeeps == ASSUME SInv, DigestTail PROVE SInv'
<1>1. /\ UNCHANGED <<sigs, offset, written, calls, sigDicts, bufferData, byteRange, prevOffset, signed, sent>>
      /\ stage = "tails"
      /\ digestWriters' = [digestWriters EXCEPT ![sigDicts[k].handler] = @ \o Bytes(prevOffset, Len(bufferData))]
      /\ Proceed("tails", "sign")
    BY DEF DigestTail, input
<1>2. Typed /\ Laid /\ Filled(0) /\ ~written
    BY <1>1 DEF SInv, Loops
<1>3. k \in 1 .. Len(sigs) /\ Len(sigDicts) = Len(sigs) /\ Len(sigs) \in Nat
    BY <1>1, <1>2 DEF Typed, Laid, Loops
<1>4. Typed' /\ stage' \in {"tails", "sign"} /\ (stage' = "sign" => k' = 1)
    BY SMTT(40), <1>1, <1>2, <1>3 DEF Typed, Steps, Loops, Proceed
<1>5. Laid'
    BY ZenonT(30), <1>1, <1>2, LaidKept DEF Laid
<1>6. Filled(0)'
    BY SMTT(40), <1>1, <1>2 DEF Filled
<1>7. DOMAIN digestWriters' = Range(sigs')
    BY SMTT(40), <1>1 DEF SInv
<1>8. (Len(sigs) = 1 => Sole)'
  <2> SUFFICES ASSUME Len(sigs) = 1 PROVE Sole'
      BY SMTT(40), <1>1
  <2>1. k = 1 /\ stage' = "sign" /\ sigDicts[k].handler = sigs[1]
      BY SMTT(40), <1>1, <1>3, <1>2 DEF Proceed, Laid
  <2>2. sigs[1] \in DOMAIN digestWriters
      BY SMTT(40), <1>1, <1>2 DEF SInv, Typed, Range
  <2>3. /\ digestWriters[sigs[1]] = Original \o Bytes(0, From(sigDicts[1]) - offset)
        /\ prevOffset = To(sigDicts[1]) - offset /\ signed = << >>
      BY <1>1 DEF SInv, Sole
  <2>4. digestWriters'[sigs[1]] = Whole
      BY Zenon, <1>1, <2>1, <2>2, <2>3 DEF Whole
  <2>5. Whole' = Whole
      BY SMTT(40), <1>1 DEF Whole, Original, Bytes, From, To
  <2>6. (\A i \in RangeBytes(sigDicts[1]) \cap DOMAIN bufferData : bufferData[i] = "range")'
      BY <1>1 DEF SInv, Sole, Loops, RangeBytes
  <2> QED
      BY Zenon, <1>1, <1>2, <2>1, <2>3, <2>4, <2>5, <2>6 DEF Sole
<1>9. byteRange' = Ranges(sigDicts', offset' + Len(bufferData')) /\ sent' = OldBytes'
    BY <1>1 DEF SInv, Loops, OldBytes
<1>10. stage' = "sign" => Filled(k - 1)'
    BY <1>4, <1>6 DEF Filled
<1> QED
    BY Zenon, <1>1, <1>2, <1>4, <1>5, <1>6, <1>7, <1>8, <1>9, <1>10 DEF SInv, Loops

\* Bytes that do not change are the same in a digest.
LEMMA BytesKept ==
    ASSUME offset' = offset, NEW a \in Nat, NEW b \in Nat,
           \A i \in a + 1 .. b : bufferData'[i] = bufferData[i]
    PROVE  Bytes(a, b)' = Bytes(a, b)
<1>1. \A i \in 1 .. b - a : a + i \in a + 1 .. b
    OBVIOUS
<1> QED
    BY <1>1 DEF Bytes

\* A handler signs, and the Contents is filled in.
LEMMA SignKeeps == ASSUME SInv, Sign PROVE SInv'
<1> DEFINE d == sigDicts[k]
<1>1. /\ UNCHANGED <<sigs, offset, written, calls, digestWriters, sigDicts, byteRange, prevOffset, sent>>
      /\ stage = "sign"
      /\ signed' = Append(signed, digestWriters[d.handler])
      /\ bufferData' = [i \in DOMAIN bufferData |->
                           CASE i \in RangeBytes(d) -> "range"
                             [] i \in ContentsBytes(d) -> "contents"
                             [] OTHER -> bufferData[i]]
      /\ Proceed("sign", "flush")
    BY DEF Sign, input
<1>2. Typed /\ Laid /\ Filled(k - 1) /\ ~written
    BY <1>1 DEF SInv, Loops
<1>3. k \in 1 .. Len(sigs) /\ Len(sigDicts) = Len(sigs) /\ Len(sigs) \in Nat
    BY <1>1, <1>2 DEF Typed, Laid, Loops
<1>4. Typed' /\ ((stage' = "sign" /\ k' = k + 1) \/ (stage' = "flush" /\ k = Len(sigs)))
    BY SMTT(40), <1>1, <1>2, <1>3 DEF Typed, Steps, Loops, Proceed
<1>5. DOMAIN bufferData = 1 .. Len(bufferData) /\ bufferData \in Seq(Kinds)
    BY <1>2 DEF Laid
<1>6. \A j \in 1 .. Len(sigs) : RangeBytes(d) \cap ContentsBytes(sigDicts[j]) = {}
    BY <1>2, <1>3, RangesApart
<1>7. \A i \in 1 .. Len(bufferData) :
        bufferData'[i] = IF i \in ContentsBytes(d) THEN "contents"
                         ELSE IF i \in RangeBytes(d) THEN "range" ELSE bufferData[i]
    BY <1>1, <1>3, <1>5, <1>6
<1> HIDE DEF d
<1>8. bufferData' \in Seq(Kinds) /\ Len(bufferData') = Len(bufferData)
  <2>1. \A i \in 1 .. Len(bufferData) : bufferData'[i] \in Kinds
      BY <1>5, <1>7 DEF Kinds
  <2>2. DOMAIN bufferData' = 1 .. Len(bufferData) /\ bufferData' = [i \in 1 .. Len(bufferData) |-> bufferData'[i]]
      BY <1>1, <1>5
  <2> QED
      BY <1>5, <2>1, <2>2
<1>9. Laid'
    BY <1>1, <1>2, <1>8, LaidKept
<1>10. ASSUME NEW i \in 1 .. Len(bufferData)
       PROVE  bufferData'[i] = "contents" <=> \E j \in 1 .. k : i \in ContentsBytes(sigDicts[j])
  <2>1. bufferData[i] = "contents" <=> \E j \in 1 .. k - 1 : i \in ContentsBytes(sigDicts[j])
      BY <1>2 DEF Filled
  <2>2. 1 .. k = 1 .. k - 1 \cup {k}
      BY <1>3
  <2>3. \A j \in 1 .. k : j \in 1 .. Len(sigs)
      BY <1>3
  <2>4. CASE i \in ContentsBytes(d)
      BY <1>7, <2>2, <2>4 DEF d
  <2>5. CASE i \notin ContentsBytes(d) /\ i \in RangeBytes(d)
      BY SMTT(40), <1>6, <1>7, <2>3, <2>5
  <2>6. CASE i \notin ContentsBytes(d) /\ i \notin RangeBytes(d)
      BY <1>7, <2>1, <2>2, <2>6 DEF d
  <2> QED
      BY <2>4, <2>5, <2>6
<1>11. \A j \in 1 .. Len(sigs) : ContentsBytes(sigDicts[j])' = ContentsBytes(sigDicts[j])
    BY <1>1 DEF ContentsBytes, From, To
<1>12. (stage = "sign" => Filled(k - 1))'
  <2> SUFFICES ASSUME stage' = "sign" PROVE Filled(k - 1)'
      OBVIOUS
  <2>1. k' - 1 = k /\ \A j \in 1 .. k : j \in 1 .. Len(sigs)
      BY <1>3, <1>4
  <2> QED
      BY Zenon, <1>1, <1>8, <1>10, <1>11, <2>1 DEF Filled, ContentsBytes, From, To
<1>13. (stage = "flush" \/ written => Filled(Len(sigs)))'
  <2> SUFFICES ASSUME stage' = "flush" PROVE Filled(Len(sigs))'
      BY <1>1, <1>2
  <2>1. Len(sigs') = k
      BY <1>1, <1>4
  <2> QED
      BY Zenon, <1>1, <1>8, <1>10, <1>11, <2>1 DEF Filled, ContentsBytes, From, To
<1>14. (Len(sigs) = 1 => Sole)'
  <2> SUFFICES ASSUME Len(sigs) = 1 PROVE Sole'
      BY <1>1
  <2>1. k = 1 /\ stage' = "flush" /\ d = sigDicts[1] /\ d.handler = sigs[1]
      BY <1>1, <1>3, <1>2 DEF Proceed, Laid, d
  <2>2. signed = << >> /\ digestWriters[sigs[1]] = Whole
      BY <1>1 DEF SInv, Sole
  <2>3. signed' = <<Whole>>
      BY <1>1, <2>1, <2>2
  <2>4. \A i \in RangeBytes(d) \cap DOMAIN bufferData : bufferData[i] = "range"
      BY <1>1, <2>1 DEF SInv, Sole, Loops
  <2>5. \A i \in 1 .. Len(bufferData) : i \notin ContentsBytes(d) => bufferData'[i] = bufferData[i]
      BY <1>5, <1>7, <2>4
  <2> DEFINE f == From(d) - offset
             t == To(d) - offset
             n == Len(bufferData)
  <2>6. f \in Nat /\ t \in Nat /\ n \in Nat /\ f < t /\ t < n /\ ContentsBytes(d) = f + 1 .. t
    <3>1. From(d) \in Nat /\ To(d) \in Nat /\ offset \in Nat
        BY SMTT(40), <1>2, <1>3, <2>1, Places DEF Typed
    <3>2. offset < d.fileOffset /\ d.fileOffset < From(d) /\ From(d) < To(d) /\ To(d) < offset + Len(bufferData)
        BY <1>2, <1>3, <2>1 DEF Laid
    <3>3. d.fileOffset \in Nat
        BY SMTT(40), <1>2, <1>3, <2>1, Places
    <3> QED
        BY <1>5, <3>1, <3>2, <3>3 DEF ContentsBytes
  <2> HIDE DEF f, t, n
  <2>7. (\A i \in 0 + 1 .. f : bufferData'[i] = bufferData[i]) /\ (\A i \in t + 1 .. n : bufferData'[i] = bufferData[i])
      BY <2>5, <2>6 DEF n
  <2>8. PICK u \in Nat, v \in Nat, w \in Nat : u = f /\ v = t /\ w = n
      BY <2>6
  <2>9. Bytes(0, u)' = Bytes(0, u) /\ Bytes(v, w)' = Bytes(v, w)
    <3>1. offset' = offset
        BY <1>1
    <3>2. Bytes(0, u)' = Bytes(0, u)
        BY <2>7, <2>8, <3>1, BytesKept
    <3>3. Bytes(v, w)' = Bytes(v, w)
        BY <2>7, <2>8, <3>1, BytesKept
    <3> QED
        BY <3>2, <3>3
  <2>10. Original' = Original
      BY <1>1 DEF Original
  <2>11. Whole = (Original \o Bytes(0, u)) \o Bytes(v, w)
      BY <2>1, <2>8 DEF Whole, f, t, n
  <2>12. u = (From(sigDicts[1]) - offset)' /\ v = (To(sigDicts[1]) - offset)' /\ w = Len(bufferData)'
      BY ZenonT(30), <1>1, <1>8, <2>1, <2>8 DEF f, t, n, From, To
  <2>13. Whole' = (Original' \o Bytes(0, u)') \o Bytes(v, w)'
      BY <2>12 DEF Whole, Bytes
  <2>14. signed' = <<Whole'>>
      BY Zenon, <2>3, <2>9, <2>10, <2>11, <2>13
  <2> QED
      BY Zenon, <1>1, <1>2, <2>1, <2>14 DEF Sole, Loops
<1>15. byteRange' = Ranges(sigDicts', offset' + Len(bufferData')) /\ sent' = OldBytes'
    BY <1>1, <1>8 DEF SInv, Loops, OldBytes
<1>16. DOMAIN digestWriters' = Range(sigs')
    BY <1>1 DEF SInv
<1> QED
    BY Zenon, <1>1, <1>2, <1>4, <1>9, <1>12, <1>13, <1>14, <1>15, <1>16 DEF SInv, Loops

\* The buffer is copied out.
LEMMA FlushKeeps == ASSUME SInv, Flush PROVE SInv'
<1>1. /\ UNCHANGED <<sigs, offset, calls, k, digestWriters, sigDicts, bufferData, byteRange, prevOffset, signed>>
      /\ stage = "flush" /\ stage' = "idle" /\ written'
      /\ written' = TRUE
      /\ sent' = sent \o bufferData
    BY DEF Flush, input
<1>2. Typed /\ Laid /\ Filled(Len(sigs))
    BY <1>1 DEF SInv, Loops
<1>3. Typed'
    BY ZenonT(30), <1>1, <1>2 DEF Typed, Steps, Loops
<1>4. Laid'
    BY <1>1, <1>2, LaidKept DEF Laid
<1>5. Filled(Len(sigs))'
    BY Zenon, <1>1, <1>2 DEF Filled, ContentsBytes, From, To
<1>6. (Len(sigs) = 1 => Sole)'
  <2> SUFFICES ASSUME Len(sigs) = 1 PROVE Sole'
      BY <1>1
  <2>1. signed = <<Whole>>
      BY <1>1 DEF SInv, Sole
  <2>2. Whole' = Whole
      BY <1>1 DEF Whole, Original, Bytes, From, To
  <2> QED
      BY <1>1, <2>1, <2>2 DEF Sole, Loops
<1>7. byteRange' = Ranges(sigDicts', offset' + Len(bufferData'))
    BY <1>1 DEF SInv
<1>8. sent' = OldBytes' \o bufferData'
    BY Zenon, <1>1 DEF SInv, OldBytes
<1> QED
    BY Zenon, <1>1, <1>3, <1>4, <1>5, <1>6, <1>7, <1>8 DEF SInv, Loops

\* A step that changes nothing keeps the invariant.
LEMMA StutterKeeps == ASSUME SInv, UNCHANGED signVars PROVE SInv'
<1>1. Typed'
    BY DEF SInv, signVars, Typed
<1>2. Laid => Laid'
    BY DEF signVars, Laid, From, To
<1>3. (Filled(0) => Filled(0)') /\ (Filled(k - 1) => Filled(k - 1)') /\ (Filled(Len(sigs)) => Filled(Len(sigs))')
    BY SMTT(40) DEF signVars, Filled, ContentsBytes, From, To
<1>4. Sole => Sole'
    BY Zenon DEF signVars, Sole, Whole, Original, Bytes, RangeBytes, From, To
<1>5. OldBytes' = OldBytes /\ Ranges(sigDicts', offset' + Len(bufferData')) = Ranges(sigDicts, offset + Len(bufferData))
    BY DEF signVars, OldBytes
<1> QED
    BY <1>1, <1>2, <1>3, <1>4, <1>5 DEF SInv, signVars

\* Every step of Write keeps the invariant.
LEMMA SInvAlways == ASSUME Bounded PROVE SignSpec => []SInv
<1>1. SInv /\ [SignNext]_signVars => SInv'
    BY ZenonT(30), WriteKeeps, FailKeeps, CopyOriginalKeeps, MockWriteKeeps, SetByteRangeKeeps, DigestSegmentKeeps,
       DigestTailKeeps, SignKeeps, FlushKeeps, StutterKeeps DEF SignNext
<1> QED
    BY InitSInv, <1>1, PTL DEF SignSpec

-----------------------------------------------------------------------------
\* Every set of naturals that is not empty has a least element.
LEMMA LeastNumber ==
    ASSUME NEW T \in SUBSET Nat, T # {}
    PROVE  \E x \in T : \A y \in T : x <= y
<1> DEFINE R == OpToRel(<, Nat)
<1>1. IsWellFoundedOn(R, Nat)
    BY NatLessThanWellFounded
<1>2. \A x, y \in Nat : (<<y, x>> \in R) <=> y < x
    BY Zenon DEF OpToRel
<1> HIDE DEF R
<1>3. PICK x \in T : \A y \in T : ~(<<y, x>> \in R)
    BY Zenon, <1>1, WFMin
<1>4. \A y \in T : ~(y < x)
    BY Zenon, <1>2, <1>3
<1> QED
    BY <1>4

\* The signature of a revision that has one was made from exactly the bytes that its
\* ByteRange names in the finished file: Write fills the ByteRange in before it feeds
\* the digest, and afterwards changes nothing but the Contents.
THEOREM SoleSignatureValidAlways == ASSUME Bounded PROVE SignSpec => []SoleSignatureValid
<1>1. SInv => SoleSignatureValid
  <2> SUFFICES ASSUME SInv, written, Len(sigDicts) = 1
               PROVE  /\ Len(byteRange) = 2
                      /\ signed = <<Validated(byteRange[1]) \o Validated(byteRange[2])>>
      BY Zenon DEF SoleSignatureValid
  <2> DEFINE d == sigDicts[1]
             n == Len(bufferData)
             f == From(d)
             t == To(d)
  <2>1. Typed /\ Laid /\ Len(sigs) = 1 /\ signed = <<Whole>> /\ sent = OldBytes \o bufferData
      BY DEF SInv, Laid, Sole
  <2>2. offset \in Nat /\ f \in Nat /\ t \in Nat /\ n \in Nat /\ bufferData \in Seq(Kinds)
      BY <2>1, Places DEF Typed, Laid
  <2>3. offset < f /\ f < t /\ t < offset + n
    <3>1. d.fileOffset \in Nat /\ offset < d.fileOffset /\ d.fileOffset < f /\ f < t /\ t < offset + n
        BY <2>1, Places DEF Laid
    <3> QED
        BY SMTT(40), <2>2, <3>1
  <2>4. byteRange = Ranges(sigDicts, offset + n)
      BY DEF SInv
  <2>5. Len(byteRange) = 2 /\ byteRange[1] = <<0, f>> /\ byteRange[2] = <<t, offset + n - t>>
    <3> HIDE DEF n
    <3> QED
        BY <2>2, <2>4 DEF Ranges
  <2> HIDE DEF d, n, f, t
  <2>6. /\ \A i \in 1 .. offset : sent[i] = "data"
        /\ \A i \in 1 .. n : sent[offset + i] = bufferData[i]
    <3>1. OldBytes \in Seq(Kinds) /\ Len(OldBytes) = offset /\ \A i \in 1 .. offset : OldBytes[i] = "data"
        BY <2>2 DEF OldBytes, Kinds
    <3>2. \A i \in 1 .. Len(OldBytes) + Len(bufferData) :
            sent[i] = IF i <= Len(OldBytes) THEN OldBytes[i] ELSE bufferData[i - Len(OldBytes)]
        BY SMTT(40), <2>1, <2>2, <3>1, ConcatProperties
    <3> QED
        BY <2>2, <3>1, <3>2 DEF n
  <2> DEFINE S == Nat \X Kinds
             B1 == Bytes(0, f - offset)
             B2 == Bytes(t - offset, n)
  <2>7. Validated(byteRange[2]) = B2
      BY <2>2, <2>3, <2>5, <2>6 DEF Validated, Bytes
  <2>8. Validated(byteRange[1]) = Original \o B1
    <3> DEFINE V == Validated(byteRange[1])
    <3>1. V = [i \in 1 .. f |-> <<i - 1, sent[i]>>]
        BY <2>2, <2>5 DEF Validated
    <3>2. B1 = [i \in 1 .. f - offset |-> <<offset + i - 1, bufferData[i]>>]
        BY <2>2, <2>3 DEF Bytes
    <3>3. \A i \in 1 .. n : bufferData[i] \in Kinds
        BY <2>2 DEF n
    <3>4. Original \in Seq(S) /\ Len(Original) = offset
        BY <2>2 DEF Original, Kinds
    <3>5. B1 \in Seq(S) /\ Len(B1) = f - offset
      <4>1. \A i \in 1 .. f - offset : i \in 1 .. n /\ offset + i - 1 \in Nat
          BY <2>2, <2>3
      <4> HIDE DEF B1
      <4> QED
          BY SMTT(40), <2>2, <2>3, <3>2, <3>3, <4>1
    <3>6. \A i \in 1 .. f : sent[i] = IF i <= offset THEN "data" ELSE bufferData[i - offset]
      <4> SUFFICES ASSUME NEW i \in 1 .. f PROVE sent[i] = IF i <= offset THEN "data" ELSE bufferData[i - offset]
          OBVIOUS
      <4>1. CASE i <= offset
          BY <2>2, <2>6, <4>1
      <4>2. CASE i > offset
        <5>1. i - offset \in 1 .. n /\ offset + (i - offset) = i
            BY <2>2, <2>3, <4>2
        <5>2. sent[offset + (i - offset)] = bufferData[i - offset]
            BY <2>6, <5>1
        <5> QED
            BY SMTT(40), <2>2, <4>2, <5>1, <5>2
      <4> QED
          BY <2>2, <4>1, <4>2
    <3> DEFINE C == Original \o B1
    <3> HIDE DEF S, B1, V
    <3>7. /\ C \in Seq(S) /\ Len(C) = Len(Original) + Len(B1)
          /\ \A i \in 1 .. Len(Original) + Len(B1) :
               C[i] = IF i <= Len(Original) THEN Original[i] ELSE B1[i - Len(Original)]
        BY Zenon, <3>4, <3>5, ConcatProperties
    <3> HIDE DEF C
    <3>8. Len(Original) + Len(B1) = f
        BY <2>2, <3>4, <3>5
    <3>9. \A i \in 1 .. f : C[i] = IF i <= offset THEN Original[i] ELSE B1[i - offset]
        BY <3>4, <3>7, <3>8
    <3>10. ASSUME NEW i \in 1 .. f PROVE V[i] = C[i]
      <4>1. i \in Int /\ V[i] = <<i - 1, sent[i]>>
          BY <2>2, <3>1
      <4>2. CASE i <= offset
        <5>1. i \in 1 .. offset
            BY <2>2, <4>2
        <5>2. C[i] = <<i - 1, "data">> /\ sent[i] = "data"
            BY Zenon, <3>6, <3>9, <4>2, <5>1 DEF Original
        <5> QED
            BY <4>1, <5>2
      <4>3. CASE i > offset
        <5>1. i - offset \in 1 .. f - offset /\ ~(i <= offset) /\ offset + (i - offset) - 1 = i - 1
            BY <2>2, <4>3
        <5>2. C[i] = B1[i - offset] /\ sent[i] = bufferData[i - offset]
            BY <3>6, <3>9, <5>1
        <5>3. B1[i - offset] = <<i - 1, bufferData[i - offset]>>
            BY <3>2, <5>1
        <5> QED
            BY <4>1, <5>2, <5>3
      <4> QED
          BY <2>2, <4>1, <4>2, <4>3
    <3>11. V \in Seq(S) /\ Len(V) = f
      <4>1. \A i \in 1 .. f : C[i] \in S
          BY <3>7, <3>8
      <4>2. V = [i \in 1 .. f |-> C[i]]
          BY <3>1, <3>10
      <4> QED
          BY <2>2, <4>1, <4>2
    <3>12. V = C
        BY ZenonT(30), <3>7, <3>8, <3>10, <3>11, SeqEqual
    <3> QED
        BY <3>12 DEF V, C
  <2>9. Whole = (Original \o B1) \o B2
      BY DEF Whole, f, t, n, d
  <2> QED
      BY Zenon, <2>1, <2>5, <2>7, <2>8, <2>9
<1> QED
    BY <1>1, SInvAlways, PTL

\* The bytes of a finished file that are Contents are those in the Contents of a
\* signature.
LEMMA WrittenContents ==
    ASSUME SInv, written
    PROVE  /\ DOMAIN sent = 1 .. offset + Len(bufferData)
           /\ \A i \in 1 .. offset + Len(bufferData) :
                sent[i] = "contents" <=>
                    \E j \in 1 .. Len(sigs) : From(sigDicts[j]) < i /\ i <= To(sigDicts[j])
<1> DEFINE n == Len(bufferData)
<1>1. Typed /\ Laid /\ Filled(Len(sigs)) /\ sent = OldBytes \o bufferData
    BY DEF SInv
<1>2. offset \in Nat /\ n \in Nat /\ bufferData \in Seq(Kinds) /\ Len(sigDicts) = Len(sigs)
    BY <1>1 DEF Typed, Laid
<1>3. OldBytes \in Seq(Kinds) /\ Len(OldBytes) = offset /\ \A i \in 1 .. offset : OldBytes[i] = "data"
    BY <1>2 DEF OldBytes, Kinds
<1>4. /\ sent \in Seq(Kinds) /\ Len(sent) = Len(OldBytes) + Len(bufferData)
      /\ \A i \in 1 .. Len(OldBytes) + Len(bufferData) :
           sent[i] = IF i <= Len(OldBytes) THEN OldBytes[i] ELSE bufferData[i - Len(OldBytes)]
    BY Zenon, <1>1, <1>2, <1>3, ConcatProperties
<1>5. DOMAIN sent = 1 .. offset + n
    BY <1>3, <1>4
<1>6. ASSUME NEW i \in 1 .. offset + n
      PROVE  sent[i] = "contents" <=>
                 \E j \in 1 .. Len(sigs) : From(sigDicts[j]) < i /\ i <= To(sigDicts[j])
  <2>1. ASSUME NEW j \in 1 .. Len(sigs)
        PROVE  From(sigDicts[j]) \in Nat /\ To(sigDicts[j]) \in Nat /\ offset < From(sigDicts[j])
    <3>1. /\ From(sigDicts[j]) \in Nat /\ To(sigDicts[j]) \in Nat /\ sigDicts[j].fileOffset \in Nat
          /\ offset < sigDicts[j].fileOffset /\ sigDicts[j].fileOffset < From(sigDicts[j])
        BY <1>1, <1>2, Places DEF Laid
    <3> QED
        BY <1>2, <3>1
  <2>2. i \in Int
      BY <1>2
  <2>3. CASE i <= offset
    <3>1. i \in 1 .. offset
        BY <1>2, <2>3
    <3>2. sent[i] = "data"
        BY ZenonT(30), <1>3, <1>4, <2>3, <3>1
    <3>3. ASSUME NEW j \in 1 .. Len(sigs) PROVE ~(From(sigDicts[j]) < i)
        BY <1>2, <2>1, <2>2, <2>3
    <3> QED
        BY <3>2, <3>3
  <2>4. CASE i > offset
    <3>1. i - offset \in 1 .. n
        BY <1>2, <2>2, <2>4
    <3>2. sent[i] = bufferData[i - offset]
        BY <1>2, <1>3, <1>4, <2>4
    <3>3. sent[i] = "contents" <=> \E j \in 1 .. Len(sigs) : i - offset \in ContentsBytes(sigDicts[j])
        BY <1>1, <3>1, <3>2 DEF Filled
    <3>4. ASSUME NEW j \in 1 .. Len(sigs)
          PROVE  i - offset \in ContentsBytes(sigDicts[j]) <=> From(sigDicts[j]) < i /\ i <= To(sigDicts[j])
      <4>1. From(sigDicts[j]) \in Nat /\ To(sigDicts[j]) \in Nat
          BY <2>1
      <4> QED
          BY <1>2, <2>2, <4>1 DEF ContentsBytes
    <3> QED
        BY <3>3, <3>4
  <2> QED
      BY <1>2, <2>2, <2>3, <2>4
<1> QED
    BY <1>5, <1>6

\* The ByteRange of a written revision names every byte of the file but those of the
\* Contents, in ascending order, whatever the number of signatures in the revision.
THEOREM ByteRangeExactAlways == ASSUME Bounded PROVE SignSpec => []ByteRangeExact
<1>1. SInv => ByteRangeExact
  <2> SUFFICES ASSUME SInv, written
               PROVE  /\ UNION {Covered(byteRange[j]) : j \in DOMAIN byteRange}
                           = {i \in DOMAIN sent : sent[i] # "contents"}
                      /\ \A i, j \in DOMAIN byteRange :
                           \A a \in Covered(byteRange[i]), b \in Covered(byteRange[j]) : i < j => a < b
      BY DEF ByteRangeExact
  <2> DEFINE N == Len(sigs)
             T == offset + Len(bufferData)
             f(j) == From(sigDicts[j])
             g(j) == To(sigDicts[j])
             last(j) == IF j = 0 THEN 0 ELSE g(j)
             next(j) == IF j > N THEN T ELSE f(j)
  <2>1. Typed /\ Laid /\ byteRange = Ranges(sigDicts, T) /\ Len(sigDicts) = N
      BY DEF SInv, Laid
  <2>2. N \in Nat /\ T \in Nat /\ offset \in Nat
      BY <2>1 DEF Typed, Laid
  <2>3. ASSUME NEW j \in 1 .. N PROVE f(j) \in Nat /\ g(j) \in Nat /\ 0 < f(j) /\ f(j) < g(j) /\ g(j) < T
    <3>1. /\ f(j) \in Nat /\ g(j) \in Nat /\ sigDicts[j].fileOffset \in Nat
          /\ offset < sigDicts[j].fileOffset /\ sigDicts[j].fileOffset < f(j) /\ f(j) < g(j) /\ g(j) < T
        BY ZenonT(30), <2>1, Places DEF Laid
    <3> HIDE DEF T, f, g
    <3> QED
        BY SMTT(40), <2>2, <3>1
  <2>4. ASSUME NEW i \in 1 .. N, NEW j \in 1 .. N, i < j PROVE g(i) < f(j)
    <3> DEFINE a == sigDicts[i].fileOffset
               b == sigDicts[i].byteRangeOffsetStart
               c == sigDicts[i].byteRangeOffsetEnd
               e == sigDicts[j].fileOffset
    <3>1. a \in Nat /\ b \in Nat /\ c \in Nat /\ e \in Nat /\ g(i) \in Nat /\ f(j) \in Nat
        BY <2>1, Places
    <3>2. g(i) <= a + b /\ b <= c /\ a + c < e /\ e < f(j)
        BY <2>1, <2>4 DEF Laid
    <3> HIDE DEF a, b, c, e, f, g
    <3> QED
        BY <3>1, <3>2
  <2>5. DOMAIN byteRange = 1 .. N + 1 /\ \A j \in 1 .. N + 1 : byteRange[j] = <<last(j - 1), next(j) - last(j - 1)>>
    <3> HIDE DEF T
    <3> QED
        BY <2>1 DEF Ranges
  <2>6. /\ DOMAIN sent = 1 .. T
        /\ \A i \in 1 .. T : sent[i] = "contents" <=> \E j \in 1 .. N : f(j) < i /\ i <= g(j)
      BY WrittenContents
  <2> HIDE DEF N, T, f, g
  <2>7. ASSUME NEW j \in 1 .. N + 1 PROVE last(j - 1) \in Nat /\ next(j) \in Nat /\ last(j - 1) <= next(j) /\ next(j) <= T
    <3>1. j \in Nat /\ (j # 1 => j - 1 \in 1 .. N) /\ (j <= N => j \in 1 .. N) /\ (j = 1 <=> j - 1 = 0)
        BY <2>2
    <3>2. j # 1 => g(j - 1) \in Nat /\ g(j - 1) < T
        BY <2>3, <3>1
    <3>3. j <= N => f(j) \in Nat /\ f(j) < T /\ (j # 1 => g(j - 1) < f(j))
      <4>1. j # 1 => j - 1 < j
          BY <3>1
      <4>2. j <= N => f(j) \in Nat /\ f(j) < g(j) /\ g(j) < T /\ g(j) \in Nat
          BY <2>3, <3>1
      <4>3. j <= N /\ j # 1 => g(j - 1) < f(j)
          BY <2>4, <3>1, <4>1
      <4> QED
          BY <2>2, <4>2, <4>3
    <3> QED
        BY <2>2, <3>1, <3>2, <3>3
  <2> HIDE DEF last, next
  <2>8. ASSUME NEW j \in 1 .. N + 1
        PROVE  Covered(byteRange[j]) = {i \in Nat : last(j - 1) < i /\ i <= next(j)}
    <3>1. PICK u \in Nat, v \in Nat : u = last(j - 1) /\ v = next(j) /\ u <= v /\ byteRange[j] = <<u, v - u>>
        BY <2>5, <2>7
    <3>2. Covered(byteRange[j]) = {i + 1 : i \in u .. u + (v - u) - 1}
        BY <3>1 DEF Covered
    <3>3. ASSUME NEW x \in Nat, u < x, x <= v PROVE \E i \in u .. u + (v - u) - 1 : x = i + 1
      <4>1. x - 1 \in u .. u + (v - u) - 1 /\ x = (x - 1) + 1
          BY <3>3
      <4> QED
          BY <4>1
    <3>4. ASSUME NEW i \in u .. u + (v - u) - 1 PROVE i + 1 \in Nat /\ u < i + 1 /\ i + 1 <= v
        BY <3>1
    <3>5. {i + 1 : i \in u .. u + (v - u) - 1} = {x \in Nat : u < x /\ x <= v}
        BY <3>3, <3>4
    <3> QED
        BY <3>1, <3>2, <3>5
  <2>9. ASSUME NEW i \in 1 .. N + 1, NEW j \in 1 .. N + 1, i < j PROVE next(i) < last(j - 1)
    <3>1. i \in 1 .. N /\ j - 1 \in 1 .. N /\ i <= j - 1 /\ ~(i > N) /\ j - 1 # 0
        BY <2>2, <2>9
    <3>2. next(i) = f(i) /\ last(j - 1) = g(j - 1)
        BY <3>1 DEF next, last
    <3>3. /\ f(i) \in Nat /\ g(i) \in Nat /\ f(i) < g(i)
          /\ f(j - 1) \in Nat /\ g(j - 1) \in Nat /\ f(j - 1) < g(j - 1)
        BY <2>3, <3>1
    <3>4. i < j - 1 => g(i) < f(j - 1)
        BY <2>4, <3>1
    <3>5. i = j - 1 => f(i) = f(j - 1)
        OBVIOUS
    <3>6. i < j - 1 \/ i = j - 1
        BY <2>2, <3>1
    <3> QED
        BY SMTT(40), <3>2, <3>3, <3>4, <3>5, <3>6
  <2>10. ASSUME NEW j \in 1 .. N + 1, NEW x \in Nat, last(j - 1) < x, x <= next(j)
         PROVE  x \in 1 .. T /\ sent[x] # "contents"
    <3>1. x \in 1 .. T
        BY <2>2, <2>7, <2>10
    <3>2. ASSUME NEW m \in 1 .. N, f(m) < x, x <= g(m) PROVE FALSE
      <4>1. f(m) \in Nat /\ g(m) \in Nat /\ f(m) < g(m) /\ m \in Nat /\ j \in Nat /\ m \in 1 .. N + 1
          BY <2>2, <2>3
      <4>2. CASE m < j
        <5>1. m + 1 \in 1 .. N + 1 /\ (m + 1) - 1 = m /\ m # 0
            BY <2>2, <4>1
        <5>2. last((m + 1) - 1) = g(m)
            BY <5>1 DEF last
        <5>3. CASE m + 1 = j
            BY SMTT(40), <2>10, <3>2, <4>1, <5>2, <5>3
        <5>4. CASE m + 1 < j
          <6>1. next(m + 1) < last(j - 1) /\ last((m + 1) - 1) <= next(m + 1) /\ next(m + 1) \in Nat /\ last(j - 1) \in Nat
              BY Zenon, <2>7, <2>9, <5>1, <5>4
          <6> QED
              BY SMTT(40), <2>10, <3>2, <4>1, <5>2, <6>1
        <5> QED
            BY <4>1, <4>2, <5>3, <5>4
      <4>3. CASE ~(m < j)
        <5>1. j \in 1 .. N /\ ~(j > N)
            BY SMTT(40), <2>2, <4>1, <4>3
        <5>2. next(j) = f(j) /\ f(j) \in Nat /\ g(j) \in Nat /\ f(j) < g(j)
            BY <2>3, <5>1 DEF next
        <5>3. j < m => g(j) < f(m)
            BY <2>4, <5>1
        <5>4. j = m => f(j) = f(m)
            OBVIOUS
        <5>5. j < m \/ j = m
            BY <4>1, <4>3
        <5> QED
            BY SMTT(40), <2>10, <3>2, <4>1, <5>2, <5>3, <5>4, <5>5
      <4> QED
          BY <4>2, <4>3
    <3> QED
        BY <2>6, <3>1, <3>2
  <2>11. ASSUME NEW x \in 1 .. T, sent[x] # "contents"
         PROVE  \E j \in 1 .. N + 1 : last(j - 1) < x /\ x <= next(j)
    <3> DEFINE S == {j \in 1 .. N + 1 : x <= next(j)}
    <3>1. N + 1 \in S
      <4>1. N + 1 \in 1 .. N + 1 /\ N + 1 > N
          BY <2>2
      <4> QED
          BY <2>2, <4>1 DEF next
    <3>2. S \in SUBSET Nat
        BY <2>2
    <3>3. PICK j \in S : \A m \in S : j <= m
      <4> HIDE DEF S
      <4> QED
          BY <3>1, <3>2, LeastNumber
    <3>4. x \in Nat /\ j \in Nat /\ j \in 1 .. N + 1 /\ x <= next(j)
        BY <2>2, <3>2, <3>3
    <3>5. CASE j = 1
      <4>1. last(j - 1) = 0
          BY <3>5 DEF last
      <4>2. last(j - 1) < x
          BY SMTT(40), <2>2, <4>1
      <4> QED
          BY <3>4, <4>2
    <3>6. CASE j # 1
      <4>1. j - 1 \in 1 .. N /\ j - 1 \in 1 .. N + 1 /\ ~(j <= j - 1) /\ ~(j - 1 > N) /\ j - 1 # 0
          BY <2>2, <3>4, <3>6
      <4>2. ~(x <= next(j - 1))
          BY <3>3, <4>1
      <4>3. next(j - 1) = f(j - 1) /\ last(j - 1) = g(j - 1)
          BY <4>1 DEF next, last
      <4>4. f(j - 1) \in Nat /\ g(j - 1) \in Nat
          BY <2>3, <4>1
      <4>5. ~(f(j - 1) < x /\ x <= g(j - 1))
          BY SMTT(40), <2>6, <2>11, <4>1
      <4>6. last(j - 1) < x
          BY SMTT(40), <3>4, <4>2, <4>3, <4>4, <4>5
      <4> QED
          BY <3>4, <4>6
    <3> QED
        BY <3>5, <3>6
  <2>12. UNION {Covered(byteRange[j]) : j \in DOMAIN byteRange} = {i \in DOMAIN sent : sent[i] # "contents"}
    <3>1. ASSUME NEW x, x \in UNION {Covered(byteRange[j]) : j \in DOMAIN byteRange}
          PROVE  x \in 1 .. T /\ sent[x] # "contents"
        BY ZenonT(30), <2>5, <2>8, <2>10, <3>1
    <3>2. ASSUME NEW x \in 1 .. T, sent[x] # "contents"
          PROVE  x \in UNION {Covered(byteRange[j]) : j \in DOMAIN byteRange}
      <4>1. x \in Nat
          BY <2>2
      <4> QED
          BY SMTT(40), <2>5, <2>8, <2>11, <3>2, <4>1
    <3> QED
        BY SMTT(40), <2>6, <3>1, <3>2
  <2>13. ASSUME NEW i \in DOMAIN byteRange, NEW j \in DOMAIN byteRange,
                NEW a \in Covered(byteRange[i]), NEW b \in Covered(byteRange[j]), i < j
         PROVE  a < b
    <3>1. i \in 1 .. N + 1 /\ j \in 1 .. N + 1
        BY <2>5
    <3>2. a \in Nat /\ a <= next(i) /\ b \in Nat /\ last(j - 1) < b
        BY <2>8, <3>1
    <3>3. next(i) < last(j - 1) /\ next(i) \in Nat /\ last(j - 1) \in Nat
        BY <2>7, <2>9, <2>13, <3>1
    <3> QED
        BY <3>2, <3>3
  <2> QED
      BY <2>12, <2>13
<1> QED
    BY <1>1, SInvAlways, PTL

\* Both at once: what Write promises of the signatures of a revision, however many
\* there are and whatever earlier calls have failed at.
THEOREM SignedWholeAlways == ASSUME Bounded PROVE SignSpec => []SignedWhole
  <1>1. ByteRangeExact /\ SoleSignatureValid => SignedWhole  BY DEF SignedWhole
  <1> QED  BY <1>1, ByteRangeExactAlways, SoleSignatureValidAlways, PTL

-----------------------------------------------------------------------------
\* The pages of the two readers exist; the list holds pages that exist, and one of the
\* reader only once it is a new object; pages of the read-only reader are as they were.
ListOK ==
    /\ {Ro(i) : i \in Source} \cup {Rd(i) : i \in Source} \subseteq DOMAIN body
    /\ DOMAIN body \subseteq Page
    /\ pages \in Seq(DOMAIN body)
    /\ \A n \in DOMAIN pages, i \in Source : pages[n] = Rd(i) => i \in newObjects
    /\ ReadOnlyUntouched

\* A list without one of its elements holds no others.
LEMMA Removed ==
    ASSUME NEW S, NEW s \in Seq(S), NEW n \in 1 .. Len(s)
    PROVE  LET r == SubSeq(s, 1, n - 1) \o SubSeq(s, n + 1, Len(s))
           IN  r \in Seq(S) /\ Range(r) \subseteq Range(s)
  <1>1. PICK a : a = SubSeq(s, 1, n - 1)  BY Zenon
  <1>2. PICK b : b = SubSeq(s, n + 1, Len(s))  BY Zenon
  <1>3. a \in Seq(S) /\ Len(a) = n - 1 /\ \A i \in 1 .. n - 1 : a[i] = s[i]  BY <1>1
  <1>4. b \in Seq(S) /\ Len(b) = Len(s) - n /\ \A i \in 1 .. Len(s) - n : b[i] = s[n + i]  BY <1>2
  <1>5. DOMAIN a = 1 .. n - 1 /\ DOMAIN b = 1 .. Len(s) - n /\ DOMAIN s = 1 .. Len(s)  BY <1>3, <1>4
  <1>6. Range(a) \subseteq Range(s)
    <2>1. \A i \in DOMAIN a : i \in DOMAIN s /\ a[i] = s[i]  BY <1>3, <1>5
    <2> QED  BY <2>1 DEF Range
  <1>7. Range(b) \subseteq Range(s)
    <2>1. \A i \in DOMAIN b : n + i \in DOMAIN s /\ b[i] = s[n + i]  BY <1>4, <1>5
    <2> QED  BY <2>1 DEF Range
  <1>8. a \o b \in Seq(S) /\ Range(a \o b) = Range(a) \cup Range(b)
    BY <1>3, <1>4, ConcatProperties, RangeConcatenation
  <1> QED  BY <1>1, <1>2, <1>6, <1>7, <1>8

\* The edits keep ListOK: the pages that are edited in place are none of the read-only
\* reader's, and a copy is a page of its own.
LEMMA ListKept ==
    ASSUME NumPages \in Nat, MaxOps \in Nat, ops \in Nat, ListOK, PagesNext
    PROVE  ListOK'
  <1>1. \A i, j : Ro(i) # Rd(j) /\ Ro(i) # Dup(j) /\ Rd(i) # Dup(j) /\ (Rd(i) = Rd(j) => i = j)
    BY DEF Ro, Rd, Dup
  <1>2. pages \in Seq(DOMAIN body) /\ Len(pages) \in Nat /\ DOMAIN pages = 1 .. Len(pages)  BY DEF ListOK
  <1>3. ASSUME NEW b, body' = WithCopy(b), ops < MaxOps
        PROVE  /\ New \in DOMAIN body' /\ DOMAIN body \subseteq DOMAIN body' /\ DOMAIN body' \subseteq Page
               /\ pages \in Seq(DOMAIN body')
               /\ \A i \in Source : body'[Ro(i)] = body[Ro(i)]
    <2>1. DOMAIN body' = DOMAIN body \cup {New}  BY <1>3 DEF WithCopy
    <2>2. New \in Page
      <3>1. ops + 1 \in 1 .. MaxOps  BY <1>3
      <3> QED  BY <3>1 DEF New, Page
    <2>3. \A i \in Source : Ro(i) \in DOMAIN body /\ Ro(i) # New  BY <1>1 DEF ListOK, New
    <2> QED  BY <1>2, <1>3, <2>1, <2>2, <2>3, SeqMonotonic DEF ListOK, WithCopy
  <1>4. ASSUME NEW n \in DOMAIN pages, NEW p, p \in DOMAIN body', DOMAIN body \subseteq DOMAIN body',
               pages' = [pages EXCEPT ![n] = p]
        PROVE  pages' \in Seq(DOMAIN body') /\ DOMAIN pages' = DOMAIN pages
    <2>1. pages \in Seq(DOMAIN body')  BY <1>2, <1>4, SeqMonotonic
    <2> QED  BY <1>2, <1>4, <2>1, ExceptSeq
  <1>5. CASE \E f \in Foreign : AddPages(f)
    <2>1. PICK f \in Foreign : AddPages(f)  BY <1>5
    <2>2. pages' = Append(pages, New) /\ body' = WithCopy(Plain(f)) /\ newObjects' = newObjects /\ ops < MaxOps
      BY <2>1 DEF AddPages, Edit
    <2>3. pages' \in Seq(DOMAIN body')  BY <1>3, <2>2, AppendProperties
    <2>4. \A n \in DOMAIN pages' : (n \in DOMAIN pages /\ pages'[n] = pages[n]) \/ pages'[n] = New
      BY <1>2, <2>2
    <2> QED  BY Zenon, <1>1, <1>3, <2>2, <2>3, <2>4 DEF ListOK, New, ReadOnlyUntouched
  <1>6. CASE \E n \in 1 .. NumPages + MaxOps : RemovePage(n)
    <2>1. PICK n \in 1 .. NumPages + MaxOps : RemovePage(n)  BY <1>6
    <2>2. n \in DOMAIN pages /\ UNCHANGED <<body, newObjects>> /\ pages' = SubSeq(pages, 1, n - 1) \o SubSeq(pages, n + 1, Len(pages))
      BY <2>1 DEF RemovePage
    <2>4. pages' \in Seq(DOMAIN body) /\ Range(pages') \subseteq Range(pages)  BY <1>2, <2>2, Removed
    <2>5. \A m \in DOMAIN pages' : \E q \in DOMAIN pages : pages'[m] = pages[q]
      BY Zenon, <2>4 DEF Range
    <2>6. \A m \in DOMAIN pages', i \in Source : pages'[m] = Rd(i) => i \in newObjects'
      BY Zenon, <2>2, <2>5 DEF ListOK
    <2> QED  BY Zenon, <2>2, <2>4, <2>6 DEF ListOK, ReadOnlyUntouched
  <1>7. CASE \E n \in 1 .. NumPages + MaxOps : SignPage(n)
    <2>1. PICK n \in 1 .. NumPages + MaxOps : SignPage(n)  BY <1>7
    <2>2. /\ n \in DOMAIN pages /\ n \in Source
          /\ body' = [body EXCEPT ![Rd(n)].added = @ \cup {ops + 1}]
          /\ newObjects' = newObjects \cup {n} /\ pages' = [pages EXCEPT ![n] = Rd(n)]
      BY <2>1 DEF SignPage
    <2>3. DOMAIN body' = DOMAIN body /\ Rd(n) \in DOMAIN body  BY <2>2 DEF ListOK
    <2>4. \A i \in Source : body'[Ro(i)] = body[Ro(i)]  BY <1>1, <2>2, <2>3 DEF ListOK
    <2>5. pages' \in Seq(DOMAIN body') /\ DOMAIN pages' = DOMAIN pages  BY Zenon, <1>4, <2>2, <2>3
    <2>6. \A m \in DOMAIN pages', i \in Source : pages'[m] = Rd(i) => i \in newObjects'
      BY <1>1, <2>2, <2>5 DEF ListOK
    <2> QED  BY <2>3, <2>4, <2>5, <2>6 DEF ListOK, ReadOnlyUntouched
  <1>8. CASE \E n \in 1 .. NumPages + MaxOps, f \in Foreign : ReplacePage(n, f)
    <2>1. PICK n \in 1 .. NumPages + MaxOps, f \in Foreign : ReplacePage(n, f)  BY <1>8
    <2>2. /\ n \in DOMAIN pages /\ pages' = [pages EXCEPT ![n] = New] /\ body' = WithCopy(Plain(f))
          /\ newObjects' = newObjects /\ ops < MaxOps
      BY <2>1 DEF ReplacePage, Edit
    <2>3. pages' \in Seq(DOMAIN body') /\ DOMAIN pages' = DOMAIN pages  BY <1>3, <1>4, <2>2
    <2>4. \A m \in DOMAIN pages', i \in Source : pages'[m] = Rd(i) => i \in newObjects'
      BY Zenon, <1>1, <2>2, <2>3 DEF ListOK, New
    <2> QED  BY <1>3, <2>2, <2>3, <2>4 DEF ListOK, ReadOnlyUntouched
  <1>9. CASE \E n \in 1 .. NumPages + MaxOps, f \in Foreign : MergePageWith(n, f)
    <2>1. PICK n \in 1 .. NumPages + MaxOps, f \in Foreign : MergePageWith(n, f)  BY <1>9
    <2>2. n \in DOMAIN pages /\ newObjects' = newObjects /\ ops < MaxOps  BY <2>1 DEF MergePageWith, Edit
    <2>3. CASE pages[n] \in {Ro(i) : i \in Source}
      <3>1. /\ pages' = [pages EXCEPT ![n] = New]
            /\ body' = WithCopy([body[pages[n]] EXCEPT !.added = @ \cup {f}])
        BY <2>1, <2>3 DEF MergePageWith
      <3>2. pages' \in Seq(DOMAIN body') /\ DOMAIN pages' = DOMAIN pages  BY Zenon, <1>3, <1>4, <2>2, <3>1
      <3>3. \A m \in DOMAIN pages', i \in Source : pages'[m] = Rd(i) => i \in newObjects'
        BY Zenon, <1>1, <2>2, <3>1, <3>2 DEF ListOK, New
      <3> QED  BY Zenon, <1>3, <2>2, <3>1, <3>2, <3>3 DEF ListOK, ReadOnlyUntouched
    <2>4. CASE pages[n] \notin {Ro(i) : i \in Source}
      <3>1. pages' = pages /\ body' = [body EXCEPT ![pages[n]].added = @ \cup {f}]
        BY <2>1, <2>4 DEF MergePageWith
      <3>2. DOMAIN body' = DOMAIN body  BY <3>1
      <3>3. \A i \in Source : body'[Ro(i)] = body[Ro(i)]  BY <2>4, <3>1 DEF ListOK
      <3> QED  BY <2>2, <3>1, <3>2, <3>3 DEF ListOK, ReadOnlyUntouched
    <2> QED  BY <2>3, <2>4
  <1>10. CASE WritePages  BY <1>10 DEF WritePages, ListOK, ReadOnlyUntouched
  <1> QED  BY <1>5, <1>6, <1>7, <1>8, <1>9, <1>10 DEF PagesNext

\* What holds of the appender: a written document has the pages of its list.
PInv == ops \in Nat /\ ListOK /\ PagesWritten

\* PInv is inductive.
LEMMA PInvAlways == ASSUME NumPages \in Nat, MaxOps \in Nat PROVE PagesSpec => []PInv
  <1>1. PagesInit => PInv
    <2> SUFFICES ASSUME PagesInit PROVE PInv  OBVIOUS
    <2>1. DOMAIN body = {Ro(i) : i \in Source} \cup {Rd(i) : i \in Source}  BY DEF PagesInit
    <2>2. pages \in Seq(DOMAIN body) /\ DOMAIN pages = Source /\ \A i \in Source : pages[i] = Ro(i)
      <3>1. pages \in [1 .. NumPages -> DOMAIN body]  BY <2>1 DEF PagesInit, Source
      <3> QED  BY <3>1 DEF PagesInit, Source
    <2>3. \A i \in Source : body[Ro(i)] = Plain(i)
      <3>1. \A i : Ro(i)[2] = i  BY DEF Ro
      <3> QED  BY <2>1, <3>1 DEF PagesInit
    <2>4. \A i, j : Ro(i) # Rd(j)  BY DEF Ro, Rd
    <2>5. DOMAIN body \subseteq Page  BY <2>1 DEF Page
    <2>6. ListOK  BY <2>1, <2>2, <2>3, <2>4, <2>5 DEF ListOK, ReadOnlyUntouched
    <2> QED  BY <2>6 DEF PInv, PagesWritten, PagesInit
  <1>2. PInv /\ [PagesNext]_pagesVars => PInv'
    <2> SUFFICES ASSUME PInv, [PagesNext]_pagesVars PROVE PInv'  OBVIOUS
    <2>1. ops \in Nat /\ ListOK /\ PagesWritten  BY DEF PInv
    <2>2. CASE UNCHANGED pagesVars
      BY <2>1, <2>2 DEF pagesVars, PInv, ListOK, ReadOnlyUntouched, PagesWritten
    <2>3. CASE WritePages
      <3>1. ListOK'  BY <2>1, <2>3, ListKept DEF PagesNext
      <3>2. UNCHANGED <<pages, body, newObjects, ops>>  BY <2>3 DEF WritePages
      <3> SUFFICES ASSUME \A i \in newObjects : Ro(i) \notin Range(pages)
                   PROVE  tree' = [i \in DOMAIN pages |-> body[pages[i]]]
        BY <2>1, <3>1, <3>2 DEF PInv, PagesWritten
      <3>3. \A n \in DOMAIN pages : pages[n] \in Range(pages)  BY DEF Range
      <3>4. pages \in Seq(DOMAIN body) /\ DOMAIN pages = 1 .. Len(pages) /\ Len(pages) \in Nat  BY <2>1 DEF ListOK
      <3>5. ASSUME NEW n \in DOMAIN pages PROVE Shown(pages[n]) = body[pages[n]]
        <4>1. pages[n] \in Page  BY <2>1, <3>4 DEF ListOK
        <4>2. CASE \E i \in Source : pages[n] = Ro(i)
          <5>1. PICK i \in Source : pages[n] = Ro(i)  BY <4>2
          <5>2. Ro(i)[1] = "ro" /\ Ro(i)[2] = i  BY DEF Ro
          <5>3. i \notin newObjects  BY <3>3, <5>1
          <5> QED  BY <2>1, <5>1, <5>2, <5>3 DEF Shown, ListOK, ReadOnlyUntouched
        <4>3. CASE \E i \in Source : pages[n] = Rd(i)
          <5>1. PICK i \in Source : pages[n] = Rd(i)  BY <4>3
          <5>2. Rd(i)[1] = "rd" /\ Rd(i)[2] = i  BY DEF Rd
          <5>3. i \in newObjects  BY <2>1, <5>1 DEF ListOK
          <5> QED  BY <5>1, <5>2, <5>3 DEF Shown
        <4>4. CASE \E q \in 1 .. MaxOps : pages[n] = Dup(q)
          <5>1. pages[n][1] = "dup"  BY <4>4 DEF Dup
          <5> QED  BY <5>1 DEF Shown
        <4> QED  BY <4>1, <4>2, <4>3, <4>4 DEF Page
      <3>6. CASE PagesChanged
        <4>1. tree' = [i \in DOMAIN pages |-> Shown(pages[i])]  BY <2>3, <3>6 DEF WritePages
        <4> QED  BY <3>5, <4>1
      <3>7. CASE ~PagesChanged
        <4>1. tree' = [i \in Source |-> Shown(Ro(i))]  BY SMTT(40), <2>3, <3>7 DEF WritePages
        <4>2. DOMAIN pages = Source /\ \A i \in Source : pages[i] = Ro(i) \/ pages[i] = Rd(i)
          BY Zenon, <3>4, <3>7 DEF PagesChanged, Source
        <4>3. \A i \in Source : Shown(Rd(i)) = Shown(Ro(i))
          <5>1. \A i : Ro(i)[1] = "ro" /\ Ro(i)[2] = i /\ Rd(i)[1] = "rd" /\ Rd(i)[2] = i  BY DEF Ro, Rd
          <5> QED  BY <5>1 DEF Shown
        <4>4. \A i \in Source : Shown(Ro(i)) = body[pages[i]]  BY <3>5, <4>2, <4>3
        <4> QED  BY <4>1, <4>2, <4>4
      <3> QED  BY <3>6, <3>7
    <2>4. CASE PagesNext /\ ~WritePages
      <3>1. ops' \in Nat /\ ~done'
        <4>1. Edit  BY <2>4, Zenon DEF PagesNext, AddPages, RemovePage, SignPage, ReplacePage, MergePageWith
        <4> QED  BY <2>1, <4>1 DEF Edit
      <3>2. ListOK'  BY <2>1, <2>4, ListKept
      <3> QED  BY <3>1, <3>2 DEF PInv, PagesWritten
    <2> QED  BY <2>2, <2>3, <2>4
  <1> QED  BY <1>1, <1>2, PTL DEF PagesSpec

\* Whatever edits come before it, and for any number of pages, Write leaves the pages of
\* the appender's list as the edits left them, also where it keeps the old page tree.
THEOREM PagesWrittenAlways == ASSUME NumPages \in Nat, MaxOps \in Nat PROVE PagesSpec => []PagesWritten
  <1>1. PInv => PagesWritten  BY DEF PInv
  <1> QED  BY <1>1, PInvAlways, PTL

\* No edit ever changes a page of the read-only reader.
THEOREM ReadOnlyUntouchedAlways ==
    ASSUME NumPages \in Nat, MaxOps \in Nat PROVE PagesSpec => []ReadOnlyUntouched
  <1>1. PInv => ReadOnlyUntouched  BY DEF PInv, ListOK
  <1> QED  BY <1>1, PInvAlways, PTL

\* What PagesAsEdited says of the appender's page list, in every state.
THEOREM PagesAsEditedAlways ==
    ASSUME NumPages \in Nat, MaxOps \in Nat PROVE PagesSpec => []PagesAsEdited
  <1>1. PInv => PagesAsEdited  BY DEF PInv, ListOK, PagesAsEdited
  <1> QED  BY <1>1, PInvAlways, PTL
=============================================================================

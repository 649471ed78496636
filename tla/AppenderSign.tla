---------------------------- MODULE AppenderSign ----------------------------
(***************************************************************************)
(* How PdfAppender.Write of model/appender.go signs the revision that it   *)
(* appends: the original file goes to the sent and, through a tee, into  *)
(* the digest of every signature handler; the revision is written to a     *)
(* buffer to learn where the Contents and ByteRange of each signature      *)
(* lie; the ByteRange is filled in; the bytes around the Contents go into  *)
(* the digests; each handler signs, and the buffer is copied out.          *)
(*                                                                         *)
(* A byte is its position and the kind of what is there.  A digest is the  *)
(* sequence of bytes written to it.  Each part of the revision has a size  *)
(* of at least one byte.  A step that reads or writes may fail, upon which *)
(* Write returns; it may then be called again.                             *)
(***************************************************************************)
EXTENDS Integers, Sequences, FiniteSets, Functions

CONSTANTS
    Handlers,   \* the SignatureHandler values
    MaxSigs,    \* bound: signatures in one revision
    MaxOld,     \* bound: bytes of the original file
    MaxPart,    \* bound: bytes of a Contents, and of what follows the last dictionary
    MaxEnd,     \* bound: where the last signature dictionary starts
    MaxCalls    \* bound: calls of Write

Kinds == {"data", "mock", "range", "contents"}

\* Where a signature dictionary lies and the parts in it that are filled in later.
SigDict == [handler : Handlers, fileOffset : Nat, contentsOffsetStart : Nat,
            contentsOffsetEnd : Nat, byteRangeOffsetStart : Nat, byteRangeOffsetEnd : Nat]

VARIABLES
    sigs,           \* the handlers of the signatures in a.newObjects, in order
    offset,         \* size of the original file
    written,        \* a.written
    calls,          \* calls of Write that were carried out
    stage,          \* the part of Write that is next, or "idle"
    k,              \* loop index over the signatures
    digestWriters,  \* digestWriters
    sigDicts,       \* sigDicts, with what the mock write has left in them
    bufferData,     \* bufferData: the kinds of its bytes
    byteRange,      \* byteRange as pairs of a start and a length
    prevOffset,     \* prevOffset
    signed,         \* the digest that each signature was made from
    sent            \* what has been written to w

signVars == <<sigs, offset, written, calls, stage, k, digestWriters, sigDicts, bufferData, byteRange, prevOffset, signed, sent>>

input == <<sigs, offset>>

SignTypeOK ==
    /\ sigs \in Seq(Handlers) /\ Len(sigs) \in 1 .. MaxSigs
    /\ offset \in 1 .. MaxOld
    /\ written \in BOOLEAN /\ calls \in 0 .. MaxCalls
    /\ stage \in {"idle", "copy", "mock", "ranges", "segments", "tails", "sign", "flush"}
    /\ k \in 1 .. Len(sigs) + 1
    /\ DOMAIN digestWriters \subseteq Handlers
    /\ sigDicts \in Seq(SigDict)
    /\ bufferData \in Seq(Kinds) /\ sent \in Seq(Kinds)
    /\ byteRange \in Seq(Nat \X Nat)
    /\ prevOffset \in 0 .. Len(bufferData)
    /\ Len(signed) <= Len(sigs)

-----------------------------------------------------------------------------
\* Where the Contents of a dictionary starts and ends in the file.
From(d) == d.fileOffset + d.contentsOffsetStart
To(d) == d.fileOffset + d.contentsOffsetEnd

\* The indices in the buffer, which starts at the end of the original file, of the
\* Contents and of the ByteRange of a dictionary.
ContentsBytes(d) == From(d) - offset + 1 .. To(d) - offset
RangeBytes(d) ==
    d.fileOffset - offset + d.byteRangeOffsetStart + 1 .. d.fileOffset - offset + d.byteRangeOffsetEnd

\* The bytes bufferData[a:b] as they enter a digest.
Bytes(a, b) == [i \in 1 .. b - a |-> <<offset + a + i - 1, bufferData[a + i]>>]

SignInit ==
    /\ sigs \in UNION {[1 .. n -> Handlers] : n \in 1 .. MaxSigs}
    /\ offset \in 1 .. MaxOld
    /\ written = FALSE /\ calls = 0 /\ stage = "idle" /\ k = 1
    /\ digestWriters = << >> /\ sigDicts = << >> /\ bufferData = << >> /\ byteRange = << >>
    /\ prevOffset = 0 /\ signed = << >> /\ sent = << >>

\* The first part of Write: refused once written; a new digest for every handler.
StartWrite ==
    /\ stage = "idle" /\ calls < MaxCalls
    /\ ~written
    /\ calls' = calls + 1 /\ stage' = "copy"
    /\ digestWriters' = [h \in Range(sigs) |-> << >>]
    /\ sigDicts' = << >> /\ bufferData' = << >> /\ byteRange' = << >>
    /\ prevOffset' = 0 /\ signed' = << >> /\ sent' = << >>
    /\ UNCHANGED <<input, written, k>>

\* A copy, the mock write or Sign fails, and Write returns.
Fail ==
    /\ stage \in {"copy", "mock", "sign", "flush"}
    /\ stage' = "idle" /\ k' = 1
    /\ UNCHANGED <<input, written, calls, digestWriters, sigDicts, bufferData, byteRange, prevOffset, signed, sent>>

\* The original file is copied to w, and by the tee into all digests.
CopyOriginal ==
    /\ stage = "copy"
    /\ sent' = [i \in 1 .. offset |-> "data"]
    /\ digestWriters' = [h \in DOMAIN digestWriters |-> [i \in 1 .. offset |-> <<i - 1, "data">>]]
    /\ stage' = "mock"
    /\ UNCHANGED <<input, written, calls, k, sigDicts, bufferData, byteRange, prevOffset, signed>>

\* The dictionaries in a revision where that of signature j starts at start[j].
\* WriteString puts one byte before the gap[j] bytes of the Contents here, and one
\* between it and the ByteRange, which was set last and has one byte more after it.
Placed(start, gap) ==
    [j \in DOMAIN sigs |->
        [handler |-> sigs[j], fileOffset |-> start[j],
         contentsOffsetStart |-> 1, contentsOffsetEnd |-> 1 + gap[j],
         byteRangeOffsetStart |-> 2 + gap[j], byteRangeOffsetEnd |-> 3 + gap[j]]]

\* The dictionaries follow each other, with something before each of them.
InOrder(start, gap) ==
    /\ \A j \in DOMAIN sigs : offset < start[j]
    /\ \A i, j \in DOMAIN sigs : i < j => start[i] + gap[i] + 4 < start[j]

\* The mock write of the objects, and the search for the signatures in writer.objects.
MockWrite ==
    /\ stage = "mock"
    /\ \E start \in [DOMAIN sigs -> 1 .. MaxEnd], gap \in [DOMAIN sigs -> 1 .. MaxPart], tail \in 1 .. MaxPart :
         /\ InOrder(start, gap)
         /\ LET d == Placed(start, gap)
                length == start[Len(d)] - offset + gap[Len(d)] + 4 + tail
                mocked == UNION {ContentsBytes(d[j]) : j \in DOMAIN d}
            IN  /\ sigDicts' = d
                /\ bufferData' = [i \in 1 .. length |-> IF i \in mocked THEN "mock" ELSE "data"]
    /\ stage' = "ranges"
    /\ UNCHANGED <<input, written, calls, k, digestWriters, byteRange, prevOffset, signed, sent>>

\* The ranges before, between and after the Contents of the signatures.
Ranges(d, total) ==
    LET last(j) == IF j = 0 THEN 0 ELSE To(d[j])
        next(j) == IF j > Len(d) THEN total ELSE From(d[j])
    IN  [j \in 1 .. Len(d) + 1 |-> <<last(j - 1), next(j) - last(j - 1)>>]

\* As SetByteRange, but the buffer is left to the loop that fills in the Contents.
SetByteRange_Late ==
    /\ stage = "ranges"
    /\ byteRange' = Ranges(sigDicts, offset + Len(bufferData))
    /\ stage' = "segments"
    /\ UNCHANGED <<input, written, calls, k, digestWriters, sigDicts, bufferData, prevOffset, signed, sent>>

\* The ByteRange is computed, and put into every dictionary in the buffer.
SetByteRange ==
    /\ stage = "ranges"
    /\ byteRange' = Ranges(sigDicts, offset + Len(bufferData))
    /\ LET ranges == UNION {RangeBytes(sigDicts[j]) : j \in DOMAIN sigDicts}
       IN  bufferData' = [i \in DOMAIN bufferData |-> IF i \in ranges THEN "range" ELSE bufferData[i]]
    /\ stage' = "segments"
    /\ UNCHANGED <<input, written, calls, k, digestWriters, sigDicts, prevOffset, signed, sent>>

\* The next step of one of the three loops over the signatures.
Proceed(loop, then) ==
    IF k < Len(sigDicts) THEN k' = k + 1 /\ stage' = loop ELSE k' = 1 /\ stage' = then

\* The bytes up to the Contents of a signature go into the digest of its handler.
DigestSegment ==
    /\ stage = "segments"
    /\ LET d == sigDicts[k]
       IN  /\ digestWriters' = [digestWriters EXCEPT ![d.handler] = @ \o Bytes(prevOffset, From(d) - offset)]
           /\ prevOffset' = To(d) - offset
    /\ Proceed("segments", "tails")
    /\ UNCHANGED <<input, written, calls, sigDicts, bufferData, byteRange, signed, sent>>

\* The bytes after the last Contents go into the digest of every signature's handler.
DigestTail ==
    /\ stage = "tails"
    /\ digestWriters' = [digestWriters EXCEPT ![sigDicts[k].handler] = @ \o Bytes(prevOffset, Len(bufferData))]
    /\ Proceed("tails", "sign")
    /\ UNCHANGED <<input, written, calls, sigDicts, bufferData, byteRange, prevOffset, signed, sent>>

\* The handler signs what its digest holds; the Contents and, once more, the
\* ByteRange are put into the buffer.
Sign ==
    /\ stage = "sign"
    /\ LET d == sigDicts[k]
       IN  /\ signed' = Append(signed, digestWriters[d.handler])
           /\ bufferData' = [i \in DOMAIN bufferData |->
                                CASE i \in RangeBytes(d) -> "range"
                                  [] i \in ContentsBytes(d) -> "contents"
                                  [] OTHER -> bufferData[i]]
    /\ Proceed("sign", "flush")
    /\ UNCHANGED <<input, written, calls, digestWriters, sigDicts, byteRange, prevOffset, sent>>

\* The buffer is copied to w.
Flush ==
    /\ stage = "flush"
    /\ sent' = sent \o bufferData
    /\ written' = TRUE /\ stage' = "idle"
    /\ UNCHANGED <<input, calls, k, digestWriters, sigDicts, bufferData, byteRange, prevOffset, signed>>

SignNext ==
    \/ StartWrite \/ Fail \/ CopyOriginal \/ MockWrite \/ SetByteRange
    \/ DigestSegment \/ DigestTail \/ Sign \/ Flush

SignSpec == SignInit /\ [][SignNext]_signVars

-----------------------------------------------------------------------------
\* The bytes of the finished file that a range of the ByteRange names.
Covered(r) == {i + 1 : i \in r[1] .. r[1] + r[2] - 1}

\* What ValidateSignatures of model/signature_handler.go writes to the digest of a
\* signature for such a range.
Validated(r) == [i \in 1 .. r[2] |-> <<r[1] + i - 1, sent[r[1] + i]>>]

\* The signature of a written revision that has one was made from exactly the bytes
\* that its ByteRange names in the finished file, so that ValidateSignatures confirms
\* it, whatever earlier calls of Write have failed at.  (Two signatures in a revision
\* get the same ByteRange, while each digest lacks the bytes before the other one.)
SoleSignatureValid ==
    written /\ Len(sigDicts) = 1 =>
        /\ Len(byteRange) = 2
        /\ signed = <<Validated(byteRange[1]) \o Validated(byteRange[2])>>

\* The ByteRange of a written revision names every byte of the file but those of the
\* Contents, in ascending order: nothing around the signatures is left unsigned and
\* none of it is named twice.
ByteRangeExact ==
    written =>
        /\ UNION {Covered(byteRange[j]) : j \in DOMAIN byteRange} = {i \in DOMAIN sent : sent[i] # "contents"}
        /\ \A i, j \in DOMAIN byteRange : \A a \in Covered(byteRange[i]), b \in Covered(byteRange[j]) :
             i < j => a < b

\* What Write promises of signatures: each ByteRange names all bytes but the
\* Contents, and a sole signature is over the bytes that a validator reads by it.
SignedWhole == ByteRangeExact /\ SoleSignatureValid
=============================================================================

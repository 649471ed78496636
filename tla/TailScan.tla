------------------------------ MODULE TailScan ------------------------------
(***************************************************************************)
(* The two searches that walk a file backwards, window by window, for the  *)
(* last occurrence of a marker: seekToEOFMarker of core/parser.go, which   *)
(* every open starts with, and repairSeekXrefMarker of core/repairs.go,    *)
(* the fallback when no cross-reference section is where it should be.     *)
(*                                                                         *)
(* A file is its size and the set of positions at which the marker occurs. *)
(***************************************************************************)
EXTENDS Integers, FiniteSets

CONSTANTS
    EofBuf,      \* window of the %%EOF search: 2048 in the code
    XrefBuf,     \* window of the xref search: 1000 in the code
    MaxSize      \* bound on the size of the files that are enumerated

ASSUME BufAssumption == EofBuf \in Nat /\ EofBuf > 4 /\ XrefBuf \in Nat /\ XrefBuf > 0
ASSUME SizeAssumption == MaxSize \in Nat

\* The parameters of the two loops: the length of the shortest match (the
\* patterns are "%%EOF?" and "\sxref\s*"), by how much a window overlaps the
\* one read before it, and how far from the start of the file the loop stops.
\* (Variant: the xref search stops where the other one does.)
XrefScan_Slack == [len |-> 5, back |-> 0, slack |-> 5, buflen |-> XrefBuf]
EOFScan  == [len |-> 4, back |-> 4, slack |-> 4, buflen |-> EofBuf]
XrefScan == [len |-> 5, back |-> 0, slack |-> 0, buflen |-> XrefBuf]

VARIABLES
    scan,      \* the parameters of the running search
    fSize,     \* size of the file
    markers,   \* where the marker starts
    offset,    \* how far from the end the next window stops
    buflen,    \* length of the next window
    pc,        \* "scan", "found" or "missed"
    result     \* where the search leaves the file position

scanVars == <<scan, fSize, markers, offset, buflen, pc, result>>

ScanTypeOK ==
    /\ scan \in {EOFScan, XrefScan}
    /\ fSize \in Nat /\ offset \in 0 .. fSize /\ buflen \in Nat \ {0} /\ result \in Nat
    /\ markers \subseteq Nat
    /\ pc \in {"scan", "found", "missed"}

\* parsePdfVersion has found the 8 bytes of the header before either search.
ScanInit ==
    /\ scan \in {EOFScan, XrefScan}
    /\ fSize \in 8 .. MaxSize
    /\ markers \in SUBSET (0 .. fSize - scan.len)
    /\ \A m, n \in markers : m < n => m + scan.len <= n
    /\ offset = 0 /\ buflen = scan.buflen
    /\ pc = "scan" /\ result = 0

\* The window is cut at the start of the file.
WindowLen == IF fSize <= buflen + offset THEN fSize - offset ELSE buflen

\* The matches that lie within the window.
Matches == {m \in markers : /\ fSize - offset - WindowLen <= m
                            /\ m + scan.len <= fSize - offset}

Found ==
    /\ pc = "scan" /\ offset < fSize - scan.slack
    /\ buflen' = WindowLen
    /\ Matches # {}
    /\ pc' = "found" /\ result' \in Matches /\ \A m \in Matches : m <= result'
    /\ UNCHANGED <<scan, fSize, markers, offset>>

\* Variants: the windows do not overlap; the overlap is the whole window once it
\* has been cut.
Advance_NoOverlap == WindowLen
Advance_Stuck == IF WindowLen < scan.buflen THEN 0 ELSE WindowLen - scan.back

\* How far the next window is moved.
Advance == WindowLen - scan.back

NextWindow ==
    /\ pc = "scan" /\ offset < fSize - scan.slack
    /\ buflen' = WindowLen
    /\ Matches = {}
    /\ offset' = offset + Advance
    /\ UNCHANGED <<scan, fSize, markers, pc, result>>

Missed ==
    /\ pc = "scan" /\ offset >= fSize - scan.slack
    /\ pc' = "missed"
    /\ UNCHANGED <<scan, fSize, markers, offset, buflen, result>>

ScanNext == Found \/ NextWindow \/ Missed

ScanSpec == ScanInit /\ [][ScanNext]_scanVars /\ WF_scanVars(ScanNext)

-----------------------------------------------------------------------------
FindsLast(ms) == /\ pc = "found" => result \in ms /\ \A m \in ms : m <= result
                 /\ pc = "missed" => ms = {}

\* seekToEOFMarker stops at the last %%EOF of the file, also where a marker lies
\* across two windows, and reports a missing marker only if there is none.
EOFMarkerFound == scan = EOFScan => FindsLast(markers)

\* The markers that no border between two windows of the xref search cuts, where
\* the borders are whole windows away from the end of the file.
Uncut == {m \in markers : \A k \in 1 .. fSize : ~(m < fSize - k * XrefBuf /\ fSize - k * XrefBuf < m + scan.len)}

\* repairSeekXrefMarker "looks for first sign of xref table from end of file"; its
\* windows do not overlap, and what it finds is the last marker that none of their
\* borders cuts.
XrefMarkerFound == scan = XrefScan => FindsLast(Uncut)

\* Both searches end: a window is never empty and the next one starts earlier.
ScanTerminates == <>(pc # "scan")
=============================================================================

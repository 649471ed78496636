------------------------------ MODULE WriteXref ------------------------------
(***************************************************************************)
(* How PdfWriter.Write of model/writer.go numbers the objects, writes them *)
(* and lists them in a cross-reference section, for a whole document and   *)
(* for a revision appended to one.                                         *)
(*                                                                         *)
(* The entries are listed in subsections, runs of consecutive numbers.     *)
(* The two loops that find them (for the table and for the stream) are the *)
(* same, and are modelled one index at a time.                             *)
(***************************************************************************)
EXTENDS Integers, Sequences, FiniteSets

CONSTANTS
    Greatest,    \* ObjNumOffset: the greatest object number of the document appended to
    MaxObjects,  \* bound: how many objects are written
    Sizes,       \* how many bytes an object may take
    PrevSize,    \* appendPrevRevisionSize: the size of the document appended to
    HeaderSize,  \* the bytes of the header of a new document
    Fresh        \* an object that replaces none of the document appended to

ASSUME GreatestAssumption == Greatest \in Nat /\ Fresh \notin 1 .. Greatest
ASSUME SizesAssumption == /\ Sizes \subseteq Nat \ {0}
                          /\ PrevSize \in Nat \ {0} /\ HeaderSize \in Nat
ASSUME MaxObjectsAssumption == MaxObjects \in Nat

\* A crossReference: type 0 (free), 1 (at an offset) or 2 (in an object stream).
Ref == [Type : {0, 1, 2}, Offset : Nat]

VARIABLES
    appendMode,         \* w.appendMode
    objects,            \* w.objects: what each replaces, an old number or Fresh
    unwritten,          \* the positions of objects still to be written
    writePos,           \* w.writePos
    crossReferenceMap,  \* w.crossReferenceMap
    maxIndex,           \* its greatest index
    idx, j,             \* the indices of the listing loops
    pc,                 \* where Write is
    index,              \* the subsections listed: first number and count
    listed              \* the numbers that they cover

vars == <<appendMode, objects, unwritten, writePos, crossReferenceMap, maxIndex, idx, j, pc, index, listed>>

TypeOK ==
    /\ appendMode \in BOOLEAN
    /\ DOMAIN objects \subseteq Nat \ {0}
    /\ \A i \in DOMAIN objects : objects[i] \in {Fresh} \cup (1 .. Greatest)
    /\ unwritten \subseteq DOMAIN objects
    /\ writePos \in Nat
    /\ DOMAIN crossReferenceMap \subseteq Nat
    /\ \A k \in DOMAIN crossReferenceMap : crossReferenceMap[k] \in Ref
    /\ 0 \in DOMAIN crossReferenceMap /\ crossReferenceMap[0].Type = 0
    /\ maxIndex \in Nat /\ idx \in Nat /\ j \in Nat
    /\ pc \in {"write", "find", "extend", "done"}
    /\ index \in Seq(Nat \X Nat)
    /\ listed \subseteq Nat

-----------------------------------------------------------------------------
FreshUpTo(i) == {h \in DOMAIN objects : h <= i /\ objects[h] = Fresh}

\* updateObjectNumbers: a replacement keeps the old number, the others follow the
\* greatest one in the order of the list.
Number(i) ==
    IF objects[i] # Fresh THEN objects[i]
    ELSE (IF appendMode THEN Greatest ELSE 0) + Cardinality(FreshUpTo(i))

\* Variant: nothing is written between the old document and the first object.
Prologue_None(append) == IF append THEN 0 ELSE HeaderSize

\* What is written first: a line feed after the old document, or the header.
Prologue(append) == IF append THEN 1 ELSE HeaderSize

\* The map starts with the free entry 0 and, for an appended revision, with the
\* entries of the document: at offsets within it or in object streams.
Init ==
    /\ appendMode \in BOOLEAN
    /\ \E n \in 0 .. MaxObjects :
          objects \in [1 .. n -> IF appendMode THEN {Fresh} \cup (1 .. Greatest) ELSE {Fresh}]
    /\ unwritten = DOMAIN objects
    /\ writePos = (IF appendMode THEN PrevSize ELSE 0) + Prologue(appendMode)
    /\ \E old \in SUBSET (1 .. Greatest) :
         /\ appendMode => Greatest \in old \cup {0}
         /\ ~appendMode => old = {}
         /\ \E t \in [old -> {[Type |-> 1, Offset |-> o] : o \in 1 .. PrevSize - 1}
                             \cup {[Type |-> 2, Offset |-> 0]}] :
              crossReferenceMap = [k \in old \cup {0} |-> IF k = 0 THEN [Type |-> 0, Offset |-> 0] ELSE t[k]]
    /\ maxIndex = 0 /\ idx = 0 /\ j = 0 /\ pc = "write"
    /\ index = <<>> /\ listed = {}

\* writeObject: the objects are written in the order of their numbers, and of
\* their places in the list where two have the same.
WriteObject ==
    /\ pc = "write"
    /\ \E i \in unwritten, size \in Sizes :
         /\ \A h \in unwritten : Number(i) < Number(h) \/ (Number(i) = Number(h) /\ i <= h)
         /\ crossReferenceMap' = [k \in DOMAIN crossReferenceMap \cup {Number(i)} |->
                IF k = Number(i) THEN [Type |-> 1, Offset |-> writePos] ELSE crossReferenceMap[k]]
         /\ writePos' = writePos + size
         /\ unwritten' = unwritten \ {i}
    /\ UNCHANGED <<appendMode, objects, maxIndex, idx, j, pc, index, listed>>

StartListing ==
    /\ pc = "write" /\ unwritten = {}
    /\ maxIndex' \in DOMAIN crossReferenceMap
    /\ \A k \in DOMAIN crossReferenceMap : k <= maxIndex'
    /\ pc' = "find"
    /\ UNCHANGED <<appendMode, objects, unwritten, writePos, crossReferenceMap, idx, j, index, listed>>

-----------------------------------------------------------------------------
\* The conditions of the two inner loops.
StartsRun(k) ==
    /\ k \in DOMAIN crossReferenceMap
    /\ LET ref == crossReferenceMap[k]
       IN  appendMode => (ref.Type = 1 /\ ref.Offset >= PrevSize) \/ ref.Type = 0

\* Variant: the run is not cut at an entry that the old document has.
Continues_Any(k) == k \in DOMAIN crossReferenceMap

Continues(k) ==
    /\ k \in DOMAIN crossReferenceMap
    /\ LET ref == crossReferenceMap[k]
       IN  appendMode => ref.Type = 1 /\ ref.Offset > PrevSize

\* Variant: an entry that starts no run is looked at again.
After_Same(k) == k

After(k) == k + 1

Skip ==
    /\ pc = "find" /\ idx <= maxIndex /\ ~StartsRun(idx)
    /\ idx' = After(idx)
    /\ UNCHANGED <<appendMode, objects, unwritten, writePos, crossReferenceMap, maxIndex, j, pc, index, listed>>

StartRun ==
    /\ pc = "find" /\ (idx <= maxIndex => StartsRun(idx))
    /\ j' = idx + 1 /\ pc' = "extend"
    /\ UNCHANGED <<appendMode, objects, unwritten, writePos, crossReferenceMap, maxIndex, idx, index, listed>>

Extend ==
    /\ pc = "extend" /\ j <= maxIndex /\ Continues(j)
    /\ j' = j + 1
    /\ UNCHANGED <<appendMode, objects, unwritten, writePos, crossReferenceMap, maxIndex, idx, pc, index, listed>>

\* Variant: the search goes on after the first entry of the run.
NextIdx_AfterFirst(e) == idx + 1

\* The entry that ended the run is not looked at again.
NextIdx(e) == e + 1

ListRun ==
    /\ pc = "extend" /\ (j <= maxIndex => ~Continues(j))
    /\ index' = Append(index, <<idx, j - idx>>)
    /\ listed' = listed \cup (idx .. j - 1)
    /\ idx' = NextIdx(j)
    /\ pc' = IF idx' <= maxIndex THEN "find" ELSE "done"
    /\ UNCHANGED <<appendMode, objects, unwritten, writePos, crossReferenceMap, maxIndex, j>>

Next == WriteObject \/ StartListing \/ Skip \/ StartRun \/ Extend \/ ListRun

Spec == Init /\ [][Next]_vars /\ WF_vars(Next)

-----------------------------------------------------------------------------
\* The entries of a section: all of a new document's, and of a revision those of
\* the objects it has written, with the free entry 0.
Written == {k \in DOMAIN crossReferenceMap :
              appendMode => k = 0 \/ (crossReferenceMap[k].Type = 1 /\ crossReferenceMap[k].Offset > PrevSize)}

\* One entry more is listed, of the number after the last, when neither of the
\* last two entries is part of the revision: the entry of the cross-reference
\* stream itself or, in a table, a free one.
Surplus == IF ((maxIndex - 1) .. maxIndex) \cap Written = {} THEN {maxIndex + 1} ELSE {}

\* The loops list every object that Write has written, also the first one after
\* the old document, none of the old ones, and each of them once.
ListedExactly == pc = "done" => listed = Written \cup Surplus

\* The subsections are in ascending order and apart from each other.
IndexAscending ==
    \A a, b \in DOMAIN index : a < b => index[a][1] + index[a][2] < index[b][1]

\* What is written now lies behind the old document, so that the comparison with
\* its size tells the two apart; no object of this revision takes the number of
\* one that it does not replace.
WrittenApart ==
    /\ \A k \in DOMAIN crossReferenceMap :
         appendMode => crossReferenceMap[k].Offset # PrevSize
    /\ \A i \in DOMAIN objects : objects[i] = Fresh =>
         /\ appendMode => Number(i) > Greatest
         /\ \A h \in DOMAIN objects \ {i} : Number(h) # Number(i)

\* Write ends.
WriteTerminates == <>(pc = "done")
=============================================================================

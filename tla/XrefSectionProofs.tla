-------------------------- MODULE XrefSectionProofs --------------------------
(***************************************************************************)
(* Cross-reference sections as they are written and as they are loaded:    *)
(* a section lists what was written, for any number of objects, any sizes  *)
(* and any document appended to (WriteXref); appending and loading         *)
(* implement a store of versions, for every number of revisions, objects   *)
(* and generations (Revisions).                                            *)
(***************************************************************************)
EXTENDS WriteXref, Revisions, FiniteSetTheorems, SequenceTheorems, WellFoundedInduction, TLAPS

\* The list of objects, whatever its length.
ObjectList ==
    \E n \in Nat : objects \in [1 .. n -> IF appendMode THEN {Fresh} \cup (1 .. Greatest) ELSE {Fresh}]

\* Entry 0 and no other is free, and no entry of a revision is at the very end of
\* the old document: writing starts one byte later.
Refs ==
    /\ \A k \in DOMAIN crossReferenceMap : crossReferenceMap[k].Type = 0 <=> k = 0
    /\ appendMode => /\ writePos > PrevSize
                     /\ \A k \in DOMAIN crossReferenceMap : crossReferenceMap[k].Offset # PrevSize

Below(n) == {k \in Written : k < n}

\* The listing loops: everything before idx is listed; a run holds new entries
\* only; past the greatest index a run is entered only with the last two not new.
Listing ==
    /\ pc = "write" => idx = 0 /\ listed = {} /\ index = <<>>
    /\ pc # "write" => /\ maxIndex \in DOMAIN crossReferenceMap
                       /\ \A k \in DOMAIN crossReferenceMap : k <= maxIndex
    /\ pc \in {"find", "extend"} =>
         /\ listed = Below(idx)
         /\ idx <= maxIndex + 1
         /\ idx > 0 => idx - 1 \notin Written
         /\ idx = maxIndex + 1 => maxIndex \notin Written /\ maxIndex - 1 \notin Written
    /\ pc = "extend" =>
         /\ j > idx
         /\ idx <= maxIndex => j <= maxIndex + 1 /\ \A k \in idx .. j - 1 : k \in Written
         /\ idx = maxIndex + 1 => j = maxIndex + 2
    /\ ListedExactly

\* Every subsection listed ends before the index that is looked at next.
Ends == \A a \in DOMAIN index : index[a][1] + index[a][2] < idx

IInv == TypeOK /\ ObjectList /\ Refs /\ Listing /\ Ends /\ IndexAscending

-----------------------------------------------------------------------------
\* The objects counted for a number are finitely many, the one numbered included.
LEMMA FreshUpToFacts ==
    ASSUME ObjectList, NEW i \in DOMAIN objects, objects[i] = Fresh
    PROVE  /\ IsFiniteSet(FreshUpTo(i)) /\ Cardinality(FreshUpTo(i)) \in Nat
           /\ Cardinality(FreshUpTo(i)) > 0
  <1>1. PICK n \in Nat : DOMAIN objects = 1 .. n  BY DEF ObjectList
  <1>2. IsFiniteSet(1 .. n)  BY FS_Interval
  <1>3. FreshUpTo(i) \subseteq 1 .. n /\ i \in FreshUpTo(i)  BY <1>1 DEF FreshUpTo
  <1>4. IsFiniteSet(FreshUpTo(i))  BY <1>2, <1>3, FS_Subset
  <1> HIDE DEF FreshUpTo
  <1>5. Cardinality(FreshUpTo(i)) \in Nat /\ Cardinality(FreshUpTo(i)) # 0
    BY <1>3, <1>4, FS_CardinalityType, FS_EmptySet
  <1> QED  BY <1>4, <1>5

\* A number is positive, that of a new object greater than every old one.
LEMMA NumberFacts ==
    ASSUME ObjectList, NEW i \in DOMAIN objects
    PROVE  /\ Number(i) \in Nat \ {0}
           /\ objects[i] = Fresh /\ appendMode => Number(i) > Greatest
  <1>1. CASE objects[i] = Fresh
    <2>1. Cardinality(FreshUpTo(i)) \in Nat /\ Cardinality(FreshUpTo(i)) > 0
      BY <1>1, FreshUpToFacts
    <2> QED  BY <1>1, <2>1, GreatestAssumption DEF Number
  <1>2. CASE objects[i] # Fresh
    <2>1. objects[i] \in 1 .. Greatest  BY <1>2 DEF ObjectList
    <2> QED  BY <1>2, <2>1, GreatestAssumption DEF Number
  <1> QED  BY <1>1, <1>2

\* Two new objects get different numbers.
LEMMA FreshDistinct ==
    ASSUME ObjectList, NEW i \in DOMAIN objects, NEW h \in DOMAIN objects, h < i,
           objects[i] = Fresh, objects[h] = Fresh
    PROVE  Number(h) # Number(i)
  <1>1. PICK n \in Nat : DOMAIN objects = 1 .. n  BY DEF ObjectList
  <1>2. /\ IsFiniteSet(FreshUpTo(i)) /\ Cardinality(FreshUpTo(i)) \in Nat
        /\ Cardinality(FreshUpTo(h)) \in Nat
    BY FreshUpToFacts
  <1>3. FreshUpTo(h) \in SUBSET FreshUpTo(i) /\ i \in FreshUpTo(i) /\ i \notin FreshUpTo(h)
    BY <1>1 DEF FreshUpTo
  <1> HIDE DEF FreshUpTo
  <1>4. Cardinality(FreshUpTo(i)) # Cardinality(FreshUpTo(h))  BY <1>2, <1>3, FS_Subset
  <1> QED  BY <1>2, <1>4, GreatestAssumption DEF Number

\* For the indices of the loops the two conditions are the same, and say that the
\* entry belongs to the section.
LEMMA RunConditions ==
    ASSUME TypeOK, Refs, NEW k \in Nat
    PROVE  /\ StartsRun(k) <=> k \in Written
           /\ k > 0 => (Continues(k) <=> k \in Written)
  <1>1. ASSUME k \in DOMAIN crossReferenceMap
        PROVE  crossReferenceMap[k].Offset \in Nat /\ crossReferenceMap[k].Type \in {0, 1, 2}
    BY <1>1 DEF TypeOK, Ref
  <1> QED  BY <1>1, SizesAssumption DEF Refs, StartsRun, Continues, Written

-----------------------------------------------------------------------------
\* At first nothing of the section is listed and the invariant holds.
LEMMA InitIInv == Init => IInv
  <1> SUFFICES ASSUME Init PROVE IInv  OBVIOUS
  <1> USE GreatestAssumption, SizesAssumption, MaxObjectsAssumption
  <1>1. ObjectList
    <2>1. PICK n \in 0 .. MaxObjects :
             objects \in [1 .. n -> IF appendMode THEN {Fresh} \cup (1 .. Greatest) ELSE {Fresh}]
      BY Zenon DEF Init
    <2> QED  BY <2>1 DEF ObjectList
  <1>2. PICK old \in SUBSET (1 .. Greatest) :
          /\ DOMAIN crossReferenceMap = old \cup {0}
          /\ crossReferenceMap[0] \in Ref
          /\ crossReferenceMap[0].Type = 0 /\ crossReferenceMap[0].Offset = 0
          /\ \A k \in old : /\ crossReferenceMap[k] \in Ref /\ crossReferenceMap[k].Type # 0
                            /\ crossReferenceMap[k].Offset # PrevSize
    <2>1. PICK old \in SUBSET (1 .. Greatest) :
            \E t \in [old -> {[Type |-> 1, Offset |-> o] : o \in 1 .. PrevSize - 1}
                               \cup {[Type |-> 2, Offset |-> 0]}] :
                crossReferenceMap = [k \in old \cup {0} |-> IF k = 0 THEN [Type |-> 0, Offset |-> 0] ELSE t[k]]
      BY Zenon DEF Init
    <2>2. PICK t \in [old -> {[Type |-> 1, Offset |-> o] : o \in 1 .. PrevSize - 1}
                               \cup {[Type |-> 2, Offset |-> 0]}] :
            crossReferenceMap = [k \in old \cup {0} |-> IF k = 0 THEN [Type |-> 0, Offset |-> 0] ELSE t[k]]
      BY <2>1
    <2>3. DOMAIN crossReferenceMap = old \cup {0} /\ crossReferenceMap[0] = [Type |-> 0, Offset |-> 0]
      BY <2>2
    <2>4. ASSUME NEW k \in old
          PROVE  /\ crossReferenceMap[k] \in Ref /\ crossReferenceMap[k].Type # 0
                 /\ crossReferenceMap[k].Offset # PrevSize
      <3>1. crossReferenceMap[k] = t[k]  BY <2>2
      <3>2. CASE t[k] = [Type |-> 2, Offset |-> 0]  BY <3>1, <3>2 DEF Ref
      <3>3. CASE \E o \in 1 .. PrevSize - 1 : t[k] = [Type |-> 1, Offset |-> o]  BY <3>1, <3>3 DEF Ref
      <3> QED  BY <2>2, <3>2, <3>3
    <2>5. /\ crossReferenceMap[0] \in Ref
          /\ crossReferenceMap[0].Type = 0 /\ crossReferenceMap[0].Offset = 0
      BY <2>3 DEF Ref
    <2> QED  BY <2>3, <2>4, <2>5
  <1>6. writePos \in Nat /\ (appendMode => writePos > PrevSize)  BY DEF Init, Prologue
  <1>7. TypeOK
    <2>1. \A k \in DOMAIN crossReferenceMap : crossReferenceMap[k] \in Ref  BY <1>2, Zenon
    <2>2. /\ DOMAIN objects \subseteq Nat \ {0}
          /\ \A i \in DOMAIN objects : objects[i] \in {Fresh} \cup (1 .. Greatest)
      BY <1>1 DEF ObjectList
    <2>3. /\ appendMode \in BOOLEAN /\ unwritten \subseteq DOMAIN objects
          /\ maxIndex \in Nat /\ idx \in Nat /\ j \in Nat
          /\ pc \in {"write", "find", "extend", "done"}
          /\ index \in Seq(Nat \X Nat) /\ listed \subseteq Nat
      BY DEF Init
    <2>4. DOMAIN crossReferenceMap \subseteq Nat /\ 0 \in DOMAIN crossReferenceMap  BY <1>2
    <2> QED  BY <1>2, <1>6, <2>1, <2>2, <2>3, <2>4 DEF TypeOK
  <1>8. Refs  BY <1>2, <1>6, Zenon DEF Refs
  <1>9. Listing /\ Ends /\ IndexAscending
    BY DEF Init, Listing, Ends, IndexAscending, ListedExactly
  <1> QED  BY <1>1, <1>7, <1>8, <1>9 DEF IInv

\* Writing an object keeps the map of the form that the listing relies on.
LEMMA WriteObjectIInv == IInv /\ WriteObject => IInv'
  <1> SUFFICES ASSUME IInv, WriteObject PROVE IInv'  OBVIOUS
  <1> USE SizesAssumption DEF IInv
  <1>1. PICK i \in unwritten, size \in Sizes :
         /\ crossReferenceMap' = [k \in DOMAIN crossReferenceMap \cup {Number(i)} |->
                IF k = Number(i) THEN [Type |-> 1, Offset |-> writePos] ELSE crossReferenceMap[k]]
         /\ writePos' = writePos + size
         /\ unwritten' = unwritten \ {i}
    BY DEF WriteObject
  <1>2. i \in DOMAIN objects  BY DEF TypeOK
  <1>3. Number(i) \in Nat \ {0}  BY <1>2, NumberFacts
  <1>4. pc = "write" /\ UNCHANGED <<appendMode, objects, maxIndex, idx, j, pc, index, listed>>
    BY DEF WriteObject
  <1>5. writePos' \in Nat /\ writePos' > writePos  BY <1>1 DEF TypeOK
  <1> DEFINE n == Number(i)
  <1>6. /\ DOMAIN crossReferenceMap' = DOMAIN crossReferenceMap \cup {n}
        /\ crossReferenceMap'[n] = [Type |-> 1, Offset |-> writePos]
        /\ \A k \in DOMAIN crossReferenceMap : k # n => crossReferenceMap'[k] = crossReferenceMap[k]
    BY <1>1
  <1> HIDE DEF n
  <1>7. n \in Nat \ {0}  BY <1>3 DEF n
  <1>8. [Type |-> 1, Offset |-> writePos] \in Ref  BY DEF TypeOK, Ref
  <1>9. TypeOK'
    <2>1. \A k \in DOMAIN crossReferenceMap' : crossReferenceMap'[k] \in Ref
      BY <1>6, <1>8 DEF TypeOK
    <2>2. 0 \in DOMAIN crossReferenceMap' /\ crossReferenceMap'[0].Type = 0  BY <1>6, <1>7, Zenon DEF TypeOK
    <2>3. DOMAIN crossReferenceMap' \subseteq Nat  BY <1>6, <1>7 DEF TypeOK
    <2> QED  BY <1>1, <1>4, <1>5, <2>1, <2>2, <2>3, Zenon DEF TypeOK
  <1>10. ObjectList'  BY <1>4 DEF ObjectList
  <1>11. Refs'  BY <1>4, <1>5, <1>6, <1>7 DEF Refs, TypeOK
  <1>12. Listing'  BY <1>4 DEF Listing, ListedExactly
  <1>13. Ends' /\ IndexAscending'  BY <1>4 DEF Ends, IndexAscending
  <1> QED  BY <1>9, <1>10, <1>11, <1>12, <1>13

\* The listing loops change neither the objects nor the map.
LEMMA MapKept ==
    ASSUME IInv, UNCHANGED <<appendMode, objects, writePos, crossReferenceMap>>
    PROVE  ObjectList' /\ Refs' /\ Written' = Written
  BY DEF IInv, ObjectList, Refs, Written

\* writeXref begins to list the entries.
LEMMA StartListingIInv == IInv /\ StartListing => IInv'
  <1> SUFFICES ASSUME IInv, StartListing PROVE IInv'  OBVIOUS
  <1>1. /\ UNCHANGED <<appendMode, objects, unwritten, writePos, crossReferenceMap, idx, j, index, listed>>
        /\ pc = "write" /\ pc' = "find"
        /\ maxIndex' \in DOMAIN crossReferenceMap
        /\ \A k \in DOMAIN crossReferenceMap : k <= maxIndex'
    BY DEF StartListing
  <1>2. ObjectList' /\ Refs' /\ Written' = Written  BY <1>1, MapKept
  <1>3. TypeOK'  BY <1>1 DEF IInv, TypeOK
  <1>4. Listing'
    <2>1. idx = 0 /\ listed = {}  BY <1>1 DEF IInv, Listing
    <2>2. Written \subseteq Nat  BY DEF IInv, TypeOK, Written
    <2>3. Below(0)' = {}
      <3>1. \A k \in Written : ~(k < 0)  BY <2>2
      <3> QED  BY <1>2, <3>1 DEF Below
    <2>4. maxIndex' \in Nat  BY <1>3 DEF TypeOK
    <2> QED  BY <1>1, <2>1, <2>3, <2>4 DEF Listing, ListedExactly
  <1>5. Ends' /\ IndexAscending'  BY <1>1 DEF IInv, Ends, IndexAscending
  <1> QED  BY <1>2, <1>3, <1>4, <1>5 DEF IInv

\* A number that has no entry is passed over.
LEMMA SkipIInv == IInv /\ Skip => IInv'
  <1> SUFFICES ASSUME IInv, Skip PROVE IInv'  OBVIOUS
  <1>1. /\ UNCHANGED <<appendMode, objects, unwritten, writePos, crossReferenceMap, maxIndex, j, pc, index, listed>>
        /\ pc = "find" /\ idx <= maxIndex /\ ~StartsRun(idx) /\ idx' = idx + 1
    BY DEF Skip, After
  <1>2. ObjectList' /\ Refs' /\ Written' = Written  BY <1>1, MapKept
  <1>3. idx \in Nat /\ maxIndex \in Nat /\ Written \subseteq Nat  BY DEF IInv, TypeOK, Written
  <1>4. TypeOK'  BY <1>1, <1>3 DEF IInv, TypeOK
  <1>5. idx \notin Written  BY <1>1, <1>3, RunConditions DEF IInv
  <1>6. idx > 0
    <2>1. 0 \in Written  BY DEF IInv, TypeOK, Written
    <2> QED  BY <1>3, <1>5, <2>1
  <1>7. Listing'
    <2>1. listed = Below(idx) /\ idx - 1 \notin Written  BY <1>1, <1>6 DEF IInv, Listing
    <2>2. Below(idx)' = Below(idx)
      <3>1. \A k \in Written : k < idx' <=> k < idx  BY <1>1, <1>3, <1>5
      <3> QED  BY <1>2, <3>1 DEF Below
    <2>3. /\ maxIndex \in DOMAIN crossReferenceMap
          /\ \A k \in DOMAIN crossReferenceMap : k <= maxIndex
      BY <1>1 DEF IInv, Listing
    <2>4. idx' <= maxIndex' + 1 /\ idx' - 1 = idx /\ (idx' = maxIndex' + 1 => maxIndex = idx)
      BY <1>1, <1>3
    <2> QED  BY Zenon, <1>1, <1>2, <1>5, <2>1, <2>2, <2>3, <2>4 DEF Listing, ListedExactly
  <1>8. Ends' /\ IndexAscending'
    <2>1. \A a \in DOMAIN index : index[a][1] \in Nat /\ index[a][2] \in Nat  BY DEF IInv, TypeOK
    <2> QED  BY <1>1, <1>3, <2>1 DEF IInv, Ends, IndexAscending
  <1> QED  BY <1>2, <1>4, <1>7, <1>8 DEF IInv

\* A new run of numbers begins where the one before has ended.
LEMMA StartRunIInv == IInv /\ StartRun => IInv'
  <1> SUFFICES ASSUME IInv, StartRun PROVE IInv'  OBVIOUS
  <1>1. /\ UNCHANGED <<appendMode, objects, unwritten, writePos, crossReferenceMap, maxIndex, idx, index, listed>>
        /\ pc = "find" /\ pc' = "extend" /\ (idx <= maxIndex => StartsRun(idx)) /\ j' = idx + 1
    BY DEF StartRun
  <1>2. ObjectList' /\ Refs' /\ Written' = Written  BY <1>1, MapKept
  <1>3. idx \in Nat /\ maxIndex \in Nat  BY DEF IInv, TypeOK
  <1>4. TypeOK'  BY <1>1, <1>3 DEF IInv, TypeOK
  <1>5. idx <= maxIndex => idx \in Written  BY <1>1, <1>3, RunConditions DEF IInv
  <1>6. Listing'
    <2>1. Below(idx)' = Below(idx)  BY <1>1, <1>2 DEF Below
    <2>2. \A k \in idx' .. j' - 1 : k = idx  BY <1>1, <1>3
    <2>3. j' > idx' /\ (idx <= maxIndex => j' <= maxIndex + 1) /\ (idx = maxIndex + 1 => j' = maxIndex + 2)
      BY <1>1, <1>3
    <2> QED  BY <1>1, <1>2, <1>5, <2>1, <2>2, <2>3 DEF IInv, Listing, ListedExactly
  <1>7. Ends' /\ IndexAscending'  BY <1>1 DEF IInv, Ends, IndexAscending
  <1> QED  BY <1>2, <1>4, <1>6, <1>7 DEF IInv

\* The run goes on with the next number.
LEMMA ExtendIInv == IInv /\ Extend => IInv'
  <1> SUFFICES ASSUME IInv, Extend PROVE IInv'  OBVIOUS
  <1>1. /\ UNCHANGED <<appendMode, objects, unwritten, writePos, crossReferenceMap, maxIndex, idx, pc, index, listed>>
        /\ pc = "extend" /\ j <= maxIndex /\ Continues(j) /\ j' = j + 1
    BY DEF Extend
  <1>2. ObjectList' /\ Refs' /\ Written' = Written  BY <1>1, MapKept
  <1>3. idx \in Nat /\ maxIndex \in Nat /\ j \in Nat  BY DEF IInv, TypeOK
  <1>4. TypeOK'  BY <1>1, <1>3 DEF IInv, TypeOK
  <1>5. j > idx /\ idx <= maxIndex  BY <1>1, <1>3 DEF IInv, Listing
  <1>6. j \in Written  BY <1>1, <1>3, <1>5, RunConditions DEF IInv
  <1>7. Listing'
    <2>1. Below(idx)' = Below(idx)  BY <1>1, <1>2 DEF Below
    <2>2. \A k \in idx .. j - 1 : k \in Written  BY <1>1, <1>5 DEF IInv, Listing
    <2>3. \A k \in idx' .. j' - 1 : k \in Written'
      <3>1. \A k \in idx .. j : k = j \/ k \in idx .. j - 1  BY <1>3
      <3>2. j' - 1 = j  BY <1>1, <1>3
      <3> QED  BY <1>1, <1>2, <1>6, <2>2, <3>1, <3>2
    <2>4. j' > idx' /\ j' <= maxIndex + 1 /\ idx' # maxIndex + 1  BY <1>1, <1>3, <1>5
    <2> QED  BY <1>1, <1>2, <2>1, <2>3, <2>4 DEF IInv, Listing, ListedExactly
  <1>8. Ends' /\ IndexAscending'  BY <1>1 DEF IInv, Ends, IndexAscending
  <1> QED  BY <1>2, <1>4, <1>7, <1>8 DEF IInv

\* A run that is complete: what is listed then, in each of its three outcomes.
LEMMA ListRunIInv == IInv /\ ListRun => IInv'
  <1> SUFFICES ASSUME IInv, ListRun PROVE IInv'  OBVIOUS
  <1>1. /\ UNCHANGED <<appendMode, objects, unwritten, writePos, crossReferenceMap, maxIndex, j>>
        /\ pc = "extend" /\ (j <= maxIndex => ~Continues(j))
        /\ index' = Append(index, <<idx, j - idx>>)
        /\ listed' = listed \cup (idx .. j - 1)
        /\ idx' = j + 1
        /\ pc' = IF idx' <= maxIndex THEN "find" ELSE "done"
    BY DEF ListRun, NextIdx
  <1>2. ObjectList' /\ Refs' /\ Written' = Written  BY <1>1, MapKept
  <1>3. idx \in Nat /\ maxIndex \in Nat /\ j \in Nat /\ Written \subseteq Nat
    BY DEF IInv, TypeOK, Written
  <1>4. /\ j > idx /\ listed = Below(idx) /\ idx <= maxIndex + 1
        /\ maxIndex \in DOMAIN crossReferenceMap
        /\ \A k \in DOMAIN crossReferenceMap : k <= maxIndex
    BY <1>1 DEF IInv, Listing
  <1>5. \A k \in Written : k <= maxIndex  BY <1>4 DEF Written
  <1>6. <<idx, j - idx>> \in Nat \X Nat  BY <1>3, <1>4
  <1>7. TypeOK'
    <2>1. index' \in Seq(Nat \X Nat)  BY <1>1, <1>6 DEF IInv, TypeOK
    <2>2. idx' \in Nat /\ listed' \subseteq Nat  BY <1>1, <1>3 DEF IInv, TypeOK
    <2>3. pc' \in {"write", "find", "extend", "done"}  BY <1>1
    <2> QED  BY <1>1, <2>1, <2>2, <2>3 DEF IInv, TypeOK
  <1>8. j <= maxIndex => j \notin Written  BY <1>1, <1>3, <1>4, RunConditions DEF IInv
  <1>9. j \notin Written  BY <1>3, <1>5, <1>8
  <1>10. ASSUME idx <= maxIndex PROVE Listing'
    <2>1. j <= maxIndex + 1 /\ \A k \in idx .. j - 1 : k \in Written
      BY <1>1, <1>10 DEF IInv, Listing
    <2>2. listed' = {k \in Written : k < j + 1}
      <3>1. ASSUME NEW k \in Written PROVE k < j + 1 <=> k < idx \/ k \in idx .. j - 1
        BY <1>3, <1>4, <1>9
      <3> QED  BY <1>1, <1>4, <2>1, <3>1 DEF Below
    <2>3. CASE j + 1 <= maxIndex
      <3>1. listed' = Below(idx)'  BY <1>1, <1>2, <2>2 DEF Below
      <3>2. pc' = "find" /\ idx' - 1 = j /\ idx' # maxIndex + 1 /\ idx' <= maxIndex + 1
        BY <1>1, <1>3, <2>3
      <3> QED  BY Zenon, <1>1, <1>2, <1>4, <1>9, <3>1, <3>2 DEF Listing, ListedExactly
    <2>4. CASE ~(j + 1 <= maxIndex)
      <3>1. pc' = "done"  BY <1>1, <2>4
      <3>2. \A k \in Written : k < j + 1  BY <1>3, <1>5, <2>4
      <3>3. listed' = Written  BY <2>2, <3>2
      <3>4. j - 1 \in Written /\ j - 1 \in (maxIndex - 1) .. maxIndex
        BY <1>3, <1>4, <2>1, <2>4
      <3>5. Surplus' = {}  BY <1>1, <1>2, <3>4 DEF Surplus
      <3> QED  BY <1>1, <1>2, <1>4, <3>1, <3>3, <3>5 DEF Listing, ListedExactly
    <2> QED  BY <2>3, <2>4
  <1>11. ASSUME ~(idx <= maxIndex) PROVE Listing'
    <2>1. idx = maxIndex + 1  BY <1>3, <1>4, <1>11
    <2>2. j = maxIndex + 2 /\ maxIndex \notin Written /\ maxIndex - 1 \notin Written
      BY <1>1, <2>1 DEF IInv, Listing
    <2>3. pc' = "done" /\ idx .. j - 1 = {maxIndex + 1}  BY <1>1, <1>3, <2>1, <2>2
    <2>4. Below(idx) = Written
      <3>1. \A k \in Written : k < idx  BY <1>3, <1>5, <2>1
      <3> QED  BY <3>1 DEF Below
    <2>5. Surplus' = {maxIndex + 1}
      <3>1. \A k \in (maxIndex - 1) .. maxIndex : k = maxIndex \/ k = maxIndex - 1  BY <1>3
      <3>2. ((maxIndex - 1) .. maxIndex) \cap Written = {}  BY <2>2, <3>1
      <3> QED  BY <1>1, <1>2, <3>2 DEF Surplus
    <2>6. listed' = Written \cup {maxIndex + 1}  BY <1>1, <1>4, <2>3, <2>4
    <2> QED  BY Zenon, <1>1, <1>2, <1>4, <2>3, <2>5, <2>6 DEF Listing, ListedExactly
  <1>12. Ends' /\ IndexAscending'
    <2>1. \A a \in DOMAIN index : index[a][1] \in Nat /\ index[a][2] \in Nat  BY DEF IInv, TypeOK
    <2>2. index \in Seq(Nat \X Nat)  BY DEF IInv, TypeOK
    <2>3. /\ DOMAIN index = 1 .. Len(index) /\ DOMAIN index' = 1 .. Len(index) + 1 /\ Len(index) \in Nat
          /\ \A a \in 1 .. Len(index) : index'[a] = index[a]
          /\ index'[Len(index) + 1] = <<idx, j - idx>>
      BY <1>1, <1>6, <2>2
    <2>4. \A a \in 1 .. Len(index) : index[a][1] + index[a][2] < idx  BY <2>3 DEF IInv, Ends
    <2>5. idx + (j - idx) = j /\ j < idx' /\ idx < idx'  BY <1>1, <1>3, <1>4
    <2>6. Ends'
      <3> SUFFICES ASSUME NEW a \in DOMAIN index' PROVE index'[a][1] + index'[a][2] < idx'
        BY DEF Ends
      <3>1. CASE a = Len(index) + 1  BY <2>3, <2>5, <3>1
      <3>2. CASE a \in 1 .. Len(index)
        <4>1. index'[a] = index[a] /\ index[a][1] + index[a][2] < idx  BY <2>3, <2>4, <3>2
        <4>2. index[a][1] \in Nat /\ index[a][2] \in Nat  BY <2>1, <2>3, <3>2
        <4>3. idx' \in Nat  BY <1>7 DEF TypeOK
        <4> QED  BY <1>3, <2>5, <4>1, <4>2, <4>3
      <3> QED  BY <2>3, <3>1, <3>2
    <2>7. IndexAscending'
      <3> SUFFICES ASSUME NEW a \in DOMAIN index', NEW b \in DOMAIN index', a < b
                   PROVE  index'[a][1] + index'[a][2] < index'[b][1]
        BY DEF IndexAscending
      <3>1. a \in 1 .. Len(index) /\ (b \in 1 .. Len(index) \/ b = Len(index) + 1)  BY <2>3
      <3> QED  BY <2>3, <2>4, <3>1 DEF IInv, IndexAscending
    <2> QED  BY <2>6, <2>7
  <1> QED  BY <1>2, <1>7, <1>10, <1>11, <1>12 DEF IInv

-----------------------------------------------------------------------------
\* The inductive invariant holds in every state of the writer.
LEMMA Inductive == Spec => []IInv
  <1>1. IInv /\ [Next]_vars => IInv'
    <2> SUFFICES ASSUME IInv, [Next]_vars PROVE IInv'  OBVIOUS
    <2>1. CASE UNCHANGED vars
      <3>1. Written' = Written /\ Surplus' = Surplus  BY <2>1 DEF vars, Written, Surplus
      <3>2. TypeOK'  BY Zenon, <2>1 DEF vars, IInv, TypeOK
      <3>3. ObjectList' /\ Refs'  BY <2>1 DEF vars, IInv, ObjectList, Refs
      <3>4. Below(idx)' = Below(idx)  BY <2>1, <3>1 DEF vars, Below
      <3>5. ListedExactly'  BY <2>1, <3>1 DEF vars, IInv, Listing, ListedExactly
      <3>6. Listing'  BY ZenonT(30), <2>1, <3>1, <3>4, <3>5 DEF vars, IInv, Listing
      <3>7. Ends' /\ IndexAscending'  BY <2>1 DEF vars, IInv, Ends, IndexAscending
      <3> QED  BY <3>2, <3>3, <3>6, <3>7 DEF IInv
    <2>2. CASE Next
      BY <2>2, WriteObjectIInv, StartListingIInv, SkipIInv, StartRunIInv, ExtendIInv, ListRunIInv DEF Next
    <2> QED  BY <2>1, <2>2
  <1> QED  BY <1>1, InitIInv, PTL DEF Spec

\* Write keeps its variables of their types; entry 0 stays the free one.
THEOREM TypeCorrect == Spec => []TypeOK
  <1>1. IInv => TypeOK  BY DEF IInv
  <1> QED  BY <1>1, Inductive, PTL

\* However many objects are written and whatever the document appended to, the
\* listing loops of Write list the objects that it wrote, and only them.
THEOREM ListedExactlyAlways == Spec => []ListedExactly
  <1>1. IInv => ListedExactly  BY DEF IInv, Listing
  <1> QED  BY <1>1, Inductive, PTL

\* The subsections of the section are always in ascending order and apart.
THEOREM IndexAscendingAlways == Spec => []IndexAscending
  <1>1. IInv => IndexAscending  BY DEF IInv
  <1> QED  BY <1>1, Inductive, PTL

\* No entry that Write makes is taken for one of the old document, and no new
\* object takes a number that is in use.
THEOREM WrittenApartAlways == Spec => []WrittenApart
  <1>1. IInv => WrittenApart
    <2> SUFFICES ASSUME IInv PROVE WrittenApart  OBVIOUS
    <2>1. ASSUME NEW i \in DOMAIN objects, objects[i] = Fresh, NEW h \in DOMAIN objects \ {i}
          PROVE  Number(h) # Number(i)
      <3>1. h < i \/ i < h  BY DEF IInv, TypeOK
      <3>2. CASE objects[h] = Fresh  BY <2>1, <3>1, <3>2, FreshDistinct DEF IInv
      <3>3. CASE objects[h] # Fresh
        <4>1. appendMode /\ objects[h] \in 1 .. Greatest  BY <3>3 DEF IInv, ObjectList
        <4>2. Number(i) \in Nat /\ Number(i) > Greatest  BY <2>1, <4>1, NumberFacts DEF IInv
        <4>3. Number(h) = objects[h]  BY <3>3 DEF Number
        <4> QED  BY <4>1, <4>2, <4>3, GreatestAssumption
      <3> QED  BY <3>2, <3>3
    <2>2. \A i \in DOMAIN objects : objects[i] = Fresh /\ appendMode => Number(i) > Greatest
      BY NumberFacts DEF IInv
    <2> QED  BY <2>1, <2>2 DEF WrittenApart, IInv, Refs
  <1> QED  BY <1>1, Inductive, PTL

-----------------------------------------------------------------------------
\* What a section lists: objects in use at the places of its revision, each number
\* once, and from the second revision on with generation 0.
SectionsApart ==
    /\ \A r \in 1 .. Len(sections) : \A e \in sections[r] :
         e.t = "inuse" /\ e.off = At(r, e.num) /\ (r > 1 => e.gen = 0)
    /\ \A r \in 1 .. Len(sections) : \A e, f \in sections[r] : e.num = f.num => e = f

\* There is a greatest number.
NumbersBounded == \E b \in Nat : \A r \in 1 .. Len(sections) : \A e \in sections[r] : e.num <= b

\* Every number has one latest revision, the last one that lists it.
LatestLists ==
    /\ \A o, q \in latest : o.num = q.num => o = q
    /\ \A o \in latest : o.rev \in 1 .. Len(sections) /\ \E e \in sections[o.rev] : e.num = o.num
    /\ \A r \in 1 .. Len(sections) : \A e \in sections[r] : \E o \in latest : o.num = e.num /\ r <= o.rev

RInv == RevisionsTypeOK /\ SectionsApart /\ NumbersBounded /\ LatestLists

\* Places are numbers past those that a table takes for free, and revisions keep an
\* object at different ones.
LEMMA Places ==
    ASSUME NEW n \in Nat \ {0}, NEW r \in Nat \ {0}
    PROVE  /\ At(r, n) \in Nat /\ At(r, n) > 1
           /\ \A q \in Nat \ {0} : At(q, n) = At(r, n) => q = r
  <1>1. At(r, n) \in Nat /\ At(r, n) > 1
    <2>1. (r + n) * (r + n) \in Nat  OBVIOUS
    <2> QED  BY <2>1 DEF At
  <1>2. ASSUME NEW a \in Nat \ {0}, NEW b \in Nat \ {0}, a < b PROVE At(a, n) # At(b, n)
    <2>1. PICK d \in Nat \ {0} : b = a + d
      <3>1. b - a \in Nat \ {0} /\ b = a + (b - a)  BY <1>2
      <3> QED  BY <3>1
    <2>2. (b + n) * (b + n) = (a + n) * (a + n) + d * (2 * (a + n) + d)  BY <2>1
    <2>3. d * (2 * (a + n) + d) > 0  BY <2>1
    <2>4. (a + n) * (a + n) \in Nat /\ d * (2 * (a + n) + d) \in Nat  BY <2>1
    <2> QED  BY <2>2, <2>3, <2>4 DEF At
  <1>3. \A q \in Nat \ {0} : At(q, n) = At(r, n) => q = r
    <2> SUFFICES ASSUME NEW q \in Nat \ {0}, At(q, n) = At(r, n), q # r PROVE FALSE  OBVIOUS
    <2>1. q < r \/ r < q  OBVIOUS
    <2> QED  BY <1>2, <2>1
  <1> QED  BY <1>1, <1>3

\* What is listed is in use.
LEMMA ListedInUse ==
    ASSUME RInv
    PROVE  /\ Len(sections) \in Nat \ {0}
           /\ \A r \in 1 .. Len(sections) : \A e \in sections[r] :
                 e \in Entry /\ InUse("table", e) /\ e.num \in Nat \ {0} /\ e.gen \in Nat
           /\ \A r \in 1 .. Len(sections) : sections[r] \subseteq Listed(sections, Len(sections))
           /\ \A e \in Listed(sections, Len(sections)) : \E r \in 1 .. Len(sections) : e \in sections[r]
  <1>1. Len(sections) \in Nat \ {0} /\ sections \in Seq(SUBSET Entry)
    BY BoundsAssumption DEF RInv, RevisionsTypeOK
  <1>2. \A r \in 1 .. Len(sections) : \A e \in sections[r] : e \in Entry
    BY <1>1, ElementOfSeq
  <1>3. \A r \in 1 .. Len(sections) : \A e \in sections[r] : InUse("table", e)
    <2> SUFFICES ASSUME NEW r \in 1 .. Len(sections), NEW e \in sections[r] PROVE InUse("table", e)
      OBVIOUS
    <2>1. e.t = "inuse" /\ e.off = At(r, e.num)  BY DEF RInv, SectionsApart
    <2>2. e.num \in Nat \ {0}  BY <1>2 DEF Entry
    <2>3. r \in Nat \ {0}  BY <1>1
    <2>4. At(r, e.num) > 1  BY Zenon, <2>2, <2>3, Places
    <2> QED  BY <2>1, <2>4 DEF InUse
  <1>4. \A r \in 1 .. Len(sections) : sections[r] \subseteq Listed(sections, Len(sections))
    BY <1>3, Zenon DEF Listed
  <1>5. \A e \in Listed(sections, Len(sections)) : \E r \in 1 .. Len(sections) : e \in sections[r]
    BY Zenon DEF Listed
  <1>6. \A e \in Entry : e.num \in Nat \ {0} /\ e.gen \in Nat  BY DEF Entry
  <1> QED  BY <1>1, <1>2, <1>3, <1>4, <1>5, <1>6, Zenon

\* An entry that wins is the one in the table.
LEMMA WinnerLoaded ==
    ASSUME RInv, NEW i \in 1 .. Len(sections), NEW e \in sections[i],
           Wins(sections, Len(sections), i, e)
    PROVE  e.num \in DOMAIN ObjectMap /\ ObjectMap[e.num] = XrefOf(e)
  <1> DEFINE L == Len(sections)
             ls == Listed(sections, L)
             Chosen(f) == f.num = e.num /\ \E h \in 1 .. L : Wins(sections, L, h, f)
  <1>1. e \in ls /\ Chosen(e)  BY ListedInUse
  <1>2. ASSUME NEW f \in ls, Chosen(f) PROVE f = e
    <2>1. PICK h \in 1 .. L : Wins(sections, L, h, f)  BY <1>2
    <2>2. f \in sections[h] /\ f.num = e.num /\ InUse("table", f)  BY Zenon, <1>2, <2>1 DEF Wins
    <2>3. f.gen < e.gen \/ (f.gen = e.gen /\ h <= i)  BY Zenon, <2>2 DEF Wins
    <2>4. InUse("table", e)  BY Zenon, ListedInUse
    <2>5. e.gen < f.gen \/ (e.gen = f.gen /\ i <= h)  BY Zenon, <2>1, <2>2, <2>4 DEF Wins
    <2>6. e.gen \in Nat /\ f.gen \in Nat  BY Zenon, <2>2, ListedInUse
    <2>7. i = h  BY <2>3, <2>5, <2>6
    <2> QED  BY <2>2, <2>7 DEF RInv, SectionsApart
  <1>3. Winners(sections, L, e.num) = {e}  BY <1>1, <1>2 DEF Winners
  <1>4. Winner(sections, L, e.num) = e  BY <1>3 DEF Winner
  <1> QED  BY Zenon, <1>1, <1>4 DEF ObjectMap, LoadXrefs

\* For every object the entry of its latest revision wins, or that of the original
\* document if its generation is above 0 there.
LEMMA LatestWins ==
    ASSUME RInv, NEW o \in latest
    PROVE  LET i == IF Regenerated(o.num) THEN 1 ELSE o.rev
           IN  i \in 1 .. Len(sections)
               /\ \E e \in sections[i] : e.num = o.num /\ Wins(sections, Len(sections), i, e)
  <1> DEFINE L == Len(sections)
  <1>1. L \in Nat \ {0}  BY Zenon, ListedInUse
  <1>2. CASE Regenerated(o.num)
    <2>1. PICK e \in sections[1] : e.num = o.num /\ e.gen > 0  BY <1>2 DEF Regenerated
    <2>2. 1 \in 1 .. L  BY <1>1
    <2>3. InUse("table", e) /\ e.gen \in Nat  BY <2>2, ListedInUse
    <2>4. ASSUME NEW h \in 1 .. L, NEW f \in sections[h], f.num = e.num
          PROVE  f.gen < e.gen \/ (f.gen = e.gen /\ h <= 1)
      <3>1. CASE h = 1  BY <3>1, <2>2, <2>4 DEF RInv, SectionsApart
      <3>2. CASE h # 1
        <4>1. f.gen = 0  BY <3>2, <1>1 DEF RInv, SectionsApart
        <4> QED  BY <4>1, <2>1, <2>3
      <3> QED  BY <3>1, <3>2
    <2>5. Wins(sections, L, 1, e)  BY ZenonT(30), <2>3, <2>4 DEF Wins
    <2> QED  BY Zenon, <1>2, <2>1, <2>2, <2>5
  <1>3. CASE ~Regenerated(o.num)
    <2>1. o.rev \in 1 .. L  BY DEF RInv, LatestLists
    <2>2. PICK e \in sections[o.rev] : e.num = o.num  BY DEF RInv, LatestLists
    <2>3. InUse("table", e)  BY <2>1, ListedInUse
    <2>4. ASSUME NEW h \in 1 .. L, NEW f \in sections[h], f.num = o.num PROVE f.gen = 0 /\ h <= o.rev
      <3>1. f.gen = 0
        <4>1. f.gen \in Nat  BY ListedInUse
        <4>2. CASE h = 1  BY <4>1, <4>2, <2>4, <1>3 DEF Regenerated
        <4>3. CASE h # 1  BY <4>3, <1>1 DEF RInv, SectionsApart
        <4> QED  BY <4>2, <4>3
      <3>2. PICK q \in latest : q.num = f.num /\ h <= q.rev  BY DEF RInv, LatestLists
      <3>3. q = o  BY <3>2, <2>4 DEF RInv, LatestLists
      <3> QED  BY <3>1, <3>2, <3>3
    <2>5. Wins(sections, L, o.rev, e)
      <3>1. e.gen = 0  BY <2>1, <2>2, <2>4
      <3>2. \A h \in 1 .. L : \A f \in sections[h] : f.num = e.num => f.gen = e.gen /\ h <= o.rev
        BY Zenon, <2>2, <2>4, <3>1
      <3> QED  BY <2>3, <3>2 DEF Wins
    <2> QED  BY <1>3, <2>1, <2>2, <2>5
  <1> QED  BY <1>2, <1>3

\* The table has the latest objects, at the places of their revisions.
LEMMA LatestFound ==
    ASSUME RInv
    PROVE  LatestRevisionFound
  <1>1. ASSUME NEW o \in latest
        PROVE  /\ o.num \in DOMAIN ObjectMap
               /\ ObjectMap[o.num].Offset = At(IF Regenerated(o.num) THEN 1 ELSE o.rev, o.num)
    <2> DEFINE i == IF Regenerated(o.num) THEN 1 ELSE o.rev
    <2>1. i \in 1 .. Len(sections)  BY LatestWins
    <2>2. PICK e \in sections[i] : e.num = o.num /\ Wins(sections, Len(sections), i, e)  BY LatestWins
    <2>3. o.num \in DOMAIN ObjectMap /\ ObjectMap[o.num] = XrefOf(e)  BY ZenonT(30), <2>1, <2>2, WinnerLoaded
    <2>4. e.t = "inuse" /\ e.off = At(i, o.num)  BY <2>1, <2>2 DEF RInv, SectionsApart
    <2>5. XrefOf(e).Offset = At(i, o.num)  BY <2>4 DEF XrefOf
    <2> QED  BY <2>3, <2>5
  <1>2. ASSUME NEW n \in DOMAIN ObjectMap PROVE \E o \in latest : o.num = n
    <2>1. PICK e \in Listed(sections, Len(sections)) : e.num = n  BY DEF ObjectMap, LoadXrefs
    <2>2. PICK r \in 1 .. Len(sections) : e \in sections[r]  BY <2>1, ListedInUse
    <2> QED  BY <2>1, <2>2 DEF RInv, LatestLists
  <1>3. DOMAIN ObjectMap = {o.num : o \in latest}  BY Zenon, <1>1, <1>2
  <1> QED  BY <1>1, <1>3 DEF LatestRevisionFound

\* A set of numbers that is not empty has a least one.
LEMMA LeastNumber ==
    ASSUME NEW S \in SUBSET Nat, S # {}
    PROVE  \E x \in S : \A y \in S : x <= y
  <1> DEFINE R == OpToRel(<, Nat)
  <1>1. \A x, y \in Nat : (<<y, x>> \in R) <=> y < x  BY Zenon DEF OpToRel
  <1>2. IsWellFoundedOn(R, Nat)  BY NatLessThanWellFounded
  <1> HIDE DEF R
  <1>3. PICK x \in S : \A y \in S : ~(<<y, x>> \in R)  BY Zenon, <1>2, WFMin
  <1>4. \A y \in S : ~(y < x)  BY Zenon, <1>1, <1>3
  <1> QED  BY <1>4

\* A bounded set of numbers that is not empty has a greatest one, which Max returns.
LEMMA BoundedMax ==
    ASSUME NEW S \in SUBSET Nat, S # {}, NEW b \in Nat, \A x \in S : x <= b
    PROVE  Max(S) \in S /\ \A x \in S : x <= Max(S)
  <1> DEFINE Bounds == {c \in Nat : \A x \in S : x <= c}
  <1>1. PICK c \in Bounds : \A d \in Bounds : c <= d
    <2>1. b \in Bounds /\ Bounds \in SUBSET Nat  OBVIOUS
    <2> HIDE DEF Bounds
    <2> QED  BY <2>1, LeastNumber
  <1>2. c \in S
    <2> SUFFICES ASSUME c \notin S PROVE FALSE  OBVIOUS
    <2>1. \A x \in S : x < c  OBVIOUS
    <2>2. c - 1 \in Nat
      <3>1. PICK x \in S : TRUE  BY Zenon
      <3> QED  BY <2>1, <3>1
    <2>3. c - 1 \in Bounds  BY <2>1, <2>2
    <2> QED  BY <1>1, <2>3
  <1>3. \E x \in S : \A y \in S : x >= y  BY <1>2
  <1>4. Max(S) \in S /\ \A y \in S : Max(S) >= y  BY <1>3, Zenon DEF Max
  <1> QED  BY <1>4

\* The greatest number is above all that are in use, so the new ones are new.
LEMMA GreatestNumber ==
    ASSUME RInv
    PROVE  /\ greatestObjNum \in Nat
           /\ \A r \in 1 .. Len(sections) : \A e \in sections[r] : e.num <= greatestObjNum
           /\ \A o \in latest : o.num <= greatestObjNum
  <1> DEFINE S == DOMAIN ObjectMap \cup {0}
  <1>1. DOMAIN ObjectMap = {e.num : e \in Listed(sections, Len(sections))}
    BY DEF ObjectMap, LoadXrefs
  <1>2. PICK b \in Nat : \A r \in 1 .. Len(sections) : \A e \in sections[r] : e.num <= b
    BY Zenon DEF RInv, NumbersBounded
  <1>3. \A n \in DOMAIN ObjectMap : n \in Nat /\ n <= b
    <2> SUFFICES ASSUME NEW n \in DOMAIN ObjectMap PROVE n \in Nat /\ n <= b  OBVIOUS
    <2>1. PICK e \in Listed(sections, Len(sections)) : e.num = n  BY <1>1
    <2>2. PICK r \in 1 .. Len(sections) : e \in sections[r]  BY <2>1, ListedInUse
    <2> QED  BY <1>2, <2>1, <2>2, ListedInUse
  <1>4. greatestObjNum \in S /\ \A n \in S : n <= greatestObjNum
    <2>1. S \in SUBSET Nat /\ S # {} /\ \A n \in S : n <= b  BY <1>3
    <2> HIDE DEF S
    <2>2. Max(S) \in S /\ \A n \in S : n <= Max(S)  BY <2>1, BoundedMax
    <2> QED  BY <2>2 DEF greatestObjNum, S
  <1>5. \A r \in 1 .. Len(sections) : \A e \in sections[r] : e.num \in DOMAIN ObjectMap
    BY <1>1, ListedInUse
  <1>6. \A o \in latest : o.num \in DOMAIN ObjectMap  BY LatestFound DEF LatestRevisionFound
  <1> QED  BY <1>3, <1>4, <1>5, <1>6

\* The original document satisfies the invariant.
LEMMA InitRInv == RevisionsInit => RInv
  <1> SUFFICES ASSUME RevisionsInit PROVE RInv  OBVIOUS
  <1> DEFINE entry(n, gen) == [num |-> n, t |-> "inuse", gen |-> gen[n], off |-> At(1, n)]
             first(n) == [num |-> n, rev |-> 1]
  <1>0. PICK nums \in SUBSET (1 .. MaxOld) : \E gen \in [nums -> Gens] :
          sections = <<{entry(n, gen) : n \in nums}>> /\ latest = {first(n) : n \in nums}
    BY DEF RevisionsInit
  <1>1. PICK gen \in [nums -> Gens] :
          sections = <<{entry(n, gen) : n \in nums}>> /\ latest = {first(n) : n \in nums}
    BY <1>0
  <1>2. \A n \in nums : n \in Nat \ {0} /\ n <= MaxOld /\ gen[n] \in Nat /\ At(1, n) \in Nat
    <2> SUFFICES ASSUME NEW n \in nums
                 PROVE  n \in Nat \ {0} /\ n <= MaxOld /\ gen[n] \in Nat /\ At(1, n) \in Nat
      OBVIOUS
    <2>1. n \in Nat \ {0} /\ n <= MaxOld  BY BoundsAssumption
    <2>2. gen[n] \in Gens  OBVIOUS
    <2>3. gen[n] \in Nat  BY Zenon, <2>2, BoundsAssumption
    <2> QED  BY <2>1, <2>3, Places
  <1> DEFINE s == {entry(n, gen) : n \in nums}
  <1>3. s \in SUBSET Entry  BY <1>2 DEF Entry
  <1>4. /\ \A e \in s : e.num \in nums /\ e.t = "inuse" /\ e.off = At(1, e.num)
        /\ \A e, f \in s : e.num = f.num => e = f
        /\ \A n \in nums : \E e \in s : e.num = n
    <2>1. \A n \in nums : /\ entry(n, gen) \in s /\ entry(n, gen).num = n
                          /\ entry(n, gen).t = "inuse" /\ entry(n, gen).off = At(1, n)
      OBVIOUS
    <2>2. \A e \in s : \E n \in nums : e = entry(n, gen)  BY Zenon
    <2> HIDE DEF s, entry
    <2> QED  BY <2>1, <2>2
  <1>5. sections = <<s>>  BY <1>1
  <1> HIDE DEF s
  <1>6. sections \in Seq(SUBSET Entry) /\ Len(sections) = 1 /\ sections[1] = s
    BY <1>3, <1>5
  <1>7. RevisionsTypeOK
    <2>1. latest \subseteq [num : Nat \ {0}, rev : 1 .. MaxRevisions + 1]
      BY <1>1, <1>2, BoundsAssumption
    <2> QED  BY <2>1, <1>6, BoundsAssumption DEF RevisionsTypeOK
  <1>8. SectionsApart  BY <1>4, <1>6 DEF SectionsApart
  <1>9. NumbersBounded
    <2>0. \A r \in 1 .. Len(sections) : r = 1  BY <1>6
    <2>1. \A r \in 1 .. Len(sections) : \A e \in sections[r] : e.num <= MaxOld
      BY Zenon, <2>0, <1>2, <1>4, <1>6
    <2> QED  BY Zenon, <2>1, BoundsAssumption DEF NumbersBounded
  <1>10. LatestLists
    <2>1. \A n \in nums : first(n) \in latest /\ first(n).num = n /\ first(n).rev = 1  BY <1>1
    <2>2. \A o \in latest : \E n \in nums : o = first(n)  BY <1>1
    <2> HIDE DEF first
    <2>3. \A o, q \in latest : o.num = q.num => o = q  BY ZenonT(30), <2>1, <2>2
    <2>4. \A o \in latest : o.rev \in 1 .. Len(sections) /\ \E e \in sections[o.rev] : e.num = o.num
      BY <2>1, <2>2, <1>4, <1>6
    <2>5. \A r \in 1 .. Len(sections) : r = 1  BY <1>6
    <2>6. \A e \in sections[1] : \E o \in latest : o.num = e.num /\ 1 <= o.rev
      <3> SUFFICES ASSUME NEW e \in sections[1]
                   PROVE  \E o \in latest : o.num = e.num /\ 1 <= o.rev
        BY Zenon
      <3>1. e.num \in nums  BY <1>4, <1>6, Zenon
      <3>2. first(e.num) \in latest /\ first(e.num).num = e.num /\ first(e.num).rev = 1  BY <2>1, <3>1, Zenon
      <3>3. 1 <= first(e.num).rev  BY <3>2
      <3> QED  BY <3>2, <3>3, Zenon
    <2> QED  BY <2>3, <2>4, <2>5, <2>6 DEF LatestLists
  <1> QED  BY Zenon, <1>7, <1>8, <1>9, <1>10 DEF RInv

\* What an appended revision leaves: the sections there were and its own, and for
\* every object either the revision it had or the appended one.
LEMMA RevisionAppended ==
    ASSUME RInv, NEW replaced \in SUBSET DOMAIN ObjectMap, NEW fresh \in 2 .. MaxFresh,
           AppendRevision(replaced, fresh)
    PROVE  LET L == Len(sections)
               written == {e.num : e \in sections'[L + 1]}
           IN  /\ L \in Nat \ {0} /\ L + 1 <= MaxRevisions + 1
               /\ Len(sections') = L + 1 /\ sections' \in Seq(SUBSET Entry)
               /\ \A i \in 1 .. L : sections'[i] = sections[i]
               /\ \A e \in sections'[L + 1] : e.t = "inuse" /\ e.gen = 0 /\ e.off = At(L + 1, e.num)
               /\ \A e, f \in sections'[L + 1] : e.num = f.num => e = f
               /\ written \subseteq 1 .. greatestObjNum + MaxFresh
               /\ \A q \in latest' : (q \in latest /\ q.num \notin written)
                                     \/ (q = [num |-> q.num, rev |-> L + 1] /\ q.num \in written)
               /\ \A o \in latest : o.num \notin written => o \in latest'
               /\ \A n \in written : \E q \in latest' : q.num = n
  <1> DEFINE L == Len(sections)
             g == greatestObjNum
             new == {g + i : i \in 1 .. fresh}
             nums == replaced \cup new
             entry(n) == [num |-> n, t |-> "inuse", gen |-> 0, off |-> At(L + 1, n)]
             s == {entry(n) : n \in nums}
  <1>1. /\ L + 1 <= MaxRevisions + 1
        /\ sections' = Append(sections, s)
        /\ latest' = {[o EXCEPT !.rev = IF o.num \in replaced THEN L + 1 ELSE @] : o \in latest}
                     \cup {[num |-> n, rev |-> L + 1] : n \in new}
    BY DEF AppendRevision
  <1>2. L \in Nat \ {0} /\ sections \in Seq(SUBSET Entry)
    BY BoundsAssumption DEF RInv, RevisionsTypeOK
  <1>3. g \in Nat /\ fresh \in Nat /\ fresh <= MaxFresh /\ MaxFresh \in Nat
    BY GreatestNumber, BoundsAssumption
  <1>4. DOMAIN ObjectMap = {o.num : o \in latest}  BY LatestFound DEF LatestRevisionFound
  <1>5. \A o \in latest : o = [num |-> o.num, rev |-> o.rev] /\ o.num \in Nat \ {0} /\ o.num <= g
    <2>1. latest \subseteq [num : Nat \ {0}, rev : 1 .. MaxRevisions + 1]  BY DEF RInv, RevisionsTypeOK
    <2> QED  BY <2>1, GreatestNumber
  <1>6. \A n \in new : n \in Nat \ {0} /\ n > g /\ n <= g + MaxFresh  BY <1>3
  <1>7. \A n \in replaced : n \in Nat \ {0} /\ n <= g + MaxFresh /\ \E o \in latest : o.num = n
    BY <1>3, <1>4, <1>5
  <1>8. nums \subseteq 1 .. g + MaxFresh  BY <1>3, <1>6, <1>7
  <1>9. s \in SUBSET Entry
    <2>1. \A n \in nums : n \in Nat \ {0}  BY <1>3, <1>8
    <2>2. L + 1 \in Nat \ {0}  BY <1>2
    <2>3. \A n \in nums : At(L + 1, n) \in Nat  BY Zenon, <2>1, <2>2, Places
    <2> QED  BY <2>1, <2>3 DEF Entry
  <1>10. /\ sections' \in Seq(SUBSET Entry) /\ Len(sections') = L + 1
         /\ \A i \in 1 .. L : sections'[i] = sections[i]
         /\ sections'[L + 1] = s
    <2> HIDE DEF s
    <2> QED  BY <1>1, <1>2, <1>9, AppendProperties
  <1>11. /\ \A e \in s : e.t = "inuse" /\ e.gen = 0 /\ e.off = At(L + 1, e.num) /\ e.num \in nums
         /\ \A e, f \in s : e.num = f.num => e = f
         /\ \A n \in nums : \E e \in s : e.num = n
    <2>1. \A n \in nums : /\ entry(n) \in s /\ entry(n).num = n /\ entry(n).gen = 0
                          /\ entry(n).t = "inuse" /\ entry(n).off = At(L + 1, n)
      OBVIOUS
    <2>2. \A e \in s : \E n \in nums : e = entry(n)  OBVIOUS
    <2> HIDE DEF s, entry, nums
    <2> QED  BY <2>1, <2>2
  <1>12. {e.num : e \in s} = nums  BY <1>11
  <1>13. \A q \in latest' : (q \in latest /\ q.num \notin nums)
                            \/ (q = [num |-> q.num, rev |-> L + 1] /\ q.num \in nums)
    <2> SUFFICES ASSUME NEW q \in latest'
                 PROVE  (q \in latest /\ q.num \notin nums)
                        \/ (q = [num |-> q.num, rev |-> L + 1] /\ q.num \in nums)
      OBVIOUS
    <2>1. CASE \E n \in new : q = [num |-> n, rev |-> L + 1]  BY <2>1
    <2>2. CASE \E o \in latest : q = [o EXCEPT !.rev = IF o.num \in replaced THEN L + 1 ELSE @]
      <3>1. PICK o \in latest : q = [o EXCEPT !.rev = IF o.num \in replaced THEN L + 1 ELSE @]
        BY <2>2
      <3>2. o.num \notin new  BY <1>3, <1>5, <1>6
      <3>3. o.num \in replaced => q = [num |-> o.num, rev |-> L + 1]  BY <3>1, <1>5
      <3>4. o.num \notin replaced => q = o  BY <3>1, <1>5
      <3> QED  BY <3>2, <3>3, <3>4
    <2> QED  BY Zenon, <1>1, <2>1, <2>2
  <1>14. \A o \in latest : o.num \notin nums => o \in latest'
    <2> SUFFICES ASSUME NEW o \in latest, o.num \notin nums PROVE o \in latest'  OBVIOUS
    <2>1. [o EXCEPT !.rev = IF o.num \in replaced THEN L + 1 ELSE @] = o  BY <1>5
    <2> QED  BY <1>1, <2>1
  <1>15. \A n \in nums : \E q \in latest' : q.num = n
    <2> SUFFICES ASSUME NEW n \in nums PROVE \E q \in latest' : q.num = n  OBVIOUS
    <2>1. CASE n \in new
      <3>1. [num |-> n, rev |-> L + 1] \in latest'  BY Zenon, <1>1, <2>1
      <3> QED  BY <3>1
    <2>2. CASE n \in replaced
      <3>1. PICK o \in latest : o.num = n  BY <2>2, <1>7
      <3>2. [o EXCEPT !.rev = IF o.num \in replaced THEN L + 1 ELSE @] \in latest'  BY Zenon, <1>1
      <3>3. [o EXCEPT !.rev = IF o.num \in replaced THEN L + 1 ELSE @].num = n  BY <3>1, <1>5
      <3> QED  BY Zenon, <3>2, <3>3
    <2> QED  BY <2>1, <2>2
  <1> HIDE DEF s
  <1> QED  BY Zenon, <1>1, <1>2, <1>8, <1>10, <1>11, <1>12, <1>13, <1>14, <1>15 DEF g

\* An appended revision preserves the invariant.
LEMMA StepRInv == RInv /\ [RevisionsNext]_revisionsVars => RInv'
  <1> SUFFICES ASSUME RInv, [RevisionsNext]_revisionsVars PROVE RInv'  OBVIOUS
  <1>1. CASE UNCHANGED revisionsVars
    BY Zenon, <1>1 DEF revisionsVars, RInv, RevisionsTypeOK, SectionsApart, NumbersBounded, LatestLists
  <1>2. CASE RevisionsNext
    <2>1. PICK replaced \in SUBSET DOMAIN ObjectMap, fresh \in 2 .. MaxFresh :
            AppendRevision(replaced, fresh)
      BY <1>2 DEF RevisionsNext
    <2> DEFINE L == Len(sections)
               written == {e.num : e \in sections'[L + 1]}
    <2>2. /\ L \in Nat \ {0} /\ L + 1 <= MaxRevisions + 1
          /\ Len(sections') = L + 1 /\ sections' \in Seq(SUBSET Entry)
          /\ \A i \in 1 .. L : sections'[i] = sections[i]
      BY Zenon, <2>1, RevisionAppended
    <2>3. /\ \A e \in sections'[L + 1] : e.t = "inuse" /\ e.gen = 0 /\ e.off = At(L + 1, e.num)
          /\ \A e, f \in sections'[L + 1] : e.num = f.num => e = f
          /\ written \subseteq 1 .. greatestObjNum + MaxFresh
      BY Zenon, <2>1, RevisionAppended
    <2>4. /\ \A q \in latest' : (q \in latest /\ q.num \notin written)
                                \/ (q = [num |-> q.num, rev |-> L + 1] /\ q.num \in written)
          /\ \A o \in latest : o.num \notin written => o \in latest'
          /\ \A n \in written : \E q \in latest' : q.num = n
      BY Zenon, <2>1, RevisionAppended
    <2>5. \A r \in 1 .. Len(sections') : r \in 1 .. L \/ r = L + 1  BY <2>2
    <2>6. greatestObjNum \in Nat /\ MaxFresh \in Nat /\ MaxRevisions \in Nat
      BY GreatestNumber, BoundsAssumption
    <2>7. \A e \in sections'[L + 1] : e.num \in written  OBVIOUS
    <2>8. \A n \in written : \E e \in sections'[L + 1] : e.num = n  OBVIOUS
    <2> HIDE DEF written, L
    <2>9. RevisionsTypeOK'
      <3>1. latest' \subseteq [num : Nat \ {0}, rev : 1 .. MaxRevisions + 1]
        <4> SUFFICES ASSUME NEW q \in latest' PROVE q \in [num : Nat \ {0}, rev : 1 .. MaxRevisions + 1]
          OBVIOUS
        <4>1. CASE q \in latest  BY <4>1 DEF RInv, RevisionsTypeOK
        <4>2. CASE q = [num |-> q.num, rev |-> L + 1] /\ q.num \in written
          <5>1. q.num \in Nat \ {0} /\ L + 1 \in 1 .. MaxRevisions + 1  BY <4>2, <2>2, <2>3, <2>6
          <5> QED  BY <4>2, <5>1
        <4> QED  BY Zenon, <2>4, <4>1, <4>2
      <3>2. Len(sections') \in 1 .. MaxRevisions + 1  BY <2>2, <2>6
      <3> QED  BY Zenon, <3>1, <3>2, <2>2 DEF RevisionsTypeOK
    <2>10. SectionsApart'
      <3>1. \A r \in 1 .. L : \A e \in sections[r] :
              e.t = "inuse" /\ e.off = At(r, e.num) /\ (r > 1 => e.gen = 0)
        BY DEF RInv, SectionsApart, L
      <3>2. \A r \in 1 .. L : \A e, f \in sections[r] : e.num = f.num => e = f
        BY Zenon DEF RInv, SectionsApart, L
      <3>3. \A r \in 1 .. Len(sections') : \A e \in sections'[r] :
              e.t = "inuse" /\ e.off = At(r, e.num) /\ (r > 1 => e.gen = 0)
        BY Zenon, <3>1, <2>2, <2>3, <2>5
      <3>4. \A r \in 1 .. Len(sections') : \A e, f \in sections'[r] : e.num = f.num => e = f
        BY <3>2, <2>2, <2>3, <2>5
      <3> QED  BY <3>3, <3>4 DEF SectionsApart
    <2>11. NumbersBounded'
      <3> DEFINE b == greatestObjNum + MaxFresh
      <3>1. b \in Nat  BY <2>6
      <3>2. \A r \in 1 .. L : \A e \in sections[r] : e.num <= b
        <4> SUFFICES ASSUME NEW r \in 1 .. L, NEW e \in sections[r] PROVE e.num <= b  OBVIOUS
        <4>1. e.num <= greatestObjNum  BY GreatestNumber DEF L
        <4>2. e.num \in Nat  BY ListedInUse DEF L
        <4> QED  BY <4>1, <4>2, <2>6
      <3>3. \A e \in sections'[L + 1] : e.num <= b
        <4>1. \A n \in 1 .. b : n <= b  BY <3>1
        <4> QED  BY Zenon, <4>1, <2>3, <2>7
      <3> HIDE DEF b
      <3>4. \A r \in 1 .. Len(sections') : \A e \in sections'[r] : e.num <= b
        BY Zenon, <3>2, <3>3, <2>2, <2>5
      <3> QED  BY Zenon, <3>1, <3>4 DEF NumbersBounded
    <2>12. LatestLists'
      <3>1. \A o, q \in latest : o.num = q.num => o = q  BY DEF RInv, LatestLists
      <3>2. \A o \in latest : o.rev \in 1 .. L /\ \E e \in sections[o.rev] : e.num = o.num
        BY DEF RInv, LatestLists, L
      <3>3. \A r \in 1 .. L : \A e \in sections[r] : \E o \in latest : o.num = e.num /\ r <= o.rev
        BY DEF RInv, LatestLists, L
      <3>4. \A o, q \in latest' : o.num = q.num => o = q  BY <3>1, <2>4
      <3>5. ASSUME NEW q \in latest'
            PROVE  q.rev \in 1 .. Len(sections') /\ \E e \in sections'[q.rev] : e.num = q.num
        <4>1. CASE q \in latest  BY <4>1, <3>2, <2>2
        <4>2. CASE q = [num |-> q.num, rev |-> L + 1] /\ q.num \in written
          <5>1. q.rev = L + 1 /\ L + 1 \in 1 .. Len(sections')  BY <4>2, <2>2
          <5> QED  BY Zenon, <5>1, <4>2, <2>8
        <4> QED  BY Zenon, <2>4, <4>1, <4>2
      <3>6. ASSUME NEW r \in 1 .. Len(sections'), NEW e \in sections'[r]
            PROVE  \E q \in latest' : q.num = e.num /\ r <= q.rev
        <4>1. CASE e.num \in written
          <5>1. PICK q \in latest' : q.num = e.num  BY <4>1, <2>4
          <5>2. q = [num |-> q.num, rev |-> L + 1]  BY Zenon, <5>1, <4>1, <2>4
          <5>3. q.rev = L + 1 /\ r <= L + 1  BY <5>2, <2>2
          <5> QED  BY <5>1, <5>3
        <4>2. CASE e.num \notin written
          <5>1. r \in 1 .. L /\ e \in sections[r]  BY Zenon, <4>2, <2>2, <2>5, <2>7
          <5>2. PICK o \in latest : o.num = e.num /\ r <= o.rev  BY <5>1, <3>3
          <5>3. o \in latest'  BY <5>2, <4>2, <2>4
          <5> QED  BY <5>2, <5>3
        <4> QED  BY <4>1, <4>2
      <3> QED  BY Zenon, <3>4, <3>5, <3>6 DEF LatestLists
    <2> QED  BY <2>9, <2>10, <2>11, <2>12 DEF RInv
  <1> QED  BY <1>1, <1>2

\* The invariant of appended revisions always holds.
LEMMA RInvAlways == RevisionsSpec => []RInv
  BY InitRInv, StepRInv, PTL DEF RevisionsSpec

\* After any number of revisions, of any sizes, loadXrefs finds every object where the
\* appender has put it last, and no others.
THEOREM LatestRevisionFoundAlways == RevisionsSpec => []LatestRevisionFound
  <1>1. RInv => LatestRevisionFound  BY LatestFound
  <1> QED  BY <1>1, RInvAlways, PTL

-----------------------------------------------------------------------------
\* What a reader of the first r sections of ss finds, for the objects that were of
\* generation 0.
Found(ss, r) ==
    [n \in {m \in DOMAIN LoadXrefs(ss, r) : ~\E e \in ss[1] : e.num = m /\ e.gen > 0} |->
        RevisionAt(n, LoadXrefs(ss, r)[n].Offset)]

\* A reader of the whole file finds the latest revisions.
LatestRead ==
    /\ Len(sections) \in Nat \ {0}
    /\ DOMAIN Found(sections, Len(sections)) = {n \in {o.num : o \in latest} : ~Regenerated(n)}
    /\ \A o \in latest : ~Regenerated(o.num) => Found(sections, Len(sections))[o.num] = o.rev

\* The places tell the revisions apart.
LEMMA LatestIsRead == RInv => LatestRead
  <1> SUFFICES ASSUME RInv PROVE LatestRead  OBVIOUS
  <1>1. LatestRevisionFound  BY Zenon, LatestFound
  <1>2. DOMAIN Found(sections, Len(sections)) = {n \in DOMAIN ObjectMap : ~Regenerated(n)}
    BY DEF Found, ObjectMap, Regenerated
  <1>3. ASSUME NEW o \in latest, ~Regenerated(o.num)
        PROVE  Found(sections, Len(sections))[o.num] = o.rev
    <2>1. o.num \in Nat \ {0} /\ o.rev \in 1 .. MaxRevisions + 1  BY DEF RInv, RevisionsTypeOK
    <2>2. o.num \in DOMAIN ObjectMap /\ ObjectMap[o.num].Offset = At(o.rev, o.num)
      BY <1>1, <1>3 DEF LatestRevisionFound
    <2>3. \A r \in 1 .. MaxRevisions + 1 : r \in Nat \ {0}  BY BoundsAssumption
    <2>4. \A r \in 1 .. MaxRevisions + 1 : At(r, o.num) = At(o.rev, o.num) => r = o.rev
      BY Zenon, <2>1, <2>3, Places
    <2>5. RevisionAt(o.num, At(o.rev, o.num)) = o.rev  BY Zenon, <2>1, <2>4 DEF RevisionAt
    <2>6. Found(sections, Len(sections))[o.num] = RevisionAt(o.num, ObjectMap[o.num].Offset)
      BY Zenon, <1>2, <1>3, <2>2 DEF Found, ObjectMap
    <2> QED  BY <2>2, <2>5, <2>6
  <1>4. Len(sections) \in Nat \ {0}  BY Zenon, ListedInUse
  <1> QED  BY <1>1, <1>2, <1>3, <1>4 DEF LatestRead, LatestRevisionFound

\* The refinement mapping, by what readers find.
LEMMA VersionsFound ==
    /\ versions = [r \in 1 .. Len(sections) |-> Found(sections, r)]
    /\ versions' = [r \in 1 .. Len(sections') |-> Found(sections', r)]
  BY DEF versions, Version, Found, Regenerated

\* A reader of the sections there were finds in the longer file what it found before.
LEMMA OlderPart ==
    ASSUME NEW ss, NEW tt, NEW L \in Nat, \A i \in 1 .. L : tt[i] = ss[i], NEW r \in 1 .. L
    PROVE  Found(tt, r) = Found(ss, r)
  <1>1. \A i \in 1 .. r : tt[i] = ss[i]  OBVIOUS
  <1>2. Listed(tt, r) = Listed(ss, r)  BY <1>1 DEF Listed
  <1>3. \A e : \A i \in 1 .. r : Wins(tt, r, i, e) <=> Wins(ss, r, i, e)  BY <1>1, Zenon DEF Wins
  <1>4. LoadXrefs(tt, r) = LoadXrefs(ss, r)
    <2>1. \A n : Winners(tt, r, n) = Winners(ss, r, n)  BY <1>2, <1>3 DEF Winners
    <2>2. \A n : Winner(tt, r, n) = Winner(ss, r, n)
      <3> TAKE n
      <3> DEFINE V == Winners(ss, r, n)
                 W == Winners(tt, r, n)
      <3>1. W = V  BY <2>1
      <3> HIDE DEF V, W
      <3>2. (CHOOSE e \in W : TRUE) = (CHOOSE e \in V : TRUE)  BY <3>1
      <3> QED  BY <3>2 DEF V, W, Winner
    <2> QED  BY <1>2, <2>2 DEF LoadXrefs
  <1>5. tt[1] = ss[1]  BY <1>1
  <1> QED  BY <1>4, <1>5 DEF Found

\* An original document is a store of one version.
LEMMA InitRefines == RevisionsInit => Store!Init
  <1> SUFFICES ASSUME RevisionsInit PROVE Store!Init  OBVIOUS
  <1>1. RInv  BY InitRInv
  <1>2. LatestRead  BY Zenon, <1>1, LatestIsRead
  <1>3. Len(sections) = 1 /\ \A o \in latest : o.rev = 1  BY DEF RevisionsInit
  <1>4. versions = [r \in 1 .. 1 |-> Found(sections, r)]  BY <1>3, VersionsFound
  <1>5. versions \in Seq({Found(sections, 1)}) /\ Len(versions) = 1 /\ versions[1] = Found(sections, 1)
    BY <1>4
  <1>6. \A n \in DOMAIN Found(sections, 1) : Found(sections, 1)[n] = 1
    BY <1>2, <1>3 DEF LatestRead
  <1> QED  BY <1>5, <1>6 DEF Store!Init

\* An appended revision commits a version.
LEMMA StepRefines == RInv /\ RInv' /\ [RevisionsNext]_revisionsVars => [Store!Commit]_versions
  <1> SUFFICES ASSUME RInv, RInv', [RevisionsNext]_revisionsVars PROVE [Store!Commit]_versions  OBVIOUS
  <1>1. CASE UNCHANGED revisionsVars
    <2>1. versions' = versions  BY <1>1, VersionsFound DEF revisionsVars
    <2> QED  BY <2>1
  <1>2. CASE RevisionsNext
    <2>1. PICK replaced \in SUBSET DOMAIN ObjectMap, fresh \in 2 .. MaxFresh :
            AppendRevision(replaced, fresh)
      BY <1>2 DEF RevisionsNext
    <2> DEFINE L == Len(sections)
               written == {e.num : e \in sections'[L + 1]}
               old == Found(sections, L)
               new == Found(sections', L + 1)
    <2>2. L \in Nat \ {0} /\ Len(sections') = L + 1 /\ \A i \in 1 .. L : sections'[i] = sections[i]
      BY Zenon, <2>1, RevisionAppended
    <2>3. /\ \A q \in latest' : q \in latest \/ q = [num |-> q.num, rev |-> L + 1]
          /\ \A o \in latest : o.num \notin written => o \in latest'
          /\ \A n \in written : \E q \in latest' : q.num = n
      BY Zenon, <2>1, RevisionAppended
    <2>4. LatestRead  BY LatestIsRead
    <2>5. RInv' => LatestRead'  BY LatestIsRead, PTL
    <2>6. \A n : Regenerated(n)' <=> Regenerated(n)
      <3>1. sections'[1] = sections[1]  BY <2>2
      <3> QED  BY <3>1 DEF Regenerated
    <2>7. /\ DOMAIN new = {n \in {q.num : q \in latest'} : ~Regenerated(n)}
          /\ \A q \in latest' : ~Regenerated(q.num) => new[q.num] = q.rev
      <3>1. /\ DOMAIN new = {n \in {q.num : q \in latest'} : ~Regenerated(n)'}
            /\ \A q \in latest' : ~Regenerated(q.num)' => new[q.num] = q.rev
        BY Zenon, <2>2, <2>5 DEF LatestRead
      <3> QED  BY Zenon, <3>1, <2>6
    <2>8. /\ DOMAIN old = {n \in {o.num : o \in latest} : ~Regenerated(n)}
          /\ \A o \in latest : ~Regenerated(o.num) => old[o.num] = o.rev
      BY <2>4 DEF LatestRead
    <2>9. /\ Len(versions) = L /\ Len(versions') = L + 1
          /\ \A i \in 1 .. L : versions[i] = Found(sections, i) /\ versions'[i] = Found(sections', i)
          /\ versions[L] = old /\ versions'[L + 1] = new
      BY <2>2, VersionsFound
    <2>10. \A i \in 1 .. L : versions'[i] = versions[i]
      BY ZenonT(60), <2>2, <2>9, OlderPart
    <2> HIDE DEF old, new, written
    <2>11. DOMAIN old \subseteq DOMAIN new
      <3>1. \A o \in latest : \E q \in latest' : q.num = o.num  BY <2>3
      <3> QED  BY <3>1, <2>7, <2>8
    <2>12. ASSUME NEW n \in DOMAIN new PROVE new[n] = L + 1 \/ (n \in DOMAIN old /\ new[n] = old[n])
      <3>1. PICK q \in latest' : q.num = n /\ ~Regenerated(n)  BY <2>7
      <3>2. new[n] = q.rev  BY Zenon, <3>1, <2>7
      <3>3. CASE q \in latest  BY Zenon, <3>1, <3>2, <3>3, <2>8
      <3>4. CASE q = [num |-> q.num, rev |-> L + 1]
        <4>1. q.rev = L + 1  BY <3>4
        <4> QED  BY Zenon, <3>2, <4>1
      <3> QED  BY Zenon, <2>3, <3>3, <3>4
    <2>13. Len(versions) + 1 = L + 1 /\ (L + 1) - 1 = L  BY <2>2, <2>9
    <2>14. Store!Commit  BY Zenon, <2>9, <2>10, <2>11, <2>12, <2>13 DEF Store!Commit
    <2> QED  BY <2>14
  <1> QED  BY <1>1, <1>2

\* What PdfAppender appends and loadXrefs reads implement a store of versions, for any
\* number of revisions: every revision adds a version that differs from the last one
\* in what it has written, and the older versions stay readable.
THEOREM RefinesStoreHolds == RevisionsSpec => RefinesStore
  BY InitRefines, StepRefines, RInvAlways, PTL DEF RevisionsSpec, RefinesStore, Store!Spec
=============================================================================

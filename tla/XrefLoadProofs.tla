--------------------------- MODULE XrefLoadProofs ---------------------------
(***************************************************************************)
(* What opening a document guarantees: the loader of cross-reference       *)
(* sections (XrefLoad) for every set of offsets, object numbers,           *)
(* generations and files, and the searches for the end of the file that    *)
(* come before it (TailScan) for every window, size and placement of the   *)
(* marker.                                                                 *)
(***************************************************************************)
EXTENDS XrefLoad, TailScan, FiniteSetTheorems, SequenceTheorems, WellFoundedInduction, TLAPS

\* A section found at an offset of the file, and its entries.
LEMMA SectionType ==
    ASSUME TypeOK, NEW s \in Offsets
    PROVE  /\ file[s] \in Section
           /\ Len(file[s].ents) \in Nat
           /\ \A i \in 1 .. Len(file[s].ents) : file[s].ents[i] \in Entry
  <1>1. file[s] \in Section  BY DEF TypeOK
  <1>2. file[s].ents \in Seq(Entry)  BY <1>1 DEF Section
  <1> QED  BY <1>1, <1>2, LenProperties, ElementOfSeq

\* Renumbering the record that a stream holds of itself gives an entry again.
LEMMA NumberedType ==
    ASSUME TypeOK, pos \in 1 .. Len(file[cur].ents)
    PROVE  Numbered(cur, file[cur].ents[pos]) \in Entry
  <1>1. cur \in Offsets  BY DEF TypeOK
  <1>2. file[cur].ents[pos] \in Entry /\ file[cur] \in Section  BY <1>1, SectionType
  <1>3. file[cur].self \in ObjNums  BY <1>2 DEF Section
  <1> DEFINE x == file[cur].ents[pos]
  <1>4. [x EXCEPT !.num = file[cur].self] \in Entry  BY <1>2, <1>3 DEF Entry
  <1> QED  BY <1>2, <1>4 DEF Numbered

\* An entry that is loaded becomes an object of the table.
LEMMA LoadType ==
    ASSUME NEW e \in Entry, NEW k, InUse(k, e),
           NEW map, DOMAIN map \subseteq ObjNums, \A n \in DOMAIN map : map[n] \in XrefObject
    PROVE  /\ DOMAIN Load(e, map) \subseteq ObjNums
           /\ \A n \in DOMAIN Load(e, map) : Load(e, map)[n] \in XrefObject
  <1>1. XrefOf(e) \in XrefObject /\ e.num \in ObjNums
    BY DEF XrefOf, XrefObject, Entry, InUse
  <1> QED  BY <1>1 DEF Load

\* Only a table or a stream is ever parsed past its head.
Opened == pos > 0 => file[cur].kind # "junk"

TInv == TypeOK /\ Opened

\* A document is opened with nothing loaded.
LEMMA InitTInv == Init => TInv
  BY FilesAssumption, OffsetsAssumption DEF Init, TInv, TypeOK, Opened, Terminal

\* The type a document gets from the section parsed first.
LEMMA XrefTypeType ==
    ASSUME TInv, SectionParsed, SetXrefType
    PROVE  xrefType' \in {"nil", "table", "stream"}
  <1>1. cur \in Offsets  BY DEF TInv, TypeOK
  <1>2. file[cur] \in Section  BY <1>1, SectionType DEF TInv
  <1>3. file[cur].kind # "junk"  BY DEF TInv, Opened, SectionParsed
  <1> QED  BY <1>2, <1>3 DEF TInv, TypeOK, SetXrefType, Section

\* Every step of the loader keeps its variables in their types.
LEMMA StepTInv == TInv /\ [Next]_vars => TInv'
  <1> SUFFICES ASSUME TInv, [Next]_vars PROVE TInv'  OBVIOUS
  <1>0. TypeOK /\ Opened /\ cur \in Offsets /\ file[cur] \in Section
    <2>1. TypeOK /\ Opened /\ cur \in Offsets  BY DEF TInv, TypeOK
    <2> QED  BY <2>1, SectionType
  <1>1. CASE OpenTable  BY <1>0, <1>1 DEF OpenTable, TInv, TypeOK, Opened
  <1>2. CASE OpenStream
    <2>1. sortedObjects' \subseteq Nat
      <3>1. \A n \in DOMAIN ObjectMap : ObjectMap[n].Offset \in Nat
        BY <1>0 DEF TypeOK, XrefObject
      <3> QED  BY <1>0, <1>2, <3>1, Zenon DEF OpenStream, FillSortedObjects, TypeOK
    <2> QED  BY <1>0, <1>2, <2>1 DEF OpenStream, TInv, TypeOK, Opened
  <1>3. CASE RepairSeek
    <2>1. CASE LastTable = {} /\ SectionFails /\ UNCHANGED <<cur, pos>>
      BY <1>0, <1>3, <2>1 DEF RepairSeek, SectionFails, Terminal, TInv, TypeOK, Opened
    <2>2. CASE cur' \in LastTable /\ pos' = 1 /\ UNCHANGED phase
      BY <1>0, <1>3, <2>2 DEF RepairSeek, LastTable, TInv, TypeOK, Opened
    <2> QED  BY <1>3, <2>1, <2>2 DEF RepairSeek
  <1>4. CASE XRefStmMissing
    BY <1>0, <1>4 DEF XRefStmMissing, SectionFails, Terminal, TInv, TypeOK, Opened
  <1>5. CASE ParseEntry
    <2> DEFINE e == Numbered(cur, file[cur].ents[pos])
    <2>1. e \in Entry  BY <1>0, <1>5, NumberedType DEF ParseEntry
    <2>2. /\ DOMAIN ObjectMap' \subseteq ObjNums
          /\ \A n \in DOMAIN ObjectMap' : ObjectMap'[n] \in XrefObject
          /\ loaded' \in Seq(Entry)
      <3>1. CASE InUse(file[cur].kind, e)
        <4>1. ObjectMap' = Load(e, ObjectMap) /\ loaded' = Append(loaded, e)
          BY <1>5, <3>1 DEF ParseEntry
        <4> HIDE DEF e
        <4>2. loaded' \in Seq(Entry)  BY <1>0, <2>1, <4>1, AppendProperties DEF TypeOK
        <4> QED  BY <1>0, <2>1, <3>1, <4>1, <4>2, LoadType DEF TypeOK
      <3>2. CASE ~InUse(file[cur].kind, e)  BY <1>0, <1>5, <3>2 DEF ParseEntry, TypeOK
      <3> QED  BY <3>1, <3>2
    <2>3. pos' \in Nat /\ pos > 0  BY <1>0, <1>5 DEF ParseEntry, TypeOK
    <2> QED  BY <1>0, <1>5, <2>2, <2>3 DEF ParseEntry, TInv, TypeOK, Opened
  <1>6. CASE BadTrailer
    BY <1>0, <1>6 DEF BadTrailer, SectionFails, Terminal, TInv, TypeOK, Opened
  <1>7. CASE FollowXRefStm
    <2>1. file[cur].xrefstm \in Offsets  BY <1>0, <1>7 DEF FollowXRefStm, Section
    <2>2. xrefType' \in {"nil", "table", "stream"}  BY <1>7, XrefTypeType DEF FollowXRefStm
    <2> QED  BY <1>0, <1>7, <2>1, <2>2 DEF FollowXRefStm, TInv, TypeOK, Opened
  <1>8. CASE FollowFirstPrev
    <2>1. xrefType' \in {"nil", "table", "stream"}  BY <1>8, XrefTypeType DEF FollowFirstPrev
    <2> QED  BY <1>0, <1>8, <2>1 DEF FollowFirstPrev, Terminal, TInv, TypeOK, Opened
  <1>9. CASE FollowPrev
    <2>1. xrefType' \in {"nil", "table", "stream"}  BY <1>9, XrefTypeType DEF FollowPrev
    <2>2. file[cur].prev \in Offsets \cup {None, NotInt}  BY <1>0 DEF Section
    <2>3. CASE phase' \in Terminal /\ UNCHANGED <<cur, pos, prevList>>
      BY <1>0, <1>9, <2>1, <2>3 DEF FollowPrev, TInv, TypeOK, Opened
    <2>4. CASE /\ file[cur].prev \in Offsets /\ prevList' = Remember(file[cur].prev)
               /\ cur' = file[cur].prev /\ pos' = 0 /\ UNCHANGED phase
      <3>1. prevList' \in Seq(Offsets)
        BY <1>0, <2>4, AppendProperties DEF Remember, TypeOK
      <3> QED  BY <1>0, <1>9, <2>1, <2>4, <3>1 DEF FollowPrev, TInv, TypeOK, Opened
    <2> QED  BY <1>9, <2>2, <2>3, <2>4 DEF FollowPrev, Terminal
  <1>10. CASE UNCHANGED vars  BY <1>0, <1>10 DEF vars, TInv, TypeOK, Opened
  <1> QED  BY <1>1, <1>2, <1>3, <1>4, <1>5, <1>6, <1>7, <1>8, <1>9, <1>10 DEF Next

\* The loader never leaves its types: the table holds objects in use only, and
\* only known offsets are followed.
THEOREM TypeCorrect == Spec => []TypeOK
  <1>1. TInv => TypeOK  BY DEF TInv
  <1> QED  BY InitTInv, StepTInv, <1>1, PTL DEF Spec

-----------------------------------------------------------------------------
\* One entry more: the table still holds the winners.
LEMMA LoadWins ==
    ASSUME TypeOK, HighestGenerationWins, NEW e \in Entry, e.t # "free",
           ObjectMap' = Load(e, ObjectMap), loaded' = Append(loaded, e)
    PROVE  HighestGenerationWins'
  <1> DEFINE L == Len(loaded)
  <1>1. loaded \in Seq(Entry) /\ L \in Nat /\ DOMAIN loaded = 1 .. L
    BY LenProperties DEF TypeOK
  <1>2. /\ loaded' \in Seq(Entry) /\ DOMAIN loaded' = 1 .. L + 1
        /\ \A i \in 1 .. L : loaded'[i] = loaded[i]
        /\ loaded'[L + 1] = e
    <2>1. loaded' \in Seq(Entry) /\ Len(loaded') = L + 1  BY <1>1, AppendProperties
    <2> QED  BY <1>1, <2>1, AppendProperties, LenProperties
  <1>3. \A i \in 1 .. L : loaded[i] \in Entry  BY <1>1, ElementOfSeq
  <1>4. \A x \in Entry : x.gen \in Nat /\ XrefOf(x).Generation = x.gen
    BY GensAssumption, Zenon DEF Entry, XrefOf
  <1>5. e.t = "compressed" => e.gen = 0  BY DEF Entry
  <1>6. e.t \in {"compressed", "inuse"}  BY DEF Entry
  <1> SUFFICES ASSUME NEW n \in ObjNums
               PROVE  LET met == {i \in DOMAIN loaded' : loaded'[i].num = n}
                      IN  /\ n \in DOMAIN ObjectMap' <=> met # {}
                          /\ n \in DOMAIN ObjectMap' =>
                               \E i \in met :
                                  /\ ObjectMap'[n] = XrefOf(loaded'[i])
                                  /\ \A j \in met : \/ loaded'[j].gen < loaded'[i].gen
                                                    \/ loaded'[j].gen = loaded'[i].gen /\ i <= j
    BY Zenon DEF HighestGenerationWins, XrefOf
  <1> DEFINE met == {i \in DOMAIN loaded : loaded[i].num = n}
             metp == {i \in DOMAIN loaded' : loaded'[i].num = n}
  <1>7. /\ n \in DOMAIN ObjectMap <=> met # {}
        /\ n \in DOMAIN ObjectMap =>
             \E i \in met : /\ ObjectMap[n] = XrefOf(loaded[i])
                            /\ \A j \in met : \/ loaded[j].gen < loaded[i].gen
                                              \/ loaded[j].gen = loaded[i].gen /\ i <= j
    BY DEF HighestGenerationWins
  <1>8. CASE e.num # n
    <2>1. metp = met  BY <1>1, <1>2, <1>8
    <2>2. n \in DOMAIN ObjectMap' <=> n \in DOMAIN ObjectMap  BY <1>8 DEF Load
    <2>3. n \in DOMAIN ObjectMap => ObjectMap'[n] = ObjectMap[n]  BY <1>8 DEF Load
    <2> QED  BY <1>1, <1>2, <1>7, <2>1, <2>2, <2>3
  <1>9. CASE e.num = n
    <2>1. metp = met \cup {L + 1}  BY <1>1, <1>2, <1>9
    <2>2. n \in DOMAIN ObjectMap'  BY <1>9 DEF Load, Supersedes
    <2>3. CASE Supersedes(e, ObjectMap)
      <3>1. ObjectMap'[n] = XrefOf(loaded'[L + 1])  BY <1>2, <1>9, <2>3 DEF Load
      <3>2. ASSUME NEW j \in met PROVE loaded'[j].gen < e.gen
        <4>1. n \in DOMAIN ObjectMap  BY <1>7, <3>2
        <4>2. e.gen > ObjectMap[n].Generation  BY <1>9, <2>3, <4>1 DEF Supersedes
        <4>3. PICK i \in met : /\ ObjectMap[n] = XrefOf(loaded[i])
                               /\ \A k \in met : \/ loaded[k].gen < loaded[i].gen
                                                 \/ loaded[k].gen = loaded[i].gen /\ i <= k
          BY <1>7, <4>1
        <4>4. loaded[i].gen < e.gen /\ loaded[i].gen \in Nat /\ loaded[j].gen \in Nat /\ e.gen \in Nat
          BY <1>1, <1>3, <1>4, <4>2, <4>3
        <4>5. loaded[j].gen <= loaded[i].gen  BY <4>3, <4>4
        <4> QED  BY <1>1, <1>2, <4>4, <4>5
      <3>3. \A j \in metp : \/ loaded'[j].gen < loaded'[L + 1].gen
                            \/ loaded'[j].gen = loaded'[L + 1].gen /\ L + 1 <= j
        BY <1>1, <1>2, <2>1, <3>2
      <3> QED  BY <2>1, <2>2, <3>1, <3>3
    <2>4. CASE ~Supersedes(e, ObjectMap)
      <3>1. n \in DOMAIN ObjectMap /\ ObjectMap' = ObjectMap
        BY <1>9, <2>4 DEF Load, Supersedes
      <3>2. PICK i \in met : /\ ObjectMap[n] = XrefOf(loaded[i])
                             /\ \A k \in met : \/ loaded[k].gen < loaded[i].gen
                                               \/ loaded[k].gen = loaded[i].gen /\ i <= k
        BY <1>7, <3>1
      <3>3. loaded[i].gen \in Nat /\ e.gen \in Nat /\ ObjectMap[n].Generation = loaded[i].gen
        BY <1>1, <1>3, <1>4, <3>2
      <3>4. e.gen <= loaded[i].gen
        BY <1>5, <1>9, <2>4, <3>1, <3>3, <1>6 DEF Supersedes
      <3>5. \A j \in metp : \/ loaded'[j].gen < loaded'[i].gen
                            \/ loaded'[j].gen = loaded'[i].gen /\ i <= j
        BY <1>1, <1>2, <2>1, <3>2, <3>3, <3>4
      <3> QED  BY <1>1, <1>2, <2>1, <2>2, <3>1, <3>2, <3>5
    <2> QED  BY ZenonT(30), <2>3, <2>4
  <1> QED  BY <1>8, <1>9

\* Every step keeps the winners: only ParseEntry changes the table.
LEMMA StepWins == TInv /\ HighestGenerationWins /\ [Next]_vars => HighestGenerationWins'
  <1> SUFFICES ASSUME TInv, HighestGenerationWins, [Next]_vars
               PROVE  HighestGenerationWins'
    OBVIOUS
  <1>1. CASE ParseEntry
    <2> DEFINE e == Numbered(cur, file[cur].ents[pos])
    <2>1. e \in Entry  BY <1>1, NumberedType DEF ParseEntry, TInv
    <2>2. CASE InUse(file[cur].kind, e)
      <3>1. ObjectMap' = Load(e, ObjectMap) /\ loaded' = Append(loaded, e)
        BY <1>1, <2>2 DEF ParseEntry
      <3>2. e.t # "free"  BY <2>2 DEF InUse
      <3> HIDE DEF e
      <3> QED  BY <2>1, <3>1, <3>2, LoadWins DEF TInv
    <2>3. CASE ~InUse(file[cur].kind, e)
      <3>1. UNCHANGED <<ObjectMap, loaded>>  BY <1>1, <2>3 DEF ParseEntry
      <3> QED  BY <3>1 DEF HighestGenerationWins, XrefOf
    <2> QED  BY <2>2, <2>3
  <1>2. CASE ~ParseEntry
    <2>1. UNCHANGED <<ObjectMap, loaded>>
      BY <1>2 DEF Next, OpenTable, OpenStream, RepairSeek, XRefStmMissing, BadTrailer,
                  FollowXRefStm, FollowFirstPrev, FollowPrev, vars
    <2> QED  BY <2>1 DEF HighestGenerationWins, XrefOf
  <1> QED  BY <1>1, <1>2

\* Whatever a file's sections are and in which order they are reached, the table
\* holds for every object the entry of highest generation met, and of several
\* the first (the load conditions of parseXrefTable and parseXrefStream).
THEOREM HighestGenerationWinsAlways == Spec => []HighestGenerationWins
  <1>1. Init => HighestGenerationWins  BY DEF Init, HighestGenerationWins
  <1> QED  BY InitTInv, StepTInv, StepWins, <1>1, PTL DEF Spec

-----------------------------------------------------------------------------
\* No Prev offset is in the list twice.
PrevListInjective == \A i, j \in DOMAIN prevList : prevList[i] = prevList[j] => i = j

\* FollowPrev appends only an offset that the list does not have.
LEMMA StepInjective == TInv /\ PrevListInjective /\ [Next]_vars => PrevListInjective'
  <1> SUFFICES ASSUME TInv, PrevListInjective, [Next]_vars PROVE PrevListInjective'
    OBVIOUS
  <1>1. prevList \in Seq(Offsets)  BY DEF TInv, TypeOK
  <1>2. CASE UNCHANGED prevList  BY <1>2 DEF PrevListInjective
  <1>3. CASE FollowPrev /\ prevList' # prevList
    <2> DEFINE xx == file[cur].prev
    <2>1. file[cur] \in Section  BY SectionType DEF TInv, TypeOK
    <2>2. xx \in Offsets /\ ~Met(xx) /\ prevList' = Append(prevList, xx)
      <3>1. xx \in Offsets \cup {None, NotInt}  BY <2>1 DEF Section
      <3> QED  BY <1>3, <3>1 DEF FollowPrev, Remember
    <2> HIDE DEF xx
    <2>3. /\ Len(prevList) \in Nat /\ DOMAIN prevList = 1 .. Len(prevList)
          /\ DOMAIN prevList' = 1 .. Len(prevList) + 1
          /\ \A i \in 1 .. Len(prevList) : prevList'[i] = prevList[i]
          /\ prevList'[Len(prevList) + 1] = xx
      <3>1. prevList' \in Seq(Offsets) /\ Len(prevList') = Len(prevList) + 1
        BY <1>1, <2>2, AppendProperties
      <3> QED  BY <1>1, <2>2, <3>1, AppendProperties, LenProperties
    <2> QED  BY <2>2, <2>3 DEF PrevListInjective, Met
  <1> QED
    BY <1>2, <1>3 DEF Next, OpenTable, OpenStream, RepairSeek, XRefStmMissing, ParseEntry,
                      BadTrailer, FollowXRefStm, FollowFirstPrev, vars

\* A list of distinct offsets is no longer than there are offsets.
LEMMA InjectiveBounded == TInv /\ PrevListInjective => PrevListBounded
  <1> SUFFICES ASSUME TInv, PrevListInjective PROVE PrevListBounded  OBVIOUS
  <1> DEFINE L == Len(prevList)
  <1>1. L \in Nat /\ prevList \in [1 .. L -> Offsets]  BY LenProperties DEF TInv, TypeOK
  <1> HIDE DEF L
  <1>2. prevList \in Injection(1 .. L, Offsets)
    BY <1>1 DEF PrevListInjective, Injection, IsInjective
  <1>3. Cardinality(1 .. L) <= Cardinality(Offsets)  BY <1>2, OffsetsAssumption, FS_Injection
  <1>4. Cardinality(1 .. L) = L
    <2>1. Cardinality(1 .. L) = IF 1 > L THEN 0 ELSE L - 1 + 1  BY <1>1, FS_Interval
    <2> QED  BY <1>1, <2>1
  <1> QED  BY <1>3, <1>4 DEF PrevListBounded, PrevListInjective, L

\* The list kept by loadXrefs cuts every circular chain of Prev offsets: none is
\* followed from an older trailer twice.
THEOREM PrevListBoundedAlways == Spec => []PrevListBounded
  <1>1. Init => PrevListInjective  BY DEF Init, PrevListInjective
  <1> QED  BY InitTInv, StepTInv, StepInjective, InjectiveBounded, <1>1, PTL DEF Spec

-----------------------------------------------------------------------------
\* Every set of naturals that is not empty has a least element.
LEMMA LeastNatural ==
    ASSUME NEW T \in SUBSET Nat, T # {}
    PROVE  \E x \in T : \A y \in T : x <= y
  <1> DEFINE R == OpToRel(<, Nat)
  <1>1. IsWellFoundedOn(R, Nat)  BY NatLessThanWellFounded
  <1>2. \A x, y \in Nat : (<<y, x>> \in R) <=> y < x  BY Zenon DEF OpToRel
  <1> HIDE DEF R
  <1>3. PICK x \in T : \A y \in T : ~(<<y, x>> \in R)  BY Zenon, <1>1, WFMin
  <1>4. \A y \in T : ~(y < x)  BY Zenon, <1>2, <1>3
  <1> QED  BY <1>4

\* A chain of revisions that ends does not return to an offset: from there on it
\* would repeat itself, and the last section would have a Prev.
LEMMA ChainInjective ==
    ASSUME NEW m \in Nat, NEW p \in [0 .. m -> Offsets], IsChain(p, m),
           NEW i \in 0 .. m, NEW j \in 0 .. m, i < j
    PROVE  p[i] # p[j]
  <1> SUFFICES ASSUME p[i] = p[j] PROVE FALSE  OBVIOUS
  <1>0. /\ \A k \in 0 .. m - 1 : file[p[k]].prev = p[k + 1] /\ p[k + 1] \in Offsets
        /\ file[p[m]].prev = None
    BY DEF IsChain
  <1> DEFINE D == {d \in 0 .. m - j : p[i + d] # p[j + d]}
  <1>1. CASE D = {}
    <2>1. m - j \in 0 .. m - j /\ j + (m - j) = m /\ i + (m - j) \in 0 .. m - 1  OBVIOUS
    <2>2. p[i + (m - j)] = p[m]  BY Zenon, <1>1, <2>1
    <2> QED  BY <1>0, <2>1, <2>2, NoneAssumption
  <1>2. CASE D # {}
    <2>1. D \in SUBSET Nat  OBVIOUS
    <2> HIDE DEF D
    <2>2. PICK d \in D : \A y \in D : d <= y  BY <1>2, <2>1, LeastNatural
    <2> USE DEF D
    <2>3. d \in 0 .. m - j /\ p[i + d] # p[j + d]  BY <2>2
    <2>4. d # 0  BY <2>3
    <2>5. d - 1 \in 0 .. m - j /\ d - 1 \notin D  BY <2>2, <2>3, <2>4
    <2>6. p[i + (d - 1)] = p[j + (d - 1)]  BY <2>5
    <2>7. /\ i + (d - 1) \in 0 .. m - 1 /\ j + (d - 1) \in 0 .. m - 1
          /\ i + (d - 1) + 1 = i + d /\ j + (d - 1) + 1 = j + d
      BY <2>3, <2>4
    <2>8. p[i + d] = p[j + d]  BY SMTT(40), <1>0, <2>6, <2>7
    <2> QED  BY <2>3, <2>8
  <1> QED  BY <1>1, <1>2

\* While section k of the chain is being parsed, the entry i of section l has been
\* parsed.
Passed(k, l, i) == l < k \/ (l = k /\ i < pos)

\* The first entry of the chain that lists n is entry i of section l.
FirstListed(p, l, i, n) ==
    /\ i \in DOMAIN file[p[l]].ents /\ ListedAt(p[l], i, n)
    /\ \A h \in 0 .. l - 1 : ~Lists(p[h], n)
    /\ \A h \in 1 .. i - 1 : ~ListedAt(p[l], h, n)

\* The loader is at section k of the chain, with the Prev offsets it took from the
\* older trailers in its list.
AtSection(p, m, k) ==
    /\ cur = p[k]
    /\ phase = "done" => k = m /\ pos > Len(file[p[m]].ents)
    /\ phase # "done" => phase = IF k = 0 THEN "main" ELSE "prev"
    /\ Len(prevList) = IF k = 0 THEN 0 ELSE k - 1
    /\ \A i \in DOMAIN prevList : prevList[i] = p[i + 1]

\* The table holds the objects listed so far, each as it was listed first.
FirstsLoaded(p, k) ==
    \A n \in ObjNums :
        /\ \A l \in 0 .. k : \A i \in DOMAIN file[p[l]].ents :
              (Passed(k, l, i) /\ ListedAt(p[l], i, n)) => n \in DOMAIN ObjectMap
        /\ n \in DOMAIN ObjectMap =>
              \E l \in 0 .. k : \E i \in DOMAIN file[p[l]].ents :
                 /\ Passed(k, l, i) /\ FirstListed(p, l, i, n)
                 /\ ObjectMap[n] = XrefOf(Numbered(p[l], file[p[l]].ents[i]))

ChainInv ==
    AllGenerationsEqual =>
        \A m \in 0 .. Cardinality(Offsets) - 1 : \A p \in [0 .. m -> Offsets] :
            IsChain(p, m) => \E k \in 0 .. m : AtSection(p, m, k) /\ FirstsLoaded(p, k)

\* What the chain lists depends on the file alone, which is never written.
LEMMA ListedStays ==
    ASSUME file' = file, NEW p
    PROVE  /\ \A s, i, n : ListedAt(s, i, n)' <=> ListedAt(s, i, n)
           /\ \A l, i, n : FirstListed(p, l, i, n)' <=> FirstListed(p, l, i, n)
           /\ \A s, i : Numbered(s, file[s].ents[i])' = Numbered(s, file[s].ents[i])
  <1>1. \A s, i : Numbered(s, file[s].ents[i])' = Numbered(s, file[s].ents[i])
    BY DEF Numbered
  <1>2. \A s, i, n : ListedAt(s, i, n)' <=> ListedAt(s, i, n)
    BY <1>1 DEF ListedAt, InUse
  <1>3. \A s, n : Lists(s, n)' <=> Lists(s, n)  BY <1>2 DEF Lists
  <1> QED  BY <1>1, <1>2, <1>3 DEF FirstListed

\* The table stays right when the loader moves on without loading an entry, as
\* long as it has passed the same entries before and after.
LEMMA FirstsStay ==
    ASSUME file' = file, ObjectMap' = ObjectMap, NEW m \in Nat, NEW p \in [0 .. m -> Offsets],
           NEW k \in 0 .. m, NEW h \in 0 .. m, FirstsLoaded(p, k),
           \A l \in 0 .. h : \A i \in DOMAIN file[p[l]].ents :
              Passed(h, l, i)' => l \in 0 .. k /\ Passed(k, l, i),
           \A l \in 0 .. k : \A i \in DOMAIN file[p[l]].ents :
              Passed(k, l, i) => l \in 0 .. h /\ Passed(h, l, i)'
    PROVE  FirstsLoaded(p, h)'
  <1>1. /\ \A s, i, n : ListedAt(s, i, n)' <=> ListedAt(s, i, n)
        /\ \A l, i, n : FirstListed(p, l, i, n)' <=> FirstListed(p, l, i, n)
        /\ \A s, i : Numbered(s, file[s].ents[i])' = Numbered(s, file[s].ents[i])
    BY Zenon, ListedStays
  <1>2. ASSUME NEW n \in ObjNums, NEW l \in 0 .. h, NEW i \in DOMAIN file[p[l]].ents,
               Passed(h, l, i)', ListedAt(p[l], i, n)'
        PROVE  n \in DOMAIN ObjectMap'
    BY <1>1, <1>2 DEF FirstsLoaded
  <1>3. ASSUME NEW n \in ObjNums, n \in DOMAIN ObjectMap'
        PROVE  \E l \in 0 .. h : \E i \in DOMAIN file'[p[l]].ents :
                  /\ Passed(h, l, i)' /\ FirstListed(p, l, i, n)'
                  /\ ObjectMap'[n] = XrefOf(Numbered(p[l], file[p[l]].ents[i])')
    <2>1. PICK l \in 0 .. k : \E i \in DOMAIN file[p[l]].ents :
                  /\ Passed(k, l, i) /\ FirstListed(p, l, i, n)
                  /\ ObjectMap[n] = XrefOf(Numbered(p[l], file[p[l]].ents[i]))
      BY <1>3 DEF FirstsLoaded
    <2>2. PICK i \in DOMAIN file[p[l]].ents :
                  /\ Passed(k, l, i) /\ FirstListed(p, l, i, n)
                  /\ ObjectMap[n] = XrefOf(Numbered(p[l], file[p[l]].ents[i]))
      BY <2>1
    <2>3. l \in 0 .. h /\ Passed(h, l, i)'  BY <2>2
    <2>4. /\ FirstListed(p, l, i, n)' /\ i \in DOMAIN file'[p[l]].ents
          /\ ObjectMap'[n] = XrefOf(Numbered(p[l], file[p[l]].ents[i])')
      BY <1>1, <2>2
    <2> QED  BY <2>3, <2>4
  <1> QED  BY <1>2, <1>3 DEF FirstsLoaded

\* An entry of the section being parsed is loaded if and only if its object has not
\* been listed before: its generation is not higher than that of the first.
LEMMA EntryFirst ==
    ASSUME TInv, AllGenerationsEqual, NEW m \in Nat, NEW p \in [0 .. m -> Offsets],
           NEW k \in 0 .. m, cur = p[k], FirstsLoaded(p, k), ParseEntry
    PROVE  FirstsLoaded(p, k)'
  <1> DEFINE e == Numbered(cur, file[cur].ents[pos])
  <1>0. /\ cur \in Offsets /\ pos \in Nat /\ pos \in DOMAIN file[cur].ents /\ pos' = pos + 1
        /\ file' = file /\ \A l \in 0 .. m : p[l] \in Offsets
        /\ \A l \in 0 .. m : DOMAIN file[p[l]].ents = 1 .. Len(file[p[l]].ents) /\ Len(file[p[l]].ents) \in Nat
        /\ \A l \in 0 .. m : \A i \in DOMAIN file[p[l]].ents : file[p[l]].ents[i] \in Entry
    <2>1. TypeOK /\ \A l \in 0 .. m : p[l] \in Offsets  BY DEF TInv
    <2>2. \A l \in 0 .. m : file[p[l]].ents \in Seq(Entry)  BY <2>1, SectionType DEF Section
    <2>3. \A l \in 0 .. m : DOMAIN file[p[l]].ents = 1 .. Len(file[p[l]].ents) /\ Len(file[p[l]].ents) \in Nat
      BY <2>2, LenProperties
    <2>4. \A l \in 0 .. m : \A i \in DOMAIN file[p[l]].ents : file[p[l]].ents[i] \in Entry
      BY Zenon, <2>2, <2>3, ElementOfSeq
    <2> QED  BY Zenon, <2>1, <2>3, <2>4 DEF ParseEntry, TypeOK
  <1>1. e \in Entry /\ e.num \in ObjNums
    BY <1>0, NumberedType DEF ParseEntry, TInv, Entry
  <1>2. /\ \A s, i, n : ListedAt(s, i, n)' <=> ListedAt(s, i, n)
        /\ \A l, i, n : FirstListed(p, l, i, n)' <=> FirstListed(p, l, i, n)
        /\ \A s, i : Numbered(s, file[s].ents[i])' = Numbered(s, file[s].ents[i])
    BY ZenonT(30), <1>0, ListedStays
  <1>3. \A l \in 0 .. k : \A i \in DOMAIN file[p[l]].ents :
           Passed(k, l, i)' <=> (Passed(k, l, i) \/ (l = k /\ i = pos))
    BY SMTT(40), <1>0 DEF Passed
  <1>4. \A n : ListedAt(p[k], pos, n) <=> (n = e.num /\ InUse(file[cur].kind, e))
    BY DEF ListedAt
  <1>5. ASSUME NEW n \in ObjNums, n \in DOMAIN ObjectMap
        PROVE  \E l \in 0 .. k : \E i \in DOMAIN file[p[l]].ents :
                  /\ Passed(k, l, i)' /\ FirstListed(p, l, i, n)'
                  /\ ObjectMap[n] = XrefOf(Numbered(p[l], file[p[l]].ents[i])')
    <2>1. PICK l \in 0 .. k : \E i \in DOMAIN file[p[l]].ents :
                  /\ Passed(k, l, i) /\ FirstListed(p, l, i, n)
                  /\ ObjectMap[n] = XrefOf(Numbered(p[l], file[p[l]].ents[i]))
      BY <1>5 DEF FirstsLoaded
    <2>2. PICK i \in DOMAIN file[p[l]].ents :
                  /\ Passed(k, l, i) /\ FirstListed(p, l, i, n)
                  /\ ObjectMap[n] = XrefOf(Numbered(p[l], file[p[l]].ents[i]))
      BY Zenon, <2>1
    <2> QED  BY <1>2, <1>3, <2>2
  <1>6. CASE InUse(file[cur].kind, e) /\ e.num \notin DOMAIN ObjectMap
    <2>1. /\ DOMAIN ObjectMap' = DOMAIN ObjectMap \cup {e.num} /\ ObjectMap'[e.num] = XrefOf(e)
          /\ \A n \in DOMAIN ObjectMap : ObjectMap'[n] = ObjectMap[n]
      <3>1. ObjectMap' = Load(e, ObjectMap)  BY Zenon, <1>6 DEF ParseEntry
      <3> HIDE DEF e
      <3> QED  BY <1>6, <3>1 DEF Load, Supersedes
    <2>2. FirstListed(p, k, pos, e.num)
      <3> DEFINE n == e.num
      <3>1. ListedAt(p[k], pos, n)  BY Zenon, <1>4, <1>6
      <3> HIDE DEF n
      <3>2. n \notin DOMAIN ObjectMap /\ n \in ObjNums  BY <1>1, <1>6 DEF n
      <3>3. ASSUME NEW h \in 0 .. k - 1, Lists(p[h], n) PROVE FALSE
        <4>1. PICK i \in DOMAIN file[p[h]].ents : ListedAt(p[h], i, n)  BY <3>3 DEF Lists
        <4>2. Passed(k, h, i) /\ h \in 0 .. k  BY <3>3 DEF Passed
        <4> QED  BY <3>2, <4>1, <4>2 DEF FirstsLoaded
      <3>4. ASSUME NEW h \in 1 .. pos - 1, ListedAt(p[k], h, n) PROVE FALSE
        <4>1. h \in DOMAIN file[p[k]].ents /\ Passed(k, k, h)  BY SMTT(40), <1>0, <3>4 DEF Passed
        <4> QED  BY <3>2, <3>4, <4>1 DEF FirstsLoaded
      <3> QED  BY Zenon, <1>0, <3>1, <3>3, <3>4 DEF FirstListed, n
    <2>3. ASSUME NEW n \in ObjNums, NEW l \in 0 .. k, NEW i \in DOMAIN file[p[l]].ents,
                 Passed(k, l, i)', ListedAt(p[l], i, n)'
          PROVE  n \in DOMAIN ObjectMap'
      <3>1. CASE Passed(k, l, i)  BY ZenonT(30), <1>2, <2>1, <2>3, <3>1 DEF FirstsLoaded
      <3>2. CASE l = k /\ i = pos  BY ZenonT(30), <1>2, <1>4, <2>1, <2>3, <3>2
      <3> QED  BY <1>3, <2>3, <3>1, <3>2
    <2>4. ASSUME NEW n \in ObjNums, n \in DOMAIN ObjectMap'
          PROVE  \E l \in 0 .. k : \E i \in DOMAIN file'[p[l]].ents :
                    /\ Passed(k, l, i)' /\ FirstListed(p, l, i, n)'
                    /\ ObjectMap'[n] = XrefOf(Numbered(p[l], file[p[l]].ents[i])')
      <3>1. CASE n \in DOMAIN ObjectMap  BY ZenonT(30), <1>0, <1>5, <2>1, <3>1
      <3>2. CASE n = e.num
        <4>1. PICK q \in Nat : q = pos  BY <1>0
        <4>2. k \in 0 .. k /\ q \in DOMAIN file'[p[k]].ents /\ Passed(k, k, q)'
          BY SMTT(40), <1>0, <1>3, <4>1
        <4>3. FirstListed(p, k, q, n)'  BY Zenon, <1>2, <2>2, <3>2, <4>1
        <4>4. Numbered(p[k], file[p[k]].ents[q])' = e  BY SMTT(40), <1>2, <4>1
        <4>5. ObjectMap'[n] = XrefOf(Numbered(p[k], file[p[k]].ents[q])')
          BY ZenonT(30), <2>1, <3>2, <4>4
        <4> QED  BY <4>2, <4>3, <4>5
      <3> QED  BY ZenonT(60), <2>1, <2>4, <3>1, <3>2
    <2> QED  BY <1>0, <2>3, <2>4 DEF FirstsLoaded
  <1>7. CASE ~InUse(file[cur].kind, e) \/ e.num \in DOMAIN ObjectMap
    <2>1. ObjectMap' = ObjectMap
      <3>1. CASE ~InUse(file[cur].kind, e)  BY Zenon, <3>1 DEF ParseEntry
      <3>2. CASE InUse(file[cur].kind, e) /\ e.num \in DOMAIN ObjectMap
        <4>1. PICK l \in 0 .. k : \E i \in DOMAIN file[p[l]].ents :
                 ObjectMap[e.num] = XrefOf(Numbered(p[l], file[p[l]].ents[i]))
          BY Zenon, <1>1, <3>2 DEF FirstsLoaded
        <4>2. PICK i \in DOMAIN file[p[l]].ents :
                 ObjectMap[e.num] = XrefOf(Numbered(p[l], file[p[l]].ents[i]))
          BY Zenon, <4>1
        <4>3. ObjectMap[e.num].Generation = file[p[l]].ents[i].gen
          <5>0. l \in 0 .. m  OBVIOUS
          <5>1. file[p[l]].ents[i] \in Entry  BY <1>0, <5>0, Zenon
          <5>2. Numbered(p[l], file[p[l]].ents[i]).gen = file[p[l]].ents[i].gen
            BY <5>1 DEF Numbered, Entry
          <5>3. \A x : XrefOf(x).Generation = x.gen  BY DEF XrefOf
          <5> QED  BY <4>2, <5>2, <5>3
        <4>4. e.gen = file[cur].ents[pos].gen  BY Zenon, <1>0 DEF Numbered, Entry
        <4>5. file[p[l]].ents[i].gen = file[cur].ents[pos].gen  BY <1>0 DEF AllGenerationsEqual
        <4>6. e.gen \in Nat  BY ZenonT(60), <1>1, GensAssumption DEF Entry
        <4>7. ObjectMap' = Load(e, ObjectMap)  BY <3>2 DEF ParseEntry
        <4> HIDE DEF e
        <4> QED  BY SMTT(40), <3>2, <4>3, <4>4, <4>5, <4>6, <4>7 DEF Load, Supersedes
      <3> QED  BY Zenon, <1>7, <3>1, <3>2
    <2>2. ASSUME NEW n \in ObjNums, NEW l \in 0 .. k, NEW i \in DOMAIN file[p[l]].ents,
                 Passed(k, l, i)', ListedAt(p[l], i, n)'
          PROVE  n \in DOMAIN ObjectMap
      <3>1. CASE Passed(k, l, i)  BY Zenon, <1>2, <2>2, <3>1 DEF FirstsLoaded
      <3>2. CASE l = k /\ i = pos  BY <1>2, <1>4, <1>7, <2>2, <3>2
      <3> QED  BY Zenon, <1>3, <2>2, <3>1, <3>2
    <2> QED  BY ZenonT(30), <1>0, <1>5, <2>1, <2>2 DEF FirstsLoaded
  <1> QED  BY SMTT(40), <1>6, <1>7

\* Each step of the loader keeps it on the chain: it opens each of its sections,
\* loads its entries, goes on with its Prev, and stops after the last one.
LEMMA StepChain ==
    ASSUME TInv, AllGenerationsEqual, NEW m \in Nat, NEW p \in [0 .. m -> Offsets], IsChain(p, m),
           NEW k \in 0 .. m, AtSection(p, m, k), FirstsLoaded(p, k), [Next]_vars
    PROVE  \E h \in 0 .. m : AtSection(p, m, h)' /\ FirstsLoaded(p, h)'
  <1>0. /\ file' = file /\ cur = p[k] /\ cur \in Offsets /\ pos \in Nat
        /\ file[cur].kind # "junk" /\ file[cur].complete
        /\ file[Start].xrefstm = None /\ p[0] = Start /\ file[Start].kind # "junk"
        /\ phase \in {"main", "prev", "done"}
        /\ prevList \in Seq(Offsets)
    <2>1. file' = file
      BY DEF Next, OpenTable, OpenStream, RepairSeek, XRefStmMissing, ParseEntry, BadTrailer,
             FollowXRefStm, FollowFirstPrev, FollowPrev, vars
    <2> QED  BY <2>1 DEF IsChain, AtSection, TInv, TypeOK
  <1>d. \A l \in 0 .. m : /\ DOMAIN file[p[l]].ents = 1 .. Len(file[p[l]].ents)
                          /\ Len(file[p[l]].ents) \in Nat
    <2>1. \A l \in 0 .. m : file[p[l]].ents \in Seq(Entry)  BY SectionType DEF TInv, Section
    <2> QED  BY <2>1, LenProperties
  <1>1. CASE OpenTable \/ OpenStream
    <2>1. pos = 0 /\ pos' = 1 /\ UNCHANGED <<cur, phase, prevList, ObjectMap>> /\ phase # "done"
      BY <1>1 DEF OpenTable, OpenStream, Terminal
    <2>2. AtSection(p, m, k)'  BY <1>0, <2>1 DEF AtSection
    <2>3. \A l \in 0 .. k : \A i \in DOMAIN file[p[l]].ents : Passed(k, l, i)' <=> Passed(k, l, i)
      BY SMTT(40), <1>d, <2>1 DEF Passed
    <2>4. FirstsLoaded(p, k)'  BY Zenon, <1>0, <2>1, <2>3, FirstsStay
    <2> QED  BY <2>2, <2>4
  <1>2. CASE RepairSeek  BY <1>0, <1>2 DEF RepairSeek
  <1>3. CASE XRefStmMissing  BY Zenon, <1>0, <1>3 DEF XRefStmMissing
  <1>4. CASE ParseEntry
    <2>1. UNCHANGED <<cur, phase, prevList>> /\ phase # "done"  BY <1>4 DEF ParseEntry, Terminal
    <2>2. AtSection(p, m, k)'  BY <1>0, <2>1 DEF AtSection
    <2>3. FirstsLoaded(p, k)'  BY SMTT(40), <1>0, <1>4, EntryFirst
    <2> QED  BY <2>2, <2>3
  <1>5. CASE BadTrailer  BY ZenonT(30), <1>0, <1>5 DEF BadTrailer
  <1>6. CASE FollowXRefStm
    BY Zenon, <1>0, <1>6 DEF FollowXRefStm, AtSection
  <1>7. ASSUME UNCHANGED <<cur, prevList, ObjectMap>>, pos' = pos, k = m, SectionParsed, phase' = "done"
        PROVE  \E h \in 0 .. m : AtSection(p, m, h)' /\ FirstsLoaded(p, h)'
    <2>1. AtSection(p, m, k)'  BY <1>0, <1>7 DEF AtSection, SectionParsed
    <2>2. \A l \in 0 .. k : \A i \in DOMAIN file[p[l]].ents : Passed(k, l, i)' <=> Passed(k, l, i)
      BY <1>7 DEF Passed
    <2>3. FirstsLoaded(p, k)'  BY ZenonT(30), <1>0, <1>7, <2>2, FirstsStay
    <2> QED  BY <2>1, <2>3
  <1>8. ASSUME k < m, SectionParsed, UNCHANGED ObjectMap, cur' = p[k + 1], pos' = 0
        PROVE  FirstsLoaded(p, k + 1)'
    <2>1. \A l \in 0 .. k + 1 : \A i \in DOMAIN file[p[l]].ents :
             Passed(k + 1, l, i)' => l \in 0 .. k /\ Passed(k, l, i)
      <3> SUFFICES ASSUME NEW l \in 0 .. k + 1, NEW i \in DOMAIN file[p[l]].ents, Passed(k + 1, l, i)'
                   PROVE  l \in 0 .. k /\ Passed(k, l, i)
        OBVIOUS
      <3>1. l \in 0 .. m /\ i \in 1 .. Len(file[p[l]].ents)  BY SMTT(40), <1>8, <1>d
      <3>2. l < k + 1  BY SMTT(40), <1>8, <3>1, <1>d DEF Passed
      <3>3. l = k => i < pos  BY SMTT(40), <1>0, <1>8, <1>d, <3>1 DEF SectionParsed
      <3> QED  BY <3>2, <3>3 DEF Passed
    <2>2. \A l \in 0 .. k : \A i \in DOMAIN file[p[l]].ents :
             Passed(k, l, i) => l \in 0 .. k + 1 /\ Passed(k + 1, l, i)'
      BY DEF Passed
    <2>3. k + 1 \in 0 .. m  BY <1>8
    <2> QED  BY ZenonT(30), <1>0, <1>8, <2>1, <2>2, <2>3, FirstsStay
  <1>9. CASE FollowFirstPrev
    <2>1. phase = "main" /\ k = 0 /\ SectionParsed /\ UNCHANGED <<prevList, ObjectMap>>
      BY <1>0, <1>9 DEF FollowFirstPrev, AtSection
    <2>2. MainSection = p[0]  BY <1>0 DEF MainSection
    <2>3. CASE m = 0
      <3>1. file[p[0]].prev \notin Offsets  BY <2>3, NoneAssumption DEF IsChain
      <3>2. phase' = "done" /\ UNCHANGED <<cur, pos>>  BY <1>9, <2>2, <3>1 DEF FollowFirstPrev
      <3> QED  BY <1>7, <2>1, <2>3, <3>2
    <2>4. CASE m # 0
      <3>1. file[p[0]].prev = p[1] /\ p[1] \in Offsets /\ k < m /\ 0 + 1 = 1 /\ 1 \in 0 .. m
        BY <2>1, <2>4 DEF IsChain
      <3>2. phase' = "prev" /\ cur' = p[1] /\ pos' = 0  BY <1>9, <2>2, <3>1 DEF FollowFirstPrev
      <3>3. FirstsLoaded(p, 1)'  BY <1>8, <2>1, <3>1, <3>2
      <3>4. AtSection(p, m, 1)'  BY <1>0, <2>1, <3>2 DEF AtSection
      <3> QED  BY <3>1, <3>3, <3>4
    <2> QED  BY <2>3, <2>4
  <1>10. CASE FollowPrev
    <2>1. /\ phase = "prev" /\ k # 0 /\ k >= 1 /\ SectionParsed /\ UNCHANGED ObjectMap
          /\ Len(prevList) = k - 1
      BY <1>0, <1>10 DEF FollowPrev, AtSection
    <2>2. CASE k = m
      <3>1. file[cur].prev = None  BY <1>0, <2>2 DEF IsChain
      <3>2. phase' = "done" /\ UNCHANGED <<cur, pos, prevList>>
        BY <1>10, <3>1, NoneAssumption DEF FollowPrev
      <3> QED  BY SMTT(40), <1>7, <2>1, <2>2, <3>2
    <2>3. CASE k < m
      <3>1. file[cur].prev = p[k + 1] /\ p[k + 1] \in Offsets /\ k + 1 \in 0 .. m
        BY <1>0, <2>3 DEF IsChain
      <3>2. ~Met(p[k + 1])
        <4> SUFFICES ASSUME NEW i \in DOMAIN prevList, prevList[i] = p[k + 1] PROVE FALSE
          BY DEF Met
        <4>1. i \in 1 .. k - 1 /\ prevList[i] = p[i + 1]
          BY <1>0, <2>1, LenProperties DEF AtSection
        <4>2. i + 1 \in 0 .. m /\ i + 1 < k + 1  BY <4>1
        <4> QED  BY Zenon, <3>1, <4>1, <4>2, ChainInjective
      <3>3. prevList' = Append(prevList, p[k + 1]) /\ cur' = p[k + 1] /\ pos' = 0 /\ phase' = "prev"
        BY <1>10, <2>1, <3>1, <3>2, NoneAssumption DEF FollowPrev, Remember
      <3>4. /\ Len(prevList') = k /\ DOMAIN prevList' = 1 .. k
            /\ \A i \in 1 .. k : prevList'[i] = p[i + 1]
        <4>1. prevList' \in Seq(Offsets) /\ Len(prevList') = k
          BY SMTT(40), <1>0, <2>1, <3>1, <3>3, AppendProperties
        <4>2. DOMAIN prevList' = 1 .. k /\ DOMAIN prevList = 1 .. k - 1
          BY Zenon, <1>0, <2>1, <4>1, LenProperties
        <4>3. \A i \in 1 .. k - 1 : prevList'[i] = p[i + 1]
          <5>1. \A i \in 1 .. k - 1 : prevList[i] = p[i + 1]  BY Zenon, <1>0, <4>2 DEF AtSection
          <5>2. \A i \in 1 .. Len(prevList) : prevList'[i] = prevList[i]
            BY <1>0, <3>1, <3>3, AppendProperties
          <5> QED  BY Zenon, <2>1, <5>1, <5>2
        <4>4. prevList'[k] = p[k + 1]  BY <1>0, <2>1, <3>1, <3>3, AppendProperties
        <4> QED  BY <2>1, <4>1, <4>2, <4>3, <4>4
      <3>5. FirstsLoaded(p, k + 1)'  BY <1>8, <2>1, <2>3, <3>3
      <3>6. AtSection(p, m, k + 1)'  BY <2>1, <3>3, <3>4 DEF AtSection
      <3> QED  BY Zenon, <3>1, <3>5, <3>6
    <2> QED  BY <2>2, <2>3
  <1>11. CASE UNCHANGED vars
    <2>1. AtSection(p, m, k)'  BY <1>11 DEF AtSection, vars
    <2>2. \A l \in 0 .. k : \A i \in DOMAIN file[p[l]].ents : Passed(k, l, i)' <=> Passed(k, l, i)
      BY SMTT(40), <1>11 DEF Passed, vars
    <2>3. FirstsLoaded(p, k)'  BY Zenon, <1>0, <1>11, <2>2, FirstsStay DEF vars
    <2> QED  BY <2>1, <2>3
  <1> QED  BY Zenon, <1>1, <1>2, <1>3, <1>4, <1>5, <1>6, <1>9, <1>10, <1>11 DEF Next

\* At the start the loader is at the newest section, with nothing passed.
LEMMA InitChainInv == Init => ChainInv
  <1> SUFFICES ASSUME Init, NEW m \in 0 .. Cardinality(Offsets) - 1,
                      NEW p \in [0 .. m -> Offsets], IsChain(p, m)
               PROVE  \E k \in 0 .. m : AtSection(p, m, k) /\ FirstsLoaded(p, k)
    BY DEF ChainInv
  <1>1. m \in Nat  OBVIOUS
  <1>2. AtSection(p, m, 0)  BY DEF Init, AtSection, IsChain
  <1>3. TypeOK  BY InitTInv DEF TInv
  <1>4. DOMAIN file[p[0]].ents = 1 .. Len(file[p[0]].ents)
    <2>1. file[p[0]].ents \in Seq(Entry)  BY <1>1, <1>3, SectionType DEF Section
    <2> QED  BY <2>1, LenProperties
  <1>5. \A i \in DOMAIN file[p[0]].ents : ~Passed(0, 0, i)  BY <1>4 DEF Passed, Init
  <1>6. FirstsLoaded(p, 0)  BY <1>5 DEF FirstsLoaded, Init
  <1> QED  BY <1>1, <1>2, <1>6

\* The loader stays on every chain of revisions that the file has.
LEMMA StepChainInv == TInv /\ ChainInv /\ [Next]_vars => ChainInv'
  <1> SUFFICES ASSUME TInv, ChainInv, [Next]_vars PROVE ChainInv'  OBVIOUS
  <1>1. file' = file
    BY DEF Next, OpenTable, OpenStream, RepairSeek, XRefStmMissing, ParseEntry, BadTrailer,
           FollowXRefStm, FollowFirstPrev, FollowPrev, vars
  <1>2. SUFFICES ASSUME AllGenerationsEqual, NEW m \in 0 .. Cardinality(Offsets) - 1,
                        NEW p \in [0 .. m -> Offsets], IsChain(p, m)
                 PROVE  \E h \in 0 .. m : AtSection(p, m, h)' /\ FirstsLoaded(p, h)'
    <2>1. AllGenerationsEqual' <=> AllGenerationsEqual  BY <1>1 DEF AllGenerationsEqual
    <2>2. \A m, p : IsChain(p, m)' <=> IsChain(p, m)  BY <1>1 DEF IsChain
    <2> QED  BY <2>1, <2>2 DEF ChainInv
  <1>3. PICK k \in 0 .. m : AtSection(p, m, k) /\ FirstsLoaded(p, k)  BY <1>2 DEF ChainInv
  <1>4. m \in Nat  BY SMTT(40)
  <1> QED  BY <1>2, <1>3, <1>4, StepChain

\* When the load is over, all entries of the chain have been passed.
LEMMA ChainLoaded == TInv /\ ChainInv => NewestRevisionWins
  <1> SUFFICES ASSUME TInv, ChainInv, phase = "done", AllGenerationsEqual,
                      NEW m \in 0 .. Cardinality(Offsets) - 1,
                      NEW p \in [0 .. m -> Offsets], IsChain(p, m)
               PROVE  /\ \A n \in DOMAIN ObjectMap : \E k \in 0 .. m : Lists(p[k], n)
                      /\ \A k \in 0 .. m, n \in ObjNums :
                           (Lists(p[k], n) /\ \A l \in 0 .. k - 1 : ~Lists(p[l], n)) =>
                              /\ n \in DOMAIN ObjectMap
                              /\ \E i \in DOMAIN file[p[k]].ents :
                                   /\ ListedAt(p[k], i, n)
                                   /\ \A j \in 1 .. i - 1 : ~ListedAt(p[k], j, n)
                                   /\ ObjectMap[n] = XrefOf(Numbered(p[k], file[p[k]].ents[i]))
    BY DEF NewestRevisionWins
  <1>1. AtSection(p, m, m) /\ FirstsLoaded(p, m)  BY DEF ChainInv, AtSection
  <1>2. DOMAIN ObjectMap \subseteq ObjNums  BY SMTT(40) DEF TInv, TypeOK
  <1>3. ASSUME NEW n \in DOMAIN ObjectMap PROVE \E k \in 0 .. m : Lists(p[k], n)
    BY ZenonT(30), <1>1, <1>2 DEF FirstsLoaded, FirstListed, Lists
  <1>4. ASSUME NEW k \in 0 .. m, NEW n \in ObjNums,
               Lists(p[k], n), \A l \in 0 .. k - 1 : ~Lists(p[l], n)
        PROVE  /\ n \in DOMAIN ObjectMap
               /\ \E i \in DOMAIN file[p[k]].ents :
                    /\ ListedAt(p[k], i, n)
                    /\ \A j \in 1 .. i - 1 : ~ListedAt(p[k], j, n)
                    /\ ObjectMap[n] = XrefOf(Numbered(p[k], file[p[k]].ents[i]))
    <2>1. PICK j \in DOMAIN file[p[k]].ents : ListedAt(p[k], j, n)  BY <1>4 DEF Lists
    <2>2. Passed(m, k, j)
      <3>1. m \in Nat /\ p[k] \in Offsets /\ pos \in Nat  BY DEF TInv, TypeOK
      <3>2. file[p[k]].ents \in Seq(Entry)  BY <3>1, SectionType DEF TInv, Section
      <3>3. j \in 1 .. Len(file[p[k]].ents) /\ Len(file[p[k]].ents) \in Nat  BY <3>2, LenProperties
      <3> QED  BY <1>1, <3>1, <3>3 DEF Passed, AtSection
    <2>3. n \in DOMAIN ObjectMap  BY <1>1, <2>1, <2>2 DEF FirstsLoaded
    <2>4. PICK l \in 0 .. m : \E i \in DOMAIN file[p[l]].ents :
             FirstListed(p, l, i, n) /\ ObjectMap[n] = XrefOf(Numbered(p[l], file[p[l]].ents[i]))
      BY <1>1, <2>3 DEF FirstsLoaded
    <2>5. PICK i \in DOMAIN file[p[l]].ents :
             FirstListed(p, l, i, n) /\ ObjectMap[n] = XrefOf(Numbered(p[l], file[p[l]].ents[i]))
      BY <2>4
    <2>6. l = k
      <3>1. Lists(p[l], n)  BY <2>5 DEF FirstListed, Lists
      <3>2. ~(l < k)  BY <1>4, <3>1
      <3>3. ~(k < l)  BY <1>4, <2>5 DEF FirstListed
      <3> QED  BY SMTT(40), <3>2, <3>3
    <2> QED  BY <2>3, <2>5, <2>6 DEF FirstListed
  <1> QED  BY Zenon, <1>3, <1>4

\* Opening a file whose revisions form a chain without differing generations finds
\* every object where the newest section that lists it says: however many sections
\* there are, loadXrefs neither stops early nor lets an older section win.
THEOREM NewestRevisionWinsAlways == Spec => []NewestRevisionWins
  BY InitTInv, StepTInv, InitChainInv, StepChainInv, ChainLoaded, PTL DEF Spec

-----------------------------------------------------------------------------
\* Proofs: seekToEOFMarker finds the last %%EOF, and repairSeekXrefMarker the last xref
\* that none of its borders cuts, for every window length, file size and placement of
\* the marker.

\* What a window that was read without a match has established: every marker
\* starts before the point where the next window ends, less the overlap.  The
\* overlap of four bytes is what keeps a marker that lies across the boundary.
Unread ==
    scan = EOFScan =>
        /\ pc = "scan" =>
             /\ \A m \in markers : m + scan.len <= fSize - offset
             /\ offset > 0 => \A m \in markers : m < fSize - offset - scan.back
        /\ pc # "scan" => FindsLast(markers)

Shape ==
    /\ fSize >= 8
    /\ pc = "scan" => buflen > scan.back

IInv == ScanTypeOK /\ Shape /\ Unread

\* The two sets of parameters of the code, spelled out.
LEMMA ScanCases ==
    ASSUME scan \in {EOFScan, XrefScan}
    PROVE  /\ scan.len \in Nat /\ scan.back \in Nat /\ scan.slack = scan.back
           /\ scan.buflen \in Nat /\ scan.buflen > scan.back
           /\ scan = EOFScan => scan.len = 4 /\ scan.back = 4
           /\ scan = XrefScan => scan.len = 5 /\ scan.back = 0
           /\ scan.back <= 4
  BY BufAssumption DEF EOFScan, XrefScan

\* The search starts with nothing read.
LEMMA InitIInv == ScanInit => IInv
  <1> SUFFICES ASSUME ScanInit PROVE IInv  OBVIOUS
  <1> USE ScanCases DEF ScanInit
  <1>1. ScanTypeOK  BY BufAssumption, SizeAssumption DEF ScanTypeOK
  <1>2. Shape   BY SizeAssumption DEF Shape
  <1>3. Unread  BY SizeAssumption DEF Unread
  <1> QED  BY <1>1, <1>2, <1>3 DEF IInv

\* A window read at a legal offset is longer than the overlap and stays within
\* the file.
LEMMA WindowFacts ==
    ASSUME ScanTypeOK, Shape, pc = "scan", offset < fSize - scan.slack
    PROVE  /\ WindowLen \in Nat /\ WindowLen > scan.back
           /\ offset + WindowLen <= fSize
  <1>1. scan \in {EOFScan, XrefScan}  BY DEF ScanTypeOK
  <1> QED  BY <1>1, ScanCases DEF ScanTypeOK, Shape, WindowLen

\* Each step keeps what the windows read so far have established.
LEMMA StepIInv == IInv /\ [ScanNext]_scanVars => IInv'
  <1> SUFFICES ASSUME IInv, [ScanNext]_scanVars PROVE IInv'  OBVIOUS
  <1>0. ScanTypeOK /\ Shape /\ Unread /\ scan \in {EOFScan, XrefScan}  BY DEF IInv, ScanTypeOK
  <1>p. /\ scan.len \in Nat /\ scan.back \in Nat /\ scan.slack = scan.back
        /\ scan = EOFScan => scan.len = 4 /\ scan.back = 4
    BY <1>0, ScanCases
  <1>1. CASE Found
    <2>1. WindowLen \in Nat /\ WindowLen > scan.back /\ offset + WindowLen <= fSize
      BY <1>0, <1>1, WindowFacts DEF Found
    <2>2. result' \in markers /\ \A m \in Matches : m <= result'  BY <1>1 DEF Found, Matches
    <2>3. ScanTypeOK'  BY <1>0, <1>1, <1>p, <2>1, <2>2 DEF ScanTypeOK, Found
    <2>4. Shape'   BY <1>0, <1>1, <1>p, <2>1 DEF Shape, Found
    <2>5. ASSUME scan = EOFScan, NEW m \in markers
          PROVE  m <= result'
      <3>1. m + scan.len <= fSize - offset  BY <1>0, <1>1, <2>5 DEF Unread, Found
      <3>2. CASE m \in Matches  BY <2>2, <3>2
      <3>3. CASE m \notin Matches
        <4>1. m < fSize - offset - WindowLen  BY <1>0, <1>p, <2>1, <3>1, <3>3 DEF Matches, ScanTypeOK
        <4>2. fSize - offset - WindowLen <= result'  BY <1>1 DEF Found, Matches
        <4> QED  BY <1>0, <2>1, <2>2, <4>1, <4>2 DEF ScanTypeOK
      <3> QED  BY <3>2, <3>3
    <2>6. Unread'  BY <1>1, <2>2, <2>5 DEF Unread, FindsLast, Found
    <2> QED  BY <2>3, <2>4, <2>6 DEF IInv
  <1>2. CASE NextWindow
    <2>1. WindowLen \in Nat /\ WindowLen > scan.back /\ offset + WindowLen <= fSize
      BY <1>0, <1>2, WindowFacts DEF NextWindow
    <2>2. ScanTypeOK'  BY <1>0, <1>2, <1>p, <2>1 DEF ScanTypeOK, Advance, NextWindow
    <2>3. Shape'   BY <1>0, <1>2, <1>p, <2>1 DEF Shape, Advance, NextWindow, ScanTypeOK
    <2>4. ASSUME scan = EOFScan, NEW m \in markers
          PROVE  m < fSize - offset' - scan.back /\ m + scan.len <= fSize - offset'
      <3>1. m + scan.len <= fSize - offset  BY <1>0, <1>2, <2>4 DEF Unread, NextWindow
      <3>2. m < fSize - offset - WindowLen
        BY <1>0, <1>2, <1>p, <2>1, <3>1 DEF Advance, NextWindow, Matches, ScanTypeOK
      <3> QED  BY <1>0, <1>2, <1>p, <2>1, <2>4, <3>2 DEF Advance, NextWindow, ScanTypeOK
    <2>5. Unread'  BY <1>2, <2>4 DEF Unread, NextWindow
    <2> QED  BY <2>2, <2>3, <2>5 DEF IInv
  <1>3. CASE Missed
    <2>1. ScanTypeOK' /\ Shape'  BY <1>0, <1>3 DEF ScanTypeOK, Shape, Missed
    <2>2. ASSUME scan = EOFScan, NEW m \in markers PROVE FALSE
      <3>1. offset > 0  BY <1>0, <1>3, <1>p, <2>2 DEF Missed, Shape, ScanTypeOK
      <3>2. m < fSize - offset - scan.back  BY <1>0, <1>3, <2>2, <3>1 DEF Unread, Missed
      <3> QED  BY <1>0, <1>3, <1>p, <2>2, <3>2 DEF Missed, ScanTypeOK
    <2>3. Unread'  BY <1>3, <2>2 DEF Unread, FindsLast, Missed
    <2> QED  BY <2>1, <2>3 DEF IInv
  <1>4. CASE UNCHANGED scanVars
    BY <1>0, <1>4 DEF IInv, ScanTypeOK, Shape, Unread, FindsLast, scanVars
  <1> QED  BY <1>1, <1>2, <1>3, <1>4 DEF ScanNext

\* The search for %%EOF that every open starts with (seekToEOFMarker) stops at
\* the last marker of the file, and misses none.
THEOREM EOFMarkerFoundAlways == ScanSpec => []EOFMarkerFound
  <1>1. IInv => EOFMarkerFound
    BY DEF IInv, Unread, EOFMarkerFound, FindsLast
  <1> QED  BY InitIInv, StepIInv, <1>1, PTL DEF ScanSpec

\* Both searches keep their variables in range, the window length in particular.
THEOREM ScanTypeCorrect == ScanSpec => []ScanTypeOK
  <1>1. IInv => ScanTypeOK  BY DEF IInv
  <1> QED  BY InitIInv, StepIInv, <1>1, PTL DEF ScanSpec

-----------------------------------------------------------------------------
\* The search for xref.  Its windows end whole windows away from the end of the
\* file, until one is cut at the start of the file and is the last.
Aligned == offset = fSize \/ (buflen = XrefBuf /\ \E j \in Nat : offset = j * XrefBuf)

\* A window that was read without a match has no uncut marker in it, and its lower
\* border cuts none: all of them end before the next window does.
XrefUnread ==
    scan = XrefScan =>
        /\ pc = "scan" => Aligned /\ \A m \in Uncut : m + scan.len <= fSize - offset
        /\ pc # "scan" => FindsLast(Uncut)

XInv == IInv /\ XrefUnread

\* The borders of the windows come in the order of their numbers.
LEMMA BorderOrder ==
    ASSUME NEW j \in Nat, NEW k \in Nat, j <= k
    PROVE  /\ j * XrefBuf \in Nat /\ k * XrefBuf \in Nat
           /\ j * XrefBuf <= k * XrefBuf
           /\ (j + 1) * XrefBuf = j * XrefBuf + XrefBuf
           /\ j <= j * XrefBuf
  BY BufAssumption

\* A marker within a window that ends at a border is not cut by any border.
LEMMA MatchesUncut ==
    ASSUME ScanTypeOK, Shape, scan = XrefScan, pc = "scan", offset < fSize, Aligned
    PROVE  Matches \subseteq Uncut
  <1>0. scan.len = 5 /\ scan.slack = 0 /\ fSize \in Nat  BY ScanCases DEF ScanTypeOK
  <1>1. WindowLen \in Nat /\ offset + WindowLen <= fSize  BY <1>0, WindowFacts
  <1>2. PICK j \in Nat : offset = j * XrefBuf /\ buflen = XrefBuf  BY DEF Aligned, ScanTypeOK
  <1>3. SUFFICES ASSUME NEW m \in Matches, NEW k \in 1 .. fSize,
                        m < fSize - k * XrefBuf, fSize - k * XrefBuf < m + scan.len
                 PROVE  FALSE
    BY DEF Matches, Uncut
  <1>4. /\ m \in Nat /\ fSize - offset - WindowLen <= m /\ m + scan.len <= fSize - offset
        /\ fSize \in Nat /\ offset \in Nat /\ k \in Nat
    BY DEF Matches, ScanTypeOK
  <1>5. CASE k <= j
    <2>1. k * XrefBuf <= offset /\ k * XrefBuf \in Nat  BY <1>2, <1>4, <1>5, BorderOrder
    <2> QED  BY <1>0, <1>1, <1>3, <1>4, <2>1
  <1>6. CASE j + 1 <= k
    <2>1. /\ (j + 1) * XrefBuf <= k * XrefBuf /\ k * XrefBuf \in Nat
          /\ (j + 1) * XrefBuf = offset + XrefBuf
      BY <1>2, <1>4, <1>6, BorderOrder
    <2>2. k * XrefBuf >= offset + WindowLen
      BY <1>1, <1>2, <1>4, <2>1, BufAssumption DEF WindowLen
    <2> QED  BY <1>0, <1>1, <1>3, <1>4, <2>2, <2>1
  <1> QED  BY <1>2, <1>4, <1>5, <1>6

\* At the start nothing has been read, and the first window ends at border 0.
LEMMA InitXInv == ScanInit => XInv
  <1> SUFFICES ASSUME ScanInit PROVE XrefUnread  BY InitIInv DEF XInv
  <1>1. ASSUME scan = XrefScan PROVE Aligned
    <2>1. offset = 0 * XrefBuf /\ buflen = XrefBuf  BY <1>1, BufAssumption DEF ScanInit, XrefScan
    <2> QED  BY <2>1 DEF Aligned
  <1>2. ASSUME scan = XrefScan PROVE \A m \in Uncut : m + scan.len <= fSize - offset
    BY <1>2, ScanCases, SizeAssumption DEF ScanInit, Uncut
  <1> QED  BY <1>1, <1>2 DEF ScanInit, XrefUnread

\* Each step of the search for xref keeps its windows at their borders and passes
\* no uncut marker.
LEMMA StepXInv == XInv /\ [ScanNext]_scanVars => XInv'
  <1> SUFFICES ASSUME XInv, [ScanNext]_scanVars PROVE XrefUnread'  BY StepIInv DEF XInv
  <1>0. ScanTypeOK /\ Shape /\ XrefUnread  BY DEF XInv, IInv
  <1>p. scan = XrefScan => scan.len = 5 /\ scan.back = 0 /\ scan.slack = 0
    BY <1>0, ScanCases DEF ScanTypeOK
  <1>t. fSize \in Nat /\ offset \in Nat /\ markers \subseteq Nat /\ Uncut \subseteq markers
    BY <1>0 DEF ScanTypeOK, Uncut
  <1>1. CASE Found
    <2> SUFFICES ASSUME scan = XrefScan PROVE FindsLast(Uncut)'  BY <1>1 DEF Found, XrefUnread
    <2>1. Uncut' = Uncut  BY <1>1 DEF Found, Uncut
    <2>2. Aligned /\ offset < fSize  BY <1>0, <1>1, <1>p, <1>t DEF Found, XrefUnread
    <2>3. result' \in Matches /\ (\A m \in Matches : m <= result') /\ Matches \subseteq Uncut
      BY <1>0, <1>1, <2>2, MatchesUncut DEF Found
    <2>4. ASSUME NEW m \in Uncut PROVE m <= result'
      <3>1. m + scan.len <= fSize - offset  BY <1>0, <1>1 DEF Found, XrefUnread
      <3>2. CASE m \in Matches  BY <2>3, <3>2
      <3>3. CASE m \notin Matches
        <4>1. WindowLen \in Nat  BY <1>0, <1>1, <1>p, <2>2, WindowFacts DEF Found
        <4>2. m < fSize - offset - WindowLen  BY <1>p, <1>t, <3>1, <3>3, <4>1 DEF Matches
        <4>3. fSize - offset - WindowLen <= result' /\ result' \in Nat  BY <1>t, <2>3 DEF Matches
        <4> QED  BY <1>t, <4>1, <4>2, <4>3
      <3> QED  BY <3>2, <3>3
    <2> QED  BY <1>1, <2>1, <2>3, <2>4 DEF Found, FindsLast
  <1>2. CASE NextWindow
    <2> SUFFICES ASSUME scan = XrefScan
                 PROVE  Aligned' /\ \A m \in Uncut : m + scan.len <= fSize - offset'
      <3>1. Uncut' = Uncut  BY <1>2 DEF NextWindow, Uncut
      <3> QED  BY <1>2, <3>1 DEF NextWindow, XrefUnread
    <2>1. Aligned /\ offset < fSize  BY <1>0, <1>2, <1>p, <1>t DEF NextWindow, XrefUnread
    <2>2. PICK j \in Nat : offset = j * XrefBuf /\ buflen = XrefBuf  BY <1>t, <2>1 DEF Aligned
    <2>3. WindowLen \in Nat /\ offset' = offset + WindowLen /\ buflen' = WindowLen /\ offset' <= fSize
      BY <1>0, <1>2, <1>p, <1>t, <2>1, WindowFacts DEF NextWindow, Advance
    <2>4. ASSUME NEW m \in Uncut PROVE m \in Nat /\ m < fSize - offset'
      <3>1. m + scan.len <= fSize - offset  BY <1>0, <1>2 DEF NextWindow, XrefUnread
      <3>2. m \notin Matches  BY <1>2 DEF NextWindow
      <3> QED  BY <1>p, <1>t, <2>3, <3>1, <3>2 DEF Matches
    <2>5. CASE fSize <= buflen + offset
      <3>1. offset' = fSize  BY <1>t, <2>3, <2>5 DEF WindowLen
      <3> QED  BY <1>2, <1>t, <2>4, <3>1 DEF NextWindow, Aligned
    <2>6. CASE ~(fSize <= buflen + offset)
      <3>1. /\ (j + 1) * XrefBuf = j * XrefBuf + XrefBuf
            /\ j + 1 <= (j + 1) * XrefBuf /\ (j + 1) * XrefBuf \in Nat
        BY BorderOrder
      <3>2. offset' = (j + 1) * XrefBuf /\ buflen' = XrefBuf
        BY <1>t, <2>2, <2>3, <2>6, <3>1 DEF WindowLen
      <3>3. j + 1 \in 1 .. fSize  BY <1>t, <2>3, <3>1, <3>2
      <3>4. ASSUME NEW m \in Uncut PROVE m + scan.len <= fSize - offset'
        <4>1. ~(m < fSize - (j + 1) * XrefBuf /\ fSize - (j + 1) * XrefBuf < m + scan.len)
          BY <3>3 DEF Uncut
        <4> QED  BY <1>p, <1>t, <2>4, <3>1, <3>2, <4>1
      <3>5. Aligned'  BY <1>2, <3>2 DEF NextWindow, Aligned
      <3> QED  BY <3>4, <3>5
    <2> QED  BY <2>5, <2>6
  <1>3. CASE Missed
    <2> SUFFICES ASSUME scan = XrefScan PROVE FindsLast(Uncut)'  BY <1>3 DEF Missed, XrefUnread
    <2>1. Uncut' = Uncut  BY <1>3 DEF Missed, Uncut
    <2>2. offset >= fSize  BY <1>3, <1>p, <1>t DEF Missed
    <2>3. Uncut = {}  BY <1>0, <1>3, <1>p, <1>t, <2>2 DEF Missed, XrefUnread
    <2> QED  BY <1>3, <2>1, <2>3 DEF Missed, FindsLast
  <1>4. CASE UNCHANGED scanVars
    BY <1>0, <1>4 DEF XrefUnread, Aligned, Uncut, FindsLast, scanVars
  <1> QED  BY <1>1, <1>2, <1>3, <1>4 DEF ScanNext

\* repairSeekXrefMarker, the fallback when no cross-reference section is where it
\* should be, stops at the last marker that no border between its windows cuts, and
\* gives up only if there is none.
THEOREM XrefMarkerFoundAlways == ScanSpec => []XrefMarkerFound
  <1>1. XInv => XrefMarkerFound
    BY DEF XInv, XrefUnread, XrefMarkerFound, FindsLast
  <1> QED  BY InitXInv, StepXInv, <1>1, PTL DEF ScanSpec
=============================================================================

------------------------- MODULE ObjectLookupProofs -------------------------
(***************************************************************************)
(* Proofs about ObjectLookup, for documents without compressed objects and *)
(* without indirect lengths, of any size, with any entries and any number  *)
(* of lookups: an answer has the number asked for, and no repair loses a   *)
(* healthy object.                                                         *)
(*                                                                         *)
(* The argument.  A lookup that may not repair never changes the table, so *)
(* the table that rebuildXrefTable ranges over is the one its lookups use, *)
(* and both repairs end with a table whose entries are all under the       *)
(* numbers of the objects they point at.  Such a table sets off no further *)
(* rebuild; a rebuild therefore meets only a cache that agrees with the    *)
(* table, and it never fails: the cache that it fills with objects under   *)
(* wrong numbers is always emptied.  LInv says this for each shape that    *)
(* the stack can have.                                                     *)
(***************************************************************************)
EXTENDS ObjectLookup, FiniteSetTheorems, SequenceTheorems, WellFoundedInduction, TLAPS

\* The documents that the theorems are about.
Plain(d) ==
    /\ \A n \in DOMAIN d.xrefs : d.xrefs[n].XType = "table"
    /\ \A o \in Offs : ~HasLengthReference(d.body[o])

PlainDocuments == IsFiniteSet(Offs) /\ \A d \in Documents : Plain(d)

\* Every entry is under the number of the object it points at.
Right(table) == \A n \in DOMAIN table : doc.body[table[n].at].num = n

\* What ParseIndirectObject returns for the object at the offset.
Read(o) == IF Unreadable(doc.body[o]) THEN Failure ELSE Value(ObjectAt(o))

\* v is what the table as it is now leads to for number n.
Agrees(n, v) ==
    IF n \in DOMAIN xrefs THEN v = ObjectAt(xrefs[n].at) /\ ~Unreadable(doc.body[xrefs[n].at])
    ELSE v = Null

\* v may be answered, and cached, for number n.
Fine(n, v) ==
    /\ v \in Object /\ (v = Null \/ v.num = n)
    /\ Healthy(n) => v = ObjectAt(doc.xrefs[n].at)
    /\ ~Right(xrefs) => Agrees(n, v)

CacheFine == \A n \in DOMAIN ObjCache : Fine(n, ObjCache[n])
CacheAgrees == \A n \in DOMAIN ObjCache : Agrees(n, ObjCache[n])

LookupFrame == [fn : {"lookup"}, n : Nums, rep : BOOLEAN, pc : {"start", "parsed", "rebuilt", "os"}]
RebuildFrame == [fn : {"rebuild"}, k : Nums, pc : {"next", "looked"}, todo : SUBSET Nums,
                 snapshot : Table, newXrefs : Table]

\* The lookup l runs, or waits for the parse of the object that its entry points at.
Looking(l) ==
    /\ l \in LookupFrame
    /\ l.pc = "start" \/ (l.pc = "parsed" /\ l.n \in DOMAIN xrefs /\ ret = Read(xrefs[l.n].at))
Parsing(p, l) ==
    /\ l \in LookupFrame /\ l.pc = "parsed" /\ l.n \in DOMAIN xrefs
    /\ p = Parse(xrefs[l.n].at)

\* The call that the client has made; it has repaired the table once it may not any more.
Outer(l) == l.n = asked.n /\ (~l.rep => Right(xrefs)) /\ CacheFine

\* A rebuild r, called by the lookup l: every entry that it is done with is filed under
\* the number of its object.
Rebuilding(r, l) ==
    /\ r \in RebuildFrame /\ l \in LookupFrame
    /\ l.n = asked.n /\ l.pc = "rebuilt"
    /\ r.snapshot = xrefs /\ r.todo \subseteq DOMAIN xrefs
    /\ r.pc = "looked" => r.k \in DOMAIN xrefs
    /\ \A m \in DOMAIN r.newXrefs :
         LET o == r.newXrefs[m].at
         IN  r.newXrefs[m].XType = "table" /\ doc.body[o].num = m /\ ~Unreadable(doc.body[o])
    /\ \A k \in DOMAIN xrefs \ r.todo :
         (r.pc = "looked" => k # r.k) => doc.body[xrefs[k].at].num \in DOMAIN r.newXrefs
    /\ ~repairsAttempted /\ ~Right(xrefs) /\ CacheAgrees

Shape0 ==
    /\ stack = <<>> /\ CacheFine
    /\ \/ ret = Nothing
       \/ ret = Failure /\ ~Healthy(asked.n)
       \/ ret = Value(ret.obj) /\ Fine(asked.n, ret.obj)
    /\ ret # Nothing => asked.n \in Nums
Shape1(l) == stack = <<l>> /\ Looking(l) /\ Outer(l)
Shape2(p, l) == stack = <<p, l>> /\ Parsing(p, l) /\ Outer(l)
Shape3(r, l) ==
    /\ stack = <<r, l>> /\ Rebuilding(r, l)
    /\ r.pc = "looked" => ret = Read(xrefs[r.k].at)
Shape4(f, r, l) ==
    /\ stack = <<f, r, l>> /\ Rebuilding(r, l)
    /\ r.pc = "looked" /\ Looking(f) /\ f.n = r.k /\ ~f.rep
Shape5(p, f, r, l) ==
    /\ stack = <<p, f, r, l>> /\ Rebuilding(r, l)
    /\ r.pc = "looked" /\ Parsing(p, f) /\ f.n = r.k /\ ~f.rep
Shape6(l) ==
    /\ stack = <<l>> /\ l \in LookupFrame /\ l.pc = "rebuilt" /\ l.n = asked.n
    /\ ret = Value(Null) /\ Right(xrefs)

Shapes ==
    \/ Len(stack) = 0 /\ Shape0
    \/ Len(stack) = 1 /\ (Shape1(stack[1]) \/ Shape6(stack[1]))
    \/ Len(stack) = 2 /\ (Shape2(stack[1], stack[2]) \/ Shape3(stack[1], stack[2]))
    \/ Len(stack) = 3 /\ Shape4(stack[1], stack[2], stack[3])
    \/ Len(stack) = 4 /\ Shape5(stack[1], stack[2], stack[3], stack[4])

TableSound ==
    /\ xrefs \in Table
    /\ \A n \in DOMAIN xrefs : xrefs[n].XType = "table"
    /\ \A n \in Nums : Healthy(n) => n \in DOMAIN xrefs /\ xrefs[n] = doc.xrefs[n]
    /\ repairsAttempted => Right(xrefs)

LInv ==
    /\ doc \in Documents /\ repairsAttempted \in BOOLEAN /\ TableSound
    /\ Shapes
    /\ answers \in Seq([n : Nums, ret : [st : {"ok", "error"}, obj : Object]])
    /\ NumberMatches /\ HealthyFound

-----------------------------------------------------------------------------
\* Two sequences of up to four calls are equal if they agree at every place.
LEMMA ShortEqual ==
    ASSUME NEW S, NEW s \in Seq(S), NEW t \in Seq(S), Len(s) = Len(t), Len(s) <= 4,
           Len(s) >= 1 => s[1] = t[1], Len(s) >= 2 => s[2] = t[2],
           Len(s) >= 3 => s[3] = t[3], Len(s) >= 4 => s[4] = t[4]
    PROVE  s = t
  <1>1. \A i \in 1 .. Len(s) : s[i] = t[i]
    <2> SUFFICES ASSUME NEW i \in 1 .. Len(s) PROVE s[i] = t[i]  OBVIOUS
    <2>1. i = 1 \/ i = 2 \/ i = 3 \/ i = 4  OBVIOUS
    <2> QED  BY <2>1
  <1> QED  BY <1>1, SeqEqual

\* The stack as the actions put it together.
LEMMA Pushed ==
    ASSUME NEW a, NEW b, NEW c
    PROVE  /\ <<a>> \o <<>> = <<a>> /\ <<a, b>> \o <<>> = <<a, b>>
           /\ <<a>> \o <<b>> = <<a, b>> /\ <<a, b>> \o <<c>> = <<a, b, c>>
           /\ <<a>> \o <<b, c>> = <<a, b, c>>
  <1> DEFINE S == {a, b, c}
  <1>1. <<a>> \o <<>> = <<a>> /\ <<a, b>> \o <<>> = <<a, b>>
    <2>1. <<a>> \in Seq(S) /\ <<a, b>> \in Seq(S)  OBVIOUS
    <2> QED  BY <2>1, ConcatEmptySeq
  <1>2. <<a>> \o <<b>> = <<a, b>>
    <2> DEFINE s == <<a>> \o <<b>>  t == <<a, b>>
    <2>1. s \in Seq(S) /\ t \in Seq(S)  OBVIOUS
    <2>2. Len(s) = 2 /\ Len(t) = 2 /\ s[1] = t[1] /\ s[2] = t[2]  OBVIOUS
    <2> HIDE DEF s, t, S
    <2>3. s = t  BY <2>1, <2>2, ShortEqual
    <2> QED  BY <2>3 DEF s, t
  <1>3. <<a, b>> \o <<c>> = <<a, b, c>>
    <2> DEFINE s == <<a, b>> \o <<c>>  t == <<a, b, c>>
    <2>1. s \in Seq(S) /\ t \in Seq(S)  OBVIOUS
    <2>2. Len(s) = 3 /\ Len(t) = 3 /\ s[1] = t[1] /\ s[2] = t[2] /\ s[3] = t[3]  OBVIOUS
    <2> HIDE DEF s, t, S
    <2>3. s = t  BY <2>1, <2>2, ShortEqual
    <2> QED  BY <2>3 DEF s, t
  <1>4. <<a>> \o <<b, c>> = <<a, b, c>>
    <2> DEFINE s == <<a>> \o <<b, c>>  t == <<a, b, c>>
    <2>1. s \in Seq(S) /\ t \in Seq(S)  OBVIOUS
    <2>2. Len(s) = 3 /\ Len(t) = 3 /\ s[1] = t[1] /\ s[2] = t[2] /\ s[3] = t[3]  OBVIOUS
    <2> HIDE DEF s, t, S
    <2>3. s = t  BY <2>1, <2>2, ShortEqual
    <2> QED  BY <2>3 DEF s, t
  <1> QED  BY <1>1, <1>2, <1>3, <1>4

\* The same for two calls on two.
LEMMA PushedOnTwo ==
    ASSUME NEW a, NEW b, NEW c, NEW d
    PROVE  <<a, b>> \o <<c, d>> = <<a, b, c, d>>
  <1> DEFINE S == {a, b, c, d}  s == <<a, b>> \o <<c, d>>  t == <<a, b, c, d>>
  <1>1. s \in Seq(S) /\ t \in Seq(S)  OBVIOUS
  <1>2. Len(s) = 4 /\ Len(t) = 4 /\ s[1] = t[1] /\ s[2] = t[2] /\ s[3] = t[3] /\ s[4] = t[4]
    OBVIOUS
  <1> HIDE DEF s, t, S
  <1>3. s = t  BY <1>1, <1>2, ShortEqual
  <1> QED  BY <1>3 DEF s, t

\* The shapes of the stack by the calls on it.
LEMMA ShapesOfCalls ==
    /\ Shape0 => Shapes
    /\ \A l : Shape1(l) \/ Shape6(l) => Shapes
    /\ \A p, l : Shape2(p, l) \/ Shape3(p, l) => Shapes
    /\ \A f, r, l : Shape4(f, r, l) => Shapes
    /\ \A p, f, r, l : Shape5(p, f, r, l) => Shapes
  <1>1. Shape0 => Shapes  BY DEF Shape0, Shapes
  <1>2. \A l : Shape1(l) \/ Shape6(l) => Shapes
    <2> SUFFICES ASSUME NEW l, Shape1(l) \/ Shape6(l) PROVE Shapes  OBVIOUS
    <2>1. stack = <<l>>  BY DEF Shape1, Shape6
    <2>2. Len(stack) = 1 /\ stack[1] = l  BY <2>1
    <2> QED  BY <2>2 DEF Shapes
  <1>3. \A p, l : Shape2(p, l) \/ Shape3(p, l) => Shapes
    <2> SUFFICES ASSUME NEW p, NEW l, Shape2(p, l) \/ Shape3(p, l) PROVE Shapes  OBVIOUS
    <2>1. stack = <<p, l>>  BY DEF Shape2, Shape3
    <2>2. Len(stack) = 2 /\ stack[1] = p /\ stack[2] = l  BY <2>1
    <2> QED  BY <2>2 DEF Shapes
  <1>4. \A f, r, l : Shape4(f, r, l) => Shapes
    <2> SUFFICES ASSUME NEW f, NEW r, NEW l, Shape4(f, r, l) PROVE Shapes  OBVIOUS
    <2>1. stack = <<f, r, l>>  BY DEF Shape4
    <2>2. Len(stack) = 3 /\ stack[1] = f /\ stack[2] = r /\ stack[3] = l  BY <2>1
    <2> QED  BY <2>2 DEF Shapes
  <1>5. \A p, f, r, l : Shape5(p, f, r, l) => Shapes
    <2> SUFFICES ASSUME NEW p, NEW f, NEW r, NEW l, Shape5(p, f, r, l) PROVE Shapes  OBVIOUS
    <2>1. stack = <<p, f, r, l>>  BY DEF Shape5
    <2>2. Len(stack) = 4 /\ stack[1] = p /\ stack[2] = f /\ stack[3] = r /\ stack[4] = l
      BY <2>1
    <2> QED  BY <2>2 DEF Shapes
  <1> QED  BY <1>1, <1>2, <1>3, <1>4, <1>5

\* What depends on the document and the table only stays with them.
LEMMA SameTable ==
    doc' = doc =>
      /\ \A t : Right(t)' <=> Right(t)
      /\ \A o : Read(o)' = Read(o) /\ ObjectAt(o)' = ObjectAt(o)
      /\ \A n : Healthy(n)' <=> Healthy(n)
      /\ xrefs' = xrefs => \A n, v : (Agrees(n, v)' <=> Agrees(n, v)) /\ (Fine(n, v)' <=> Fine(n, v))
  <1> SUFFICES ASSUME doc' = doc
               PROVE  /\ \A t : Right(t)' <=> Right(t)
                      /\ \A o : Read(o)' = Read(o) /\ ObjectAt(o)' = ObjectAt(o)
                      /\ \A n : Healthy(n)' <=> Healthy(n)
                      /\ xrefs' = xrefs =>
                           \A n, v : (Agrees(n, v)' <=> Agrees(n, v)) /\ (Fine(n, v)' <=> Fine(n, v))
    OBVIOUS
  <1>1. \A t : Right(t)' <=> Right(t)  BY DEF Right
  <1>2. \A o : ObjectAt(o)' = ObjectAt(o)  BY DEF ObjectAt
  <1>3. \A o : Read(o)' = Read(o)  BY <1>2 DEF Read
  <1>4. \A n : Healthy(n)' <=> Healthy(n)  BY DEF Healthy
  <1>5. ASSUME xrefs' = xrefs
        PROVE  \A n, v : (Agrees(n, v)' <=> Agrees(n, v)) /\ (Fine(n, v)' <=> Fine(n, v))
    <2>1. \A n, v : Agrees(n, v)' <=> Agrees(n, v)  BY <1>2, <1>5 DEF Agrees
    <2>2. Right(xrefs)' <=> Right(xrefs)  BY <1>5 DEF Right
    <2> QED  BY <1>2, <1>4, <2>1, <2>2 DEF Fine
  <1> QED  BY <1>1, <1>2, <1>3, <1>4, <1>5

\* Of the objects signed with one number repairRebuildXrefsTopDown finds the first one
\* of highest generation.
LEMMA BestFound ==
    ASSUME IsFiniteSet(Offs), NEW gen \in [Offs -> Nat], NEW S \in SUBSET Offs, S # {}
    PROVE  \E o \in S : \A p \in S : gen[p] < gen[o] \/ (gen[p] = gen[o] /\ o <= p)
  <1> DEFINE After(o, p) == gen[p] < gen[o] \/ (gen[p] = gen[o] /\ o <= p)
             Bad == {T \in SUBSET Offs : T # {} /\ ~\E o \in T : \A p \in T : After(o, p)}
             R == StrictSubsetOrdering(Offs)
  <1>1. \A o, p \in Offs : After(o, p) \/ After(p, o)  BY NumsAssumption
  <1>2. \A o, p, q \in Offs : After(o, p) /\ After(p, q) => After(o, q)  BY NumsAssumption
  <1>3. \A o \in Offs : After(o, o)  BY NumsAssumption
  <1> SUFFICES ASSUME Bad # {} PROVE FALSE  BY DEF Bad
  <1>4. IsWellFoundedOn(R, SUBSET Offs)
    BY Zenon, FS_StrictSubsetOrderingWellFounded, FS_FiniteSubsetsOfFinite
  <1>5. \A T, U \in SUBSET Offs : (<<T, U>> \in R) <=> (T \subseteq U /\ T # U)
    BY DEF StrictSubsetOrdering
  <1>6. Bad \in SUBSET SUBSET Offs  OBVIOUS
  <1> HIDE DEF R
  <1>7. PICK T \in Bad : \A U \in Bad : ~(<<U, T>> \in R)
    <2> HIDE DEF Bad
    <2> QED  BY <1>4, <1>6, WFMin
  <1>8. PICK o \in T : TRUE  OBVIOUS
  <1> DEFINE U == T \ {o}
  <1> HIDE DEF After
  <1>9. U # {}  BY <1>3, <1>8
  <1>10. U \notin Bad
    <2>1. <<U, T>> \in R  BY <1>5, <1>8
    <2> QED  BY <1>7, <2>1
  <1>11. PICK q \in U : \A p \in U : After(q, p)  BY <1>9, <1>10
  <1>12. CASE After(q, o)
    <2>1. \A p \in T : After(q, p)  BY <1>11, <1>12
    <2> QED  BY <1>11, <2>1
  <1>13. CASE After(o, q)
    <2>1. \A p \in T : After(o, p)  BY <1>2, <1>3, <1>8, <1>11, <1>13
    <2> QED  BY <1>8, <2>1
  <1> QED  BY <1>1, <1>8, <1>11, <1>12, <1>13

\* The stack by the call that runs.
LEMMA WhoRuns ==
    ASSUME LInv, stack # <<>>
    PROVE  \/ \E l : /\ Shape1(l) /\ Head(stack) = l /\ Tail(stack) = <<>>
                     /\ l.fn = "lookup" /\ l.pc \in {"start", "parsed"}
           \/ \E l : /\ Shape6(l) /\ Head(stack) = l /\ Tail(stack) = <<>>
                     /\ l.fn = "lookup" /\ l.pc = "rebuilt"
           \/ \E p, l : /\ Shape2(p, l) /\ Head(stack) = p /\ Tail(stack) = <<l>>
                        /\ p.fn = "parse" /\ p.pc = "start"
           \/ \E r, l : /\ Shape3(r, l) /\ Head(stack) = r /\ Tail(stack) = <<l>>
                        /\ r.fn = "rebuild"
           \/ \E f, r, l : /\ Shape4(f, r, l) /\ Head(stack) = f /\ Tail(stack) = <<r, l>>
                           /\ f.fn = "lookup" /\ f.pc \in {"start", "parsed"}
           \/ \E p, f, r, l : /\ Shape5(p, f, r, l) /\ Head(stack) = p /\ Tail(stack) = <<f, r, l>>
                              /\ p.fn = "parse" /\ p.pc = "start"
  <1>1. Shapes  BY DEF LInv
  <1>2. ASSUME NEW l, Shape1(l)
        PROVE  /\ Head(stack) = l /\ Tail(stack) = <<>>
               /\ l.fn = "lookup" /\ l.pc \in {"start", "parsed"}
    BY <1>2 DEF Shape1, Looking, LookupFrame
  <1>3. ASSUME NEW l, Shape6(l)
        PROVE  Head(stack) = l /\ Tail(stack) = <<>> /\ l.fn = "lookup" /\ l.pc = "rebuilt"
    BY <1>3 DEF Shape6, LookupFrame
  <1>4. ASSUME NEW p, NEW l, Shape2(p, l)
        PROVE  Head(stack) = p /\ Tail(stack) = <<l>> /\ p.fn = "parse" /\ p.pc = "start"
    BY <1>4 DEF Shape2, Parsing, Parse
  <1>5. ASSUME NEW r, NEW l, Shape3(r, l)
        PROVE  Head(stack) = r /\ Tail(stack) = <<l>> /\ r.fn = "rebuild"
    BY <1>5 DEF Shape3, Rebuilding, RebuildFrame
  <1>6. ASSUME NEW f, NEW r, NEW l, Shape4(f, r, l)
        PROVE  /\ Head(stack) = f /\ Tail(stack) = <<r, l>>
               /\ f.fn = "lookup" /\ f.pc \in {"start", "parsed"}
    BY <1>6 DEF Shape4, Looking, LookupFrame
  <1>7. ASSUME NEW p, NEW f, NEW r, NEW l, Shape5(p, f, r, l)
        PROVE  Head(stack) = p /\ Tail(stack) = <<f, r, l>> /\ p.fn = "parse" /\ p.pc = "start"
    BY <1>7 DEF Shape5, Parsing, Parse
  <1>8. stack = <<>> \/ ~Shape0  BY DEF Shape0
  <1> QED  BY <1>1, <1>2, <1>3, <1>4, <1>5, <1>6, <1>7, <1>8 DEF Shapes

\* The repair of the whole table gives one whose entries are right, with the entries of
\* the healthy objects unchanged.
LEMMA TopDownSound ==
    ASSUME PlainDocuments, doc \in Documents
    PROVE  /\ TopDownXrefs \in Table
           /\ \A n \in DOMAIN TopDownXrefs : TopDownXrefs[n].XType = "table"
           /\ Right(TopDownXrefs)
           /\ \A n \in Nums : Healthy(n) =>
                n \in DOMAIN TopDownXrefs /\ TopDownXrefs[n] = doc.xrefs[n]
  <1> DEFINE signed(n) == {o \in Offs : doc.body[o].kind # "junk" /\ doc.body[o].num = n}
             Best(n, o) == \A p \in signed(n) :
                             \/ doc.body[p].gen < doc.body[o].gen
                             \/ doc.body[p].gen = doc.body[o].gen /\ o <= p
             best(n) == CHOOSE o \in signed(n) : Best(n, o)
  <1>1. doc \in Document  BY DocumentsAssumption
  <1>2. TopDownXrefs = [n \in {m \in Nums : signed(m) # {}} |-> [XType |-> "table", at |-> best(n)]]
    BY DEF TopDownXrefs
  <1>3. ASSUME NEW n, signed(n) # {} PROVE best(n) \in signed(n)
    <2> DEFINE gen == [o \in Offs |-> doc.body[o].gen]
    <2>1. gen \in [Offs -> Nat]  BY <1>1 DEF Document, Body
    <2>2. signed(n) \in SUBSET Offs  OBVIOUS
    <2> HIDE DEF gen
    <2>3. \E o \in signed(n) : \A p \in signed(n) : gen[p] < gen[o] \/ (gen[p] = gen[o] /\ o <= p)
      <3> HIDE DEF signed
      <3> QED  BY <1>3, <2>1, <2>2, BestFound DEF PlainDocuments
    <2>4. \E o \in signed(n) : Best(n, o)  BY <2>3 DEF gen
    <2> HIDE DEF signed, Best
    <2> QED  BY <2>4
  <1>4. \A n \in DOMAIN TopDownXrefs : n \in Nums /\ signed(n) # {}
                                       /\ TopDownXrefs[n] = [XType |-> "table", at |-> best(n)]
    <2> HIDE DEF signed, best
    <2> QED  BY <1>2
  <1>5. TopDownXrefs \in Table
    <2>1. \A n \in DOMAIN TopDownXrefs : TopDownXrefs[n] \in XrefEntry
      <3> SUFFICES ASSUME NEW n \in DOMAIN TopDownXrefs PROVE TopDownXrefs[n] \in XrefEntry  BY SMTT(40)
      <3>1. best(n) \in Offs  BY Zenon, <1>3, <1>4
      <3> HIDE DEF best, signed
      <3> QED  BY <1>4, <3>1 DEF XrefEntry
    <2>2. DOMAIN TopDownXrefs \in SUBSET Nums  BY <1>4
    <2>3. TopDownXrefs = [n \in DOMAIN TopDownXrefs |-> TopDownXrefs[n]]
      <3> HIDE DEF best, signed
      <3> QED  BY <1>2
    <2>4. TopDownXrefs \in [DOMAIN TopDownXrefs -> XrefEntry]  BY <2>1, <2>3
    <2> QED  BY <2>2, <2>4 DEF Table
  <1>6. Right(TopDownXrefs)
    <2> SUFFICES ASSUME NEW n \in DOMAIN TopDownXrefs
                 PROVE  doc.body[TopDownXrefs[n].at].num = n
      BY DEF Right
    <2>1. best(n) \in signed(n)  BY Zenon, <1>3, <1>4
    <2>2. doc.body[best(n)].num = n
      <3> HIDE DEF best
      <3> QED  BY <2>1
    <2> HIDE DEF best, signed
    <2> QED  BY <1>4, <2>2
  <1>7. ASSUME NEW n \in Nums, Healthy(n)
        PROVE  n \in DOMAIN TopDownXrefs /\ TopDownXrefs[n] = doc.xrefs[n]
    <2> DEFINE o == doc.xrefs[n].at
    <2>1. /\ n \in DOMAIN doc.xrefs /\ doc.xrefs[n].XType = "table" /\ doc.body[o].num = n
          /\ doc.body[o].kind # "junk"
          /\ \A p \in Offs \ {o} : doc.body[p].num = n => doc.body[p].kind = "junk"
      BY <1>7 DEF Healthy
    <2>2. doc.xrefs[n] \in XrefEntry
      <3>1. doc.xrefs \in Table  BY <1>1 DEF Document
      <3> QED  BY <2>1, <3>1 DEF Table
    <2>3. o \in Offs /\ doc.xrefs[n] = [XType |-> "table", at |-> o]
      BY <2>1, <2>2 DEF XrefEntry
    <2>4. signed(n) = {o}  BY ZenonT(30), <2>1, <2>3
    <2>5. best(n) = o  BY <1>3, <2>4
    <2>6. n \in DOMAIN TopDownXrefs
      <3> HIDE DEF best
      <3> QED  BY Zenon, <1>2, <2>4
    <2> HIDE DEF best, signed
    <2> QED  BY Zenon, <1>4, <2>3, <2>5, <2>6
  <1> QED  BY <1>4, <1>5, <1>6, <1>7

\* A step that leaves the table alone and answers nothing keeps all but the shape.
LEMMA TableStays ==
    ASSUME LInv, UNCHANGED <<doc, xrefs, repairsAttempted, answers>>, Shapes'
    PROVE  LInv'
  <1>1. \A n : Healthy(n)' <=> Healthy(n)  BY SameTable
  <1>2. Right(xrefs)' <=> Right(xrefs)  BY DEF Right
  <1>3. TableSound'  BY <1>1, <1>2 DEF LInv, TableSound
  <1>4. NumberMatches'  BY DEF LInv, NumberMatches
  <1>5. HealthyFound'  BY <1>1, SameTable DEF LInv, HealthyFound
  <1> QED  BY <1>3, <1>4, <1>5 DEF LInv

\* So do the calls that wait below the one that runs.
LEMMA CallsStay ==
    ASSUME UNCHANGED <<doc, xrefs, asked, repairsAttempted>>
    PROVE  /\ ObjCache' = ObjCache => (CacheFine' <=> CacheFine) /\ (CacheAgrees' <=> CacheAgrees)
           /\ CacheFine' => \A l : Outer(l) => Outer(l)'
           /\ CacheAgrees' => \A r, l : Rebuilding(r, l) => Rebuilding(r, l)'
           /\ \A p, l : Parsing(p, l) => Parsing(p, l)'
  <1>1. Right(xrefs)' <=> Right(xrefs)  BY DEF Right
  <1>2. \A n, v : (Agrees(n, v)' <=> Agrees(n, v)) /\ (Fine(n, v)' <=> Fine(n, v))  BY SameTable
  <1>3. ASSUME ObjCache' = ObjCache
        PROVE  (CacheFine' <=> CacheFine) /\ (CacheAgrees' <=> CacheAgrees)
    BY <1>2, <1>3 DEF CacheFine, CacheAgrees
  <1>4. CacheFine' => \A l : Outer(l) => Outer(l)'  BY <1>1 DEF Outer
  <1>5. CacheAgrees' => \A r, l : Rebuilding(r, l) => Rebuilding(r, l)'
    BY <1>1 DEF Rebuilding
  <1>6. \A p, l : Parsing(p, l) => Parsing(p, l)'  BY DEF Parsing, Parse
  <1> QED  BY <1>3, <1>4, <1>5, <1>6

\* The shapes of the next stack.
LEMMA NextShapes ==
    /\ Shape0' => Shapes'
    /\ \A l : Shape1(l)' \/ Shape6(l)' => Shapes'
    /\ \A p, l : Shape2(p, l)' \/ Shape3(p, l)' => Shapes'
    /\ \A f, r, l : Shape4(f, r, l)' => Shapes'
    /\ \A p, f, r, l : Shape5(p, f, r, l)' => Shapes'
  <1>1. (/\ Shape0 => Shapes
         /\ \A l : Shape1(l) \/ Shape6(l) => Shapes
         /\ \A p, l : Shape2(p, l) \/ Shape3(p, l) => Shapes
         /\ \A f, r, l : Shape4(f, r, l) => Shapes
         /\ \A p, f, r, l : Shape5(p, f, r, l) => Shapes)'
    BY ShapesOfCalls, PTL
  <1> QED  BY <1>1

\* lookupByNumber up to its first call keeps the invariant.
LEMMA LookupStartKeeps ==
    ASSUME PlainDocuments, LInv, LookupStart
    PROVE  LInv'
  <1>1. UNCHANGED <<doc, xrefs, ObjCache, repairsAttempted, asked, answers>>  BY DEF LookupStart
  <1>2. TableSound /\ stack # <<>> /\ Head(stack).fn = "lookup" /\ Head(stack).pc = "start"
    BY DEF LookupStart, Running, LInv
  <1>3. /\ (CacheFine' <=> CacheFine) /\ (CacheAgrees' <=> CacheAgrees)
        /\ \A n, v : Fine(n, v)' <=> Fine(n, v)
        /\ \A o : Read(o)' = Read(o)
    BY <1>1, CallsStay, SameTable
  <1>4. ASSUME NEW l, Shape1(l), Head(stack) = l, Tail(stack) = <<>>
        PROVE  Shapes'
    <2>1. l \in LookupFrame /\ Outer(l) /\ l.n = asked.n /\ CacheFine
      BY <1>4 DEF Shape1, Looking, Outer
    <2>2. CASE l.n \in DOMAIN ObjCache /\ Return(Value(ObjCache[l.n]))
      <3>1. Fine(asked.n, ObjCache[l.n])'  BY <1>1, <1>3, <2>1, <2>2 DEF CacheFine
      <3>2. stack' = <<>> /\ ret' = Value(ObjCache[l.n])  BY <1>4, <2>2 DEF Return
      <3>3. ret' = Value(ret'.obj) /\ ret'.obj = ObjCache[l.n]  BY <3>2 DEF Value
      <3>4. Fine(asked.n, ret.obj)'  BY <3>1, <3>3, <1>1 DEF Fine, Agrees
      <3>5. Shape0'  BY ZenonT(30), <1>1, <1>3, <2>1, <3>2, <3>3, <3>4 DEF Shape0, LookupFrame, Value
      <3> QED  BY <3>5, NextShapes
    <2>3. CASE l.n \notin DOMAIN ObjCache \cup DOMAIN xrefs /\ Return(Value(Null))
      <3>1. Fine(l.n, Null)
        <4>1. ~Healthy(l.n)  BY <1>2, <2>1, <2>3 DEF TableSound, LookupFrame
        <4> QED  BY <2>3, <4>1 DEF Fine, Agrees, Null, Object
      <3>2. stack' = <<>> /\ ret' = Value(Null)  BY <1>4, <2>3 DEF Return
      <3>3. ret' = Value(ret'.obj) /\ ret'.obj = Null  BY <3>2 DEF Value
      <3>4. Fine(asked.n, ret.obj)'  BY Zenon, <1>1, <1>3, <2>1, <3>1, <3>3 DEF Fine, Agrees
      <3>5. Shape0'  BY <1>1, <1>3, <2>1, <3>2, <3>3, <3>4 DEF Shape0, LookupFrame
      <3> QED  BY <3>5, NextShapes
    <2>4. CASE l.n \in DOMAIN xrefs /\ Call(Parse(xrefs[l.n].at), "parsed")
      <3> DEFINE p == Parse(xrefs[l.n].at)  m == [l EXCEPT !.pc = "parsed"]
      <3>1. stack' = <<p, m>>
        <4>1. stack' = <<p, m>> \o <<>>  BY Zenon, <1>4, <2>4 DEF Call
        <4> HIDE DEF p, m
        <4> QED  BY <4>1, Pushed
      <3>2. m \in LookupFrame /\ m.n = l.n /\ m.rep = l.rep /\ m.pc = "parsed"  BY <2>1 DEF LookupFrame
      <3>3. Outer(m)  BY <2>1, <3>2 DEF Outer
      <3>4. Parsing(p, m)  BY <2>4, <3>2 DEF Parsing
      <3>5. PICK q : q = p  OBVIOUS
      <3> HIDE DEF p, m
      <3>6. PICK k : k = m  OBVIOUS
      <3>7. Parsing(q, k)' /\ Outer(k)'  BY <1>1, <1>3, <2>1, <3>3, <3>4, <3>5, <3>6, CallsStay
      <3>8. Shape2(q, k)'  BY SMTT(40), <3>1, <3>5, <3>6, <3>7 DEF Shape2
      <3> QED  BY <3>8, NextShapes
    <2> QED  BY <1>2, <1>4, <2>2, <2>3, <2>4 DEF LookupStart, TableSound
  <1>5. ASSUME NEW f, NEW r, NEW l, Shape4(f, r, l), Head(stack) = f, Tail(stack) = <<r, l>>
        PROVE  Shapes'
    <2>1. /\ f \in LookupFrame /\ f.n = r.k /\ ~f.rep /\ r.pc = "looked"
          /\ Rebuilding(r, l) /\ CacheAgrees /\ f.n \in DOMAIN xrefs
      BY ZenonT(30), <1>5 DEF Shape4, Looking, Rebuilding
    <2>2. Rebuilding(r, l)'  BY <1>1, <1>3, <2>1, CallsStay
    <2>3. CASE f.n \in DOMAIN ObjCache /\ Return(Value(ObjCache[f.n]))
      <3>1. Value(ObjCache[f.n]) = Read(xrefs[f.n].at)  BY <2>1, <2>3 DEF CacheAgrees, Agrees, Read
      <3>2. stack' = <<r, l>> /\ ret' = Read(xrefs[r.k].at)  BY ZenonT(30), <1>5, <2>1, <2>3, <3>1 DEF Return
      <3>3. ret' = Read(xrefs[r.k].at)'  BY <1>1, <3>2 DEF Read, ObjectAt
      <3>4. Shape3(r, l)'  BY <2>2, <3>2, <3>3 DEF Shape3
      <3> QED  BY <3>4, NextShapes
    <2>4. CASE f.n \in DOMAIN xrefs /\ Call(Parse(xrefs[f.n].at), "parsed")
      <3> DEFINE p == Parse(xrefs[f.n].at)  m == [f EXCEPT !.pc = "parsed"]
      <3>1. PICK q, k : q = p /\ k = m  BY Zenon
      <3>2. k \in LookupFrame /\ k.n = f.n /\ k.rep = f.rep /\ k.pc = "parsed"
        BY <2>1, <3>1 DEF LookupFrame
      <3>3. Parsing(q, k)  BY <2>4, <3>1, <3>2 DEF Parsing
      <3>4. stack' = <<q, k>> \o <<r, l>>  BY Zenon, <1>5, <2>4, <3>1 DEF Call
      <3> HIDE DEF p, m
      <3>5. <<q, k>> \o <<r, l>> = <<q, k, r, l>>  BY PushedOnTwo
      <3>6. Parsing(q, k)'  BY <1>1, <3>3, CallsStay
      <3>7. Shape5(q, k, r, l)'  BY SMTT(40), <2>1, <2>2, <3>2, <3>4, <3>5, <3>6 DEF Shape5
      <3> QED  BY <3>7, NextShapes
    <2> QED  BY ZenonT(30), <1>2, <1>5, <2>1, <2>3, <2>4 DEF LookupStart, TableSound
  <1>6. Shapes'
    <2>1. ASSUME NEW r, NEW l, Shape3(r, l), Head(stack) = r, r.fn = "rebuild" PROVE FALSE
      BY SMTT(40), <1>2, <2>1
    <2> QED  BY SMTT(40), <1>2, <1>4, <1>5, <2>1, WhoRuns
  <1> QED  BY <1>1, <1>6, TableStays

\* What the entries of the table lead to.
LEMMA Entries ==
    ASSUME PlainDocuments, LInv, NEW n \in DOMAIN xrefs
    PROVE  /\ n \in Nums /\ xrefs[n].at \in Offs
           /\ xrefs[n] = [XType |-> "table", at |-> xrefs[n].at]
           /\ ~HasLengthReference(doc.body[xrefs[n].at])
           /\ doc.body[xrefs[n].at].num \in Nums
           /\ ~Unreadable(doc.body[xrefs[n].at]) => ObjectAt(xrefs[n].at) \in Object
  <1>1. xrefs \in Table /\ xrefs[n].XType = "table"  BY DEF LInv, TableSound
  <1>2. n \in Nums /\ xrefs[n] \in XrefEntry  BY <1>1 DEF Table
  <1>3. xrefs[n].at \in Offs /\ xrefs[n] = [XType |-> "table", at |-> xrefs[n].at]
    BY <1>1, <1>2 DEF XrefEntry
  <1>4. doc.body[xrefs[n].at] \in Body  BY <1>3, DocumentsAssumption DEF LInv, Document
  <1>5. ~HasLengthReference(doc.body[xrefs[n].at])  BY SMTT(40), <1>3 DEF PlainDocuments, Plain, LInv
  <1>6. ~Unreadable(doc.body[xrefs[n].at]) => ObjectAt(xrefs[n].at) \in Object
    BY SMTT(40), <1>3, <1>4 DEF Body, Object, ObjectAt, Unreadable
  <1> QED  BY <1>2, <1>3, <1>4, <1>5, <1>6 DEF Body

\* ParseIndirectObject keeps it: no length is looked up.
LEMMA ParseStartKeeps ==
    ASSUME PlainDocuments, LInv, ParseStart
    PROVE  LInv'
  <1>1. UNCHANGED <<doc, xrefs, ObjCache, repairsAttempted, asked, answers>>  BY ZenonT(30) DEF ParseStart
  <1>2. TableSound /\ stack # <<>> /\ Head(stack).fn = "parse" /\ Head(stack).pc = "start"
    BY DEF ParseStart, Running, LInv
  <1>3. (CacheFine' <=> CacheFine) /\ (CacheAgrees' <=> CacheAgrees)  BY <1>1, CallsStay
  <1>4. ASSUME NEW p, NEW l, Parsing(p, l), Head(stack) = p
        PROVE  stack' = Tail(stack) /\ Looking(l)'
    <2>1. /\ l \in LookupFrame /\ l.pc = "parsed" /\ l.n \in DOMAIN xrefs
          /\ p.off = xrefs[l.n].at
      BY <1>4 DEF Parsing, Parse
    <2>2. ~HasLengthReference(doc.body[p.off])  BY SMTT(40), <2>1, Entries
    <2>3. stack' = Tail(stack) /\ ret' = Read(p.off)  BY Zenon, <1>4, <2>2 DEF ParseStart, Return, Read
    <2>4. ret' = Read(xrefs[l.n].at)'  BY <1>1, <2>1, <2>3 DEF Read, ObjectAt
    <2> QED  BY <1>1, <2>1, <2>3, <2>4 DEF Looking
  <1>5. ASSUME NEW p, NEW l, Shape2(p, l), Head(stack) = p, Tail(stack) = <<l>>
        PROVE  Shapes'
    <2>1. Parsing(p, l) /\ Outer(l) /\ CacheFine  BY <1>5 DEF Shape2, Outer
    <2>2. Outer(l)'  BY <1>1, <1>3, <2>1, CallsStay
    <2>3. Shape1(l)'  BY ZenonT(60), <1>4, <1>5, <2>1, <2>2 DEF Shape1
    <2> QED  BY <2>3, NextShapes
  <1>6. ASSUME NEW p, NEW f, NEW r, NEW l, Shape5(p, f, r, l), Head(stack) = p,
               Tail(stack) = <<f, r, l>>
        PROVE  Shapes'
    <2>1. /\ Parsing(p, f) /\ Rebuilding(r, l) /\ CacheAgrees
          /\ r.pc = "looked" /\ f.n = r.k /\ ~f.rep
      BY ZenonT(30), <1>6 DEF Shape5, Rebuilding
    <2>2. Rebuilding(r, l)'  BY <1>1, <1>3, <2>1, CallsStay
    <2>3. Shape4(f, r, l)'  BY Zenon, <1>4, <1>6, <2>1, <2>2 DEF Shape4
    <2> QED  BY Zenon, <2>3, NextShapes
  <1>7. Shapes'
    <2>1. ASSUME NEW r, NEW l, Shape3(r, l), Head(stack) = r, r.fn = "rebuild" PROVE FALSE
      BY <1>2, <2>1
    <2> QED  BY <1>2, <1>5, <1>6, <2>1, WhoRuns
  <1> QED  BY <1>1, <1>7, TableStays

\* The client's call returns an object that may be answered.
LEMMA AnswerReady ==
    ASSUME NEW n \in Nums, NEW v, asked'.n = n, stack' = <<>>, ret' = Value(v), CacheFine', Fine(n, v)'
    PROVE  Shapes'
  <1>1. ret' = Value(ret'.obj) /\ ret'.obj = v  BY SMTT(40) DEF Value
  <1>2. Fine(asked.n, ret.obj)'  BY Zenon, <1>1 DEF Fine, Agrees, Healthy, ObjectAt
  <1>3. Shape0'  BY <1>1, <1>2 DEF Shape0
  <1> QED  BY <1>3, NextShapes

\* The object that was read is cached and returned; it has the number asked for.
LEMMA LookupParsedKeeps ==
    ASSUME PlainDocuments, LInv, LookupParsed
    PROVE  LInv'
  <1>1. UNCHANGED <<doc, xrefs, repairsAttempted, asked, answers>>  BY DEF LookupParsed
  <1>2. /\ TableSound /\ stack # <<>> /\ Head(stack).fn = "lookup" /\ Head(stack).pc = "parsed"
        /\ ret.st = "ok" /\ stack' = Tail(stack) /\ ret' = ret
        /\ ObjCache' = Put(ObjCache, Head(stack).n, ret.obj)
        /\ ~WrongNumber(Head(stack), ret.obj)
    BY DEF LookupParsed, Running, LInv, Return
  <1>3. \A n, v : (Fine(n, v)' <=> Fine(n, v)) /\ (Agrees(n, v)' <=> Agrees(n, v))
    BY Zenon, <1>1, SameTable
  <1>4. ASSUME NEW l, Looking(l), Head(stack) = l
        PROVE  /\ l \in LookupFrame /\ l.n \in DOMAIN xrefs /\ l.n \in Nums
               /\ ret = Read(xrefs[l.n].at)
               /\ ret = Value(ObjectAt(xrefs[l.n].at)) /\ ret.obj = ObjectAt(xrefs[l.n].at)
               /\ Agrees(l.n, ret.obj) /\ ret.obj \in Object
    <2>1. l \in LookupFrame /\ l.n \in DOMAIN xrefs /\ ret = Read(xrefs[l.n].at)
      BY ZenonT(30), <1>2, <1>4 DEF Looking
    <2>2. ret = Value(ObjectAt(xrefs[l.n].at)) /\ ~Unreadable(doc.body[xrefs[l.n].at])
      BY <1>2, <2>1 DEF Read, Failure
    <2>3. ret.obj = ObjectAt(xrefs[l.n].at)  BY SMTT(40), <2>2 DEF Value
    <2> QED  BY <2>1, <2>2, <2>3, Entries DEF Agrees
  <1>5. ASSUME NEW l, Shape1(l), Head(stack) = l, Tail(stack) = <<>>
        PROVE  Shapes'
    <2>1. Looking(l) /\ Outer(l) /\ l.n = asked.n /\ CacheFine  BY <1>5 DEF Shape1, Outer
    <2>2. ret.obj.num = l.n
      <3> DEFINE o == xrefs[l.n].at
      <3>4. ret.obj = ObjectAt(o)  BY <1>4, <1>5, <2>1
      <3>5. ObjectAt(o).num = doc.body[o].num  BY DEF ObjectAt
      <3>1. ret.obj.num = doc.body[o].num  BY <3>4, <3>5
      <3>2. CASE l.rep  BY <1>2, <1>5, <3>2 DEF WrongNumber
      <3>3. CASE ~l.rep  BY ZenonT(30), <1>4, <1>5, <2>1, <3>1, <3>3 DEF Outer, Right
      <3> QED  BY <3>2, <3>3
    <2>3. Fine(l.n, ret.obj)
      <3>1. Healthy(l.n) => ret.obj = ObjectAt(doc.xrefs[l.n].at)
        BY <1>2, <1>4, <1>5, <2>1 DEF TableSound
      <3> QED  BY ZenonT(30), <1>4, <1>5, <2>1, <2>2, <3>1 DEF Fine
    <2>4. PICK v : v = ret.obj  OBVIOUS
    <2>5. CacheFine'
      <3>1. \A n \in DOMAIN ObjCache' : Fine(n, ObjCache'[n])
        BY ZenonT(30), <1>2, <1>5, <2>1, <2>3 DEF CacheFine, Put
      <3> QED  BY SMTT(40), <1>3, <3>1 DEF CacheFine
    <2>6. ret' = Value(v)  BY <1>2, <1>4, <1>5, <2>1, <2>4
    <2>7. Fine(l.n, v)'  BY Zenon, <1>3, <2>3, <2>4
    <2> QED  BY ZenonT(30), <1>1, <1>2, <1>4, <1>5, <2>1, <2>5, <2>6, <2>7, AnswerReady
  <1>6. ASSUME NEW f, NEW r, NEW l, Shape4(f, r, l), Head(stack) = f, Tail(stack) = <<r, l>>
        PROVE  Shapes'
    <2>1. /\ Looking(f) /\ f.n = r.k /\ r.pc = "looked" /\ Rebuilding(r, l) /\ CacheAgrees
      BY <1>6 DEF Shape4, Rebuilding
    <2>2. CacheAgrees'
      <3>1. \A n \in DOMAIN ObjCache' : Agrees(n, ObjCache'[n])
        BY <1>2, <1>4, <1>6, <2>1 DEF CacheAgrees, Put
      <3> QED  BY ZenonT(30), <1>3, <3>1 DEF CacheAgrees
    <2>3. Rebuilding(r, l)'  BY SMTT(40), <1>1, <2>1, <2>2, CallsStay
    <2>4. ret' = Read(xrefs[r.k].at)'  BY ZenonT(60), <1>1, <1>2, <1>4, <1>6, <2>1 DEF Read, ObjectAt
    <2>5. Shape3(r, l)'  BY ZenonT(30), <1>2, <1>6, <2>3, <2>4 DEF Shape3
    <2> QED  BY <2>5, NextShapes
  <1>7. Shapes'
    <2>1. ASSUME NEW r, NEW l, Shape3(r, l), Head(stack) = r, r.fn = "rebuild" PROVE FALSE
      BY <1>2, <2>1
    <2> QED  BY SMTT(40), <1>2, <1>5, <1>6, <2>1, WhoRuns
  <1> QED  BY <1>1, <1>7, TableStays

\* A step that repairs the whole table, in a document that stays.
LEMMA Repaired ==
    ASSUME PlainDocuments, LInv, UNCHANGED <<doc, ObjCache, answers>>, TopDownRepair, Shapes'
    PROVE  LInv'
  <1>1. \A n : Healthy(n)' <=> Healthy(n)  BY SameTable
  <1>2. xrefs' = TopDownXrefs /\ repairsAttempted' = TRUE  BY DEF TopDownRepair
  <1>3. Right(TopDownXrefs)  BY TopDownSound DEF LInv
  <1>4. Right(xrefs)'  BY <1>2, <1>3 DEF Right
  <1>5. TableSound'  BY SMTT(40), <1>1, <1>2, <1>4, TopDownSound DEF LInv, TableSound
  <1>6. NumberMatches'  BY SMTT(40) DEF LInv, NumberMatches
  <1>7. HealthyFound'  BY <1>1, SameTable DEF LInv, HealthyFound
  <1> QED  BY SMTT(40), <1>2, <1>5, <1>6, <1>7 DEF LInv

\* An unreadable object: repair the table top down, or give up, which no healthy object meets.
LEMMA LookupParseFailedKeeps ==
    ASSUME PlainDocuments, LInv, LookupParseFailed
    PROVE  LInv'
  <1>1. UNCHANGED <<doc, ObjCache, asked, answers>>  BY DEF LookupParseFailed
  <1>2. /\ TableSound /\ stack # <<>> /\ Head(stack).fn = "lookup" /\ Head(stack).pc = "parsed"
        /\ ret.st = "error"
    BY DEF LookupParseFailed, Running, LInv
  <1>3. ASSUME NEW l, Looking(l), Head(stack) = l
        PROVE  /\ l \in LookupFrame /\ l.n \in DOMAIN xrefs /\ l.n \in Nums
               /\ ret = Read(xrefs[l.n].at) /\ ret = Failure
               /\ Unreadable(doc.body[xrefs[l.n].at])
    <2>1. l \in LookupFrame /\ l.n \in DOMAIN xrefs /\ ret = Read(xrefs[l.n].at)
      BY <1>2, <1>3 DEF Looking
    <2>2. Unreadable(doc.body[xrefs[l.n].at]) /\ ret = Failure  BY <1>2, <2>1 DEF Read, Value
    <2> QED  BY <2>1, <2>2 DEF LookupFrame
  <1>4. ASSUME NEW l, Shape1(l), Head(stack) = l, Tail(stack) = <<>>
        PROVE  LInv'
    <2>1. Looking(l) /\ Outer(l) /\ l.n = asked.n /\ CacheFine  BY <1>4 DEF Shape1, Outer
    <2>2. CASE TopDownRepair /\ Become(Lookup(l.n, FALSE))
      <3>1. PICK m : m = Lookup(l.n, FALSE)  BY Zenon
      <3>2. stack' = <<m>>
        <4>1. stack' = <<m>> \o <<>>  BY Zenon, <1>4, <2>2, <3>1 DEF Become
        <4> QED  BY <4>1, Pushed
      <3>3. m \in LookupFrame /\ m.n = l.n /\ m.pc = "start"
        BY <1>3, <1>4, <2>1, <3>1 DEF Lookup, LookupFrame
      <3>4. Right(xrefs)'
        <4>1. xrefs' = TopDownXrefs  BY <2>2 DEF TopDownRepair
        <4>2. Right(TopDownXrefs)  BY TopDownSound DEF LInv
        <4> QED  BY <1>1, <4>1, <4>2 DEF Right
      <3>5. CacheFine'
        <4>1. \A n, v : Fine(n, v) => Fine(n, v)'  BY ZenonT(30), <1>1, <3>4, SameTable DEF Fine
        <4> QED  BY SMTT(40), <1>1, <2>1, <4>1 DEF CacheFine
      <3>6. Shape1(m)'  BY ZenonT(30), <1>1, <2>1, <3>2, <3>3, <3>4, <3>5 DEF Shape1, Looking, Outer
      <3> QED  BY <1>1, <2>2, <3>6, NextShapes, Repaired
    <2>3. CASE Return(Failure) /\ UNCHANGED <<xrefs, repairsAttempted>>
      <3>1. ~Healthy(l.n)  BY Zenon, <1>2, <1>3, <1>4, <2>1 DEF TableSound, Healthy, Unreadable
      <3>2. stack' = <<>> /\ ret' = Failure  BY SMTT(40), <1>4, <2>3 DEF Return
      <3>3. ~Healthy(asked.n)'  BY ZenonT(60), <1>1, <2>1, <3>1 DEF Healthy
      <3>4. CacheFine'  BY SMTT(40), <1>1, <2>1, <2>3, CallsStay
      <3>5. asked'.n \in Nums  BY <1>1, <1>3, <1>4, <2>1
      <3>6. Shape0'  BY <3>2, <3>3, <3>4, <3>5 DEF Shape0
      <3> QED  BY SMTT(40), <1>1, <2>3, <3>6, NextShapes, TableStays
    <2> QED  BY Zenon, <1>4, <2>2, <2>3 DEF LookupParseFailed
  <1>5. ASSUME NEW f, NEW r, NEW l, Shape4(f, r, l), Head(stack) = f, Tail(stack) = <<r, l>>
        PROVE  LInv'
    <2>1. /\ Looking(f) /\ f.n = r.k /\ ~f.rep /\ r.pc = "looked" /\ Rebuilding(r, l) /\ CacheAgrees
      BY ZenonT(30), <1>5 DEF Shape4, Rebuilding
    <2>2. stack' = <<r, l>> /\ ret' = Failure /\ UNCHANGED <<xrefs, repairsAttempted>>
      BY Zenon, <1>5, <2>1 DEF LookupParseFailed, Return
    <2>3. Rebuilding(r, l)'  BY <1>1, <2>1, <2>2, CallsStay
    <2>4. ret' = Read(xrefs[r.k].at)'  BY Zenon, <1>1, <1>3, <1>5, <2>1, <2>2 DEF Read, ObjectAt
    <2>5. Shape3(r, l)'  BY <2>2, <2>3, <2>4 DEF Shape3
    <2> QED  BY SMTT(40), <1>1, <2>2, <2>5, NextShapes, TableStays
  <1>6. ASSUME NEW r, NEW l, Shape3(r, l), Head(stack) = r, r.fn = "rebuild" PROVE FALSE
    BY SMTT(40), <1>2, <1>6
  <1> QED  BY <1>2, <1>4, <1>5, <1>6, WhoRuns

\* A wrong number: only a table with wrong entries leads to a rebuild.
LEMMA LookupWrongNumberKeeps ==
    ASSUME PlainDocuments, LInv, LookupWrongNumber
    PROVE  LInv'
  <1>1. UNCHANGED <<doc, xrefs, ObjCache, repairsAttempted, asked, answers>>
    BY SMTT(40) DEF LookupWrongNumber
  <1>2. /\ TableSound /\ stack # <<>> /\ Head(stack).fn = "lookup" /\ Head(stack).pc = "parsed"
        /\ ret.st = "ok" /\ Head(stack).rep /\ ret.obj.num # Head(stack).n
    BY DEF LookupWrongNumber, Running, LInv, WrongNumber
  <1>3. ASSUME NEW l, Shape1(l), Head(stack) = l, Tail(stack) = <<>>
        PROVE  Shapes'
    <2>1. Looking(l) /\ l.n = asked.n /\ CacheFine  BY <1>3 DEF Shape1, Outer
    <2>2. l \in LookupFrame /\ l.n \in DOMAIN xrefs /\ ret = Read(xrefs[l.n].at)
      BY <1>2, <1>3, <2>1 DEF Looking
    <2>3. ~Right(xrefs)
      <3> DEFINE o == xrefs[l.n].at
      <3>1. ret.obj = ObjectAt(o)  BY <1>2, <2>2 DEF Read, Failure, Value
      <3>2. ObjectAt(o).num = doc.body[o].num  BY DEF ObjectAt
      <3>3. doc.body[o].num # l.n  BY <1>2, <1>3, <3>1, <3>2
      <3> QED  BY SMTT(40), <2>2, <3>3 DEF Right
    <2>4. CacheAgrees  BY <2>1, <2>3 DEF CacheFine, CacheAgrees, Fine
    <2>5. PICK r : r = [fn |-> "rebuild", k |-> l.n, pc |-> "next", todo |-> DOMAIN xrefs,
                        snapshot |-> xrefs, newXrefs |-> [n \in {} |-> Null]]
      BY Zenon
    <2>6. PICK m : m = [l EXCEPT !.pc = "rebuilt"]  BY Zenon
    <2>7. stack' = <<r, m>>
      <3>1. stack' = <<r, m>> \o <<>>  BY Zenon, <1>3, <2>5, <2>6 DEF LookupWrongNumber, Call
      <3> QED  BY <3>1, Pushed
    <2>8. m \in LookupFrame /\ m.n = l.n /\ m.pc = "rebuilt"  BY <2>2, <2>6 DEF LookupFrame
    <2>9. r \in RebuildFrame
      <3>1. xrefs \in Table /\ DOMAIN xrefs \in SUBSET Nums  BY <1>2 DEF TableSound, Table
      <3>2. [n \in {} |-> Null] \in Table
        <4>1. [n \in {} |-> Null] \in [{} -> XrefEntry]  BY SMTT(40)
        <4> QED  BY <4>1 DEF Table
      <3> QED  BY <2>2, <2>5, <3>1, <3>2 DEF RebuildFrame, LookupFrame
    <2>10. Rebuilding(r, m)
      <3>1. ~repairsAttempted  BY <1>2, <2>3 DEF TableSound
      <3> QED  BY ZenonT(30), <2>1, <2>3, <2>4, <2>5, <2>8, <2>9, <3>1 DEF Rebuilding
    <2>11. CacheAgrees'  BY <1>1, <2>4, CallsStay
    <2>12. Rebuilding(r, m)'  BY ZenonT(30), <1>1, <2>10, <2>11, CallsStay
    <2>13. Shape3(r, m)'  BY <2>5, <2>7, <2>12 DEF Shape3
    <2> QED  BY <2>13, NextShapes
  <1>4. ASSUME NEW f, NEW r, NEW l, Shape4(f, r, l), Head(stack) = f PROVE FALSE
    BY <1>2, <1>4 DEF Shape4
  <1>5. ASSUME NEW r, NEW l, Shape3(r, l), Head(stack) = r, r.fn = "rebuild" PROVE FALSE
    BY SMTT(40), <1>2, <1>5
  <1>6. Shapes'  BY ZenonT(30), <1>2, <1>3, <1>4, <1>5, WhoRuns
  <1> QED  BY <1>1, <1>6, TableStays

\* After a rebuild, which has not failed, the cache is emptied.
LEMMA LookupRebuiltKeeps ==
    ASSUME PlainDocuments, LInv, LookupRebuilt
    PROVE  LInv'
  <1>1. UNCHANGED <<doc, xrefs, repairsAttempted, asked, answers>>  BY DEF LookupRebuilt
  <1>2. stack # <<>> /\ Head(stack).fn = "lookup" /\ Head(stack).pc = "rebuilt"
    BY SMTT(40) DEF LookupRebuilt, Running
  <1>3. ASSUME NEW l, Shape6(l), Head(stack) = l, Tail(stack) = <<>>
        PROVE  Shapes'
    <2>1. /\ l \in LookupFrame /\ l.n = asked.n /\ ret.st = "ok" /\ Right(xrefs)
      BY SMTT(40), <1>3 DEF Shape6, Value
    <2>2. PICK m : m = Lookup(l.n, FALSE)  BY Zenon
    <2>3. stack' = <<m>> \o <<>> /\ ObjCache' = [n \in {} |-> Null]
      BY Zenon, <1>3, <2>1, <2>2 DEF LookupRebuilt, Become
    <2>4. stack' = <<m>>  BY <2>3, Pushed
    <2>5. m \in LookupFrame /\ m.n = l.n /\ m.pc = "start"  BY <2>1, <2>2 DEF Lookup, LookupFrame
    <2>6. CacheFine'  BY <2>3 DEF CacheFine
    <2>7. Right(xrefs)'  BY SMTT(40), <1>1, <2>1 DEF Right
    <2>8. Shape1(m)'  BY SMTT(40), <1>1, <2>1, <2>4, <2>5, <2>6, <2>7 DEF Shape1, Looking, Outer
    <2> QED  BY <2>8, NextShapes
  <1>4. ASSUME NEW r, NEW l, Shape3(r, l), Head(stack) = r, r.fn = "rebuild" PROVE FALSE
    BY <1>2, <1>4
  <1>5. Shapes'  BY SMTT(40), <1>2, <1>3, <1>4, WhoRuns
  <1> QED  BY <1>1, <1>5, TableStays

\* rebuildXrefTable takes the next entry or, at its end, replaces the table by one whose
\* entries are right and that still has the healthy objects.
LEMMA RebuildNextKeeps ==
    ASSUME PlainDocuments, LInv, RebuildNext
    PROVE  LInv'
  <1>1. UNCHANGED <<doc, ObjCache, repairsAttempted, asked, answers>>  BY ZenonT(60) DEF RebuildNext
  <1>2. TableSound /\ stack # <<>> /\ Head(stack).fn = "rebuild" /\ Head(stack).pc = "next"
    BY Zenon DEF RebuildNext, Running, LInv
  <1>3. PICK r, l : Shape3(r, l) /\ Head(stack) = r /\ Tail(stack) = <<l>>
    BY SMTT(40), <1>2, WhoRuns
  <1>4. r \in RebuildFrame /\ Rebuilding(r, l) /\ r.pc = "next" /\ CacheAgrees
    BY ZenonT(30), <1>2, <1>3 DEF Shape3, Rebuilding
  <1>5. ASSUME NEW k \in r.todo, xrefs' = xrefs,
               stack' = <<Lookup(k, FALSE), [r EXCEPT !.k = k, !.todo = Rest(r, k), !.pc = "looked"]>> \o <<l>>
        PROVE  LInv'
    <2>1. PICK f, q : f = Lookup(k, FALSE) /\ q = [r EXCEPT !.k = k, !.todo = Rest(r, k), !.pc = "looked"]
      BY Zenon
    <2>2. stack' = <<f, q, l>>  BY ZenonT(60), <1>5, <2>1, Pushed
    <2>3. k \in DOMAIN xrefs /\ k \in Nums  BY <1>4, <1>5, Entries DEF Rebuilding
    <2>4. f \in LookupFrame /\ f.n = k /\ ~f.rep /\ f.pc = "start"
      BY <2>1, <2>3 DEF Lookup, LookupFrame
    <2>5. /\ q \in RebuildFrame /\ q.k = k /\ q.pc = "looked" /\ q.todo = r.todo \ {k}
          /\ q.snapshot = r.snapshot /\ q.newXrefs = r.newXrefs
      BY Zenon, <1>4, <2>1, <2>3 DEF RebuildFrame, Rest
    <2>6. Rebuilding(q, l)  BY ZenonT(60), <1>4, <2>3, <2>5 DEF Rebuilding
    <2>7. CacheAgrees'  BY ZenonT(60), <1>1, <1>4, <1>5, CallsStay
    <2>8. Rebuilding(q, l)'  BY ZenonT(30), <1>1, <1>5, <2>6, <2>7, CallsStay
    <2>9. Shape4(f, q, l)'  BY ZenonT(30), <2>2, <2>4, <2>5, <2>8 DEF Shape4, Looking
    <2> QED  BY <1>1, <1>5, <2>9, NextShapes, TableStays
  <1>6. ASSUME r.todo = {}, xrefs' = r.newXrefs, Return(Value(Null))
        PROVE  LInv'
    <2>1. \A n : Healthy(n)' <=> Healthy(n)  BY <1>1, SameTable
    <2>2. xrefs' \in Table  BY SMTT(40), <1>4, <1>6 DEF RebuildFrame
    <2>3. \A m \in DOMAIN xrefs' : /\ xrefs'[m].XType = "table" /\ doc.body[xrefs'[m].at].num = m
                                   /\ ~Unreadable(doc.body[xrefs'[m].at])
      BY Zenon, <1>4, <1>6 DEF Rebuilding
    <2>4. Right(xrefs)'  BY SMTT(40), <1>1, <2>3 DEF Right
    <2>5. ASSUME NEW n \in Nums, Healthy(n)
          PROVE  n \in DOMAIN xrefs' /\ xrefs'[n] = doc'.xrefs[n]
      <3> DEFINE o == doc.xrefs[n].at
      <3>1. n \in DOMAIN xrefs /\ xrefs[n] = doc.xrefs[n]  BY SMTT(40), <1>2, <2>5 DEF TableSound
      <3>2. /\ doc.body[o].num = n
            /\ \A p \in Offs \ {o} : doc.body[p].num = n => doc.body[p].kind = "junk"
        BY ZenonT(30), <2>5 DEF Healthy
      <3>3. n \in DOMAIN xrefs'  BY <1>4, <1>6, <3>1, <3>2 DEF Rebuilding
      <3>4. xrefs'[n] \in XrefEntry  BY <2>2, <3>3 DEF Table
      <3>5. xrefs'[n].at \in Offs /\ xrefs'[n] = [XType |-> "table", at |-> xrefs'[n].at]
        BY Zenon, <2>3, <3>3, <3>4 DEF XrefEntry
      <3>6. xrefs'[n].at = o  BY Zenon, <2>3, <3>2, <3>3, <3>5 DEF Unreadable
      <3>7. doc.xrefs[n] = [XType |-> "table", at |-> o]  BY Zenon, <3>1, Entries
      <3> QED  BY ZenonT(30), <1>1, <3>3, <3>5, <3>6, <3>7
    <2>6. TableSound'  BY ZenonT(30), <1>1, <2>1, <2>2, <2>3, <2>4, <2>5 DEF TableSound
    <2>7. l \in LookupFrame /\ l.n = asked.n /\ l.pc = "rebuilt"  BY <1>4 DEF Rebuilding
    <2>8. stack' = <<l>> /\ ret' = Value(Null)  BY <1>3, <1>6 DEF Return
    <2>9. Shape6(l)'  BY SMTT(40), <1>1, <2>4, <2>7, <2>8 DEF Shape6
    <2>10. NumberMatches'  BY ZenonT(30), <1>1 DEF LInv, NumberMatches
    <2>11. HealthyFound'  BY <1>1, <2>1, SameTable DEF LInv, HealthyFound
    <2> QED  BY SMTT(40), <1>1, <2>6, <2>9, <2>10, <2>11, NextShapes DEF LInv
  <1> QED  BY ZenonT(60), <1>3, <1>5, <1>6 DEF RebuildNext

\* The entry looked up is filed under the number of its object, which is never 0.
LEMMA RebuildLookedKeeps ==
    ASSUME PlainDocuments, LInv, RebuildLooked
    PROVE  LInv'
  <1>1. UNCHANGED <<doc, xrefs, ObjCache, repairsAttempted, asked, answers>>  BY DEF RebuildLooked
  <1>2. /\ stack # <<>> /\ Head(stack).fn = "rebuild" /\ Head(stack).pc = "looked" /\ ret.st = "ok"
    BY DEF RebuildLooked, Running
  <1>3. PICK r, l : Shape3(r, l) /\ Head(stack) = r /\ Tail(stack) = <<l>>
    BY SMTT(40), <1>2, WhoRuns
  <1>4. /\ r \in RebuildFrame /\ Rebuilding(r, l) /\ r.pc = "looked" /\ CacheAgrees
        /\ r.k \in DOMAIN xrefs /\ r.snapshot = xrefs /\ ret = Read(xrefs[r.k].at)
    BY ZenonT(30), <1>2, <1>3 DEF Shape3, Rebuilding
  <1> DEFINE o == xrefs[r.k].at  num == doc.body[o].num
  <1>5. ret.obj = ObjectAt(o) /\ ~Unreadable(doc.body[o])
    BY <1>2, <1>4 DEF Read, Failure, Value
  <1>6. ret.obj.num = num
    <2>1. ObjectAt(o).num = num  BY ZenonT(30) DEF ObjectAt
    <2> QED  BY SMTT(40), <1>5, <2>1
  <1>7. /\ num \in Nums /\ num # 0 /\ xrefs[r.k] = [XType |-> "table", at |-> o]
        /\ xrefs[r.k] \in XrefEntry
    BY <1>4, Entries, NumsAssumption DEF XrefEntry
  <1>8. PICK t : t = Put(r.newXrefs, num, xrefs[r.k])  OBVIOUS
  <1>9. PICK q : q = [r EXCEPT !.newXrefs = t, !.pc = "next"]  OBVIOUS
  <1>10. stack' = <<q, l>>
    <2>1. Renumber(r, ret.obj) = t  BY <1>4, <1>6, <1>8 DEF Renumber
    <2>2. stack' = <<q>> \o <<l>>  BY Zenon, <1>3, <1>6, <1>7, <1>9, <2>1 DEF RebuildLooked, Become
    <2> QED  BY ZenonT(60), <2>2, Pushed
  <1>11. /\ t \in Table /\ DOMAIN t = DOMAIN r.newXrefs \cup {num}
         /\ \A m \in DOMAIN t : t[m] = IF m = num THEN xrefs[r.k] ELSE r.newXrefs[m]
    <2>1. PICK S \in SUBSET Nums : r.newXrefs \in [S -> XrefEntry]  BY SMTT(40), <1>4 DEF RebuildFrame, Table
    <2>2. t \in [S \cup {num} -> XrefEntry]  BY ZenonT(60), <1>7, <1>8, <2>1 DEF Put
    <2>3. S \cup {num} \in SUBSET Nums  BY <1>7, <2>1
    <2> QED  BY ZenonT(60), <1>8, <2>2, <2>3 DEF Put, Table
  <1>12. /\ q \in RebuildFrame /\ q.pc = "next" /\ q.todo = r.todo /\ q.snapshot = r.snapshot
         /\ q.newXrefs = t
    BY ZenonT(60), <1>4, <1>9, <1>11 DEF RebuildFrame
  <1>13. Rebuilding(q, l)
    <2>1. \A m \in DOMAIN t : /\ t[m].XType = "table" /\ doc.body[t[m].at].num = m
                              /\ ~Unreadable(doc.body[t[m].at])
      <3> SUFFICES ASSUME NEW m \in DOMAIN t
                   PROVE  /\ t[m].XType = "table" /\ doc.body[t[m].at].num = m
                          /\ ~Unreadable(doc.body[t[m].at])
        BY ZenonT(30), SMTT(40)
      <3>1. CASE m = num
        <4>1. t[m] = [XType |-> "table", at |-> o]  BY ZenonT(60), <1>7, <1>11, <3>1
        <4> QED  BY SMTT(40), <1>5, <3>1, <4>1
      <3>2. CASE m # num  BY ZenonT(60), <1>4, <1>11, <3>2 DEF Rebuilding
      <3> QED  BY <3>1, <3>2
    <2>2. ASSUME NEW k \in DOMAIN xrefs \ r.todo
          PROVE  doc.body[xrefs[k].at].num \in DOMAIN t
      <3>1. CASE k = r.k  BY Zenon, <1>11, <3>1
      <3>2. CASE k # r.k
        <4>1. doc.body[xrefs[k].at].num \in DOMAIN r.newXrefs  BY Zenon, <1>4, <3>2 DEF Rebuilding
        <4> QED  BY Zenon, <1>11, <4>1
      <3> QED  BY Zenon, <3>1, <3>2
    <2> QED  BY Zenon, <1>4, <1>12, <2>1, <2>2 DEF Rebuilding
  <1>14. CacheAgrees'
    <2>1. UNCHANGED <<doc, xrefs, asked, repairsAttempted>> /\ ObjCache' = ObjCache  BY ZenonT(30), <1>1
    <2> QED  BY Zenon, <1>4, <2>1, CallsStay
  <1>15. Rebuilding(q, l)'  BY <1>1, <1>13, <1>14, CallsStay
  <1>16. Shape3(q, l)'  BY <1>10, <1>12, <1>15 DEF Shape3
  <1> QED  BY <1>1, <1>16, NextShapes, TableStays

\* An entry that cannot be looked up: no repair has been tried, so the table is repaired
\* top down.
LEMMA RebuildFailedKeeps ==
    ASSUME PlainDocuments, LInv, RebuildFailed
    PROVE  LInv'
  <1>1. UNCHANGED <<doc, ObjCache, asked, answers>>  BY DEF RebuildFailed
  <1>2. stack # <<>> /\ Head(stack).fn = "rebuild"  BY DEF RebuildFailed, Running
  <1>3. PICK r, l : Shape3(r, l) /\ Head(stack) = r /\ Tail(stack) = <<l>>
    BY ZenonT(30), <1>2, WhoRuns
  <1>4. l \in LookupFrame /\ l.n = asked.n /\ l.pc = "rebuilt" /\ ~repairsAttempted
    BY <1>3 DEF Shape3, Rebuilding
  <1>5. TopDownRepair /\ stack' = <<l>> /\ ret' = Value(Null)
    BY Zenon, <1>3, <1>4 DEF RebuildFailed, Return
  <1>6. Right(xrefs)'
    <2>1. xrefs' = TopDownXrefs  BY <1>5 DEF TopDownRepair
    <2>2. Right(TopDownXrefs)  BY TopDownSound DEF LInv
    <2> QED  BY <1>1, <2>1, <2>2 DEF Right
  <1>7. Shape6(l)'  BY <1>1, <1>4, <1>5, <1>6 DEF Shape6
  <1> QED  BY <1>1, <1>5, <1>7, NextShapes, Repaired

\* The client asks.
LEMMA RequestKeeps ==
    ASSUME PlainDocuments, LInv, Request
    PROVE  LInv'
  <1>1. UNCHANGED <<doc, xrefs, ObjCache, repairsAttempted, answers>>  BY DEF Request
  <1>2. stack = <<>>  BY DEF Request
  <1>3. CacheFine  BY <1>2 DEF LInv, Shapes, Shape0
  <1>4. PICK n \in Nums, w \in Clients :
          asked' = [n |-> n, viaReference |-> w] /\ stack' = <<Lookup(n, TRUE)>>
    BY Zenon DEF Request
  <1>5. PICK m : m = Lookup(n, TRUE)  BY Zenon
  <1>6. m \in LookupFrame /\ m.n = n /\ m.rep /\ m.pc = "start"  BY <1>5 DEF Lookup, LookupFrame
  <1>7. CacheFine'
    <2>1. \A k, v : Fine(k, v)' <=> Fine(k, v)  BY <1>1, SameTable
    <2> QED  BY <1>1, <1>3, <2>1 DEF CacheFine
  <1>8. Shape1(m)'  BY Zenon, <1>4, <1>5, <1>6, <1>7 DEF Shape1, Looking, Outer
  <1> QED  BY <1>1, <1>8, NextShapes, TableStays

\* The answer has the number asked for and is the healthy object; resolveReference may
\* cache it.
LEMMA AnswerKeeps ==
    ASSUME PlainDocuments, LInv, Answer
    PROVE  LInv'
  <1>1. UNCHANGED <<doc, xrefs, repairsAttempted, stack, asked>>  BY DEF Answer
  <1>2. stack = <<>> /\ ret # Nothing /\ ret' = Nothing  BY DEF Answer
  <1>3. /\ CacheFine /\ asked.n \in Nums
        /\ \/ ret = Failure /\ ~Healthy(asked.n)
           \/ ret = Value(ret.obj) /\ Fine(asked.n, ret.obj)
    BY <1>2 DEF LInv, Shapes, Shape0
  <1>4. PICK n \in Nums : asked.n = n  BY <1>3
  <1>5. \A k, u : Fine(k, u)' <=> Fine(k, u)  BY <1>1, SameTable
  <1>6. CacheFine'
    <2>1. \A k \in DOMAIN ObjCache' : Fine(k, ObjCache'[k])
      <3>1. CASE ObjCache' = ObjCache  BY Zenon, <1>3, <3>1 DEF CacheFine
      <3>2. CASE ret.st = "ok" /\ ObjCache' = Put(ObjCache, asked.n, ret.obj)
        <4>1. Fine(asked.n, ret.obj)  BY <1>3, <3>2 DEF Failure
        <4> QED  BY Zenon, <1>3, <3>2, <4>1 DEF CacheFine, Put
      <3> QED  BY Zenon, <3>1, <3>2 DEF Answer
    <2> QED  BY <1>5, <2>1 DEF CacheFine
  <1>7. Shapes'
    <2>1. Shape0'  BY Zenon, <1>1, <1>2, <1>6 DEF Shape0
    <2> QED  BY <2>1, NextShapes
  <1>8. TableSound'
    <2>1. \A k : Healthy(k)' <=> Healthy(k)  BY <1>1, SameTable
    <2>2. Right(xrefs)' <=> Right(xrefs)  BY <1>1 DEF Right
    <2> QED  BY <1>1, <2>1, <2>2 DEF LInv, TableSound
  <1> DEFINE a == [n |-> n, ret |-> ret]  T == [n : Nums, ret : [st : {"ok", "error"}, obj : Object]]
  <1>9. answers' = Append(answers, a) /\ answers \in Seq(T)  BY <1>4 DEF Answer, LInv
  <1>10. a \in T
    <2>1. Null \in Object  BY ZenonT(30) DEF Null, Object
    <2> QED  BY <1>3, <1>4, <2>1 DEF Failure, Value, Fine
  <1>11. /\ a.n = n /\ a.ret = ret
         /\ (a.ret.st = "ok" /\ a.ret.obj # Null) => a.ret.obj.num = n
         /\ Healthy(n) => a.ret = Value(ObjectAt(doc.xrefs[n].at))
    <2>1. a.n = n /\ a.ret = ret  BY SMTT(40)
    <2>2. CASE ret = Failure /\ ~Healthy(asked.n)  BY ZenonT(30), <1>4, <2>1, <2>2 DEF Failure
    <2>3. CASE ret = Value(ret.obj) /\ Fine(asked.n, ret.obj)  BY <1>4, <2>1, <2>3 DEF Fine
    <2> QED  BY <1>3, <2>1, <2>2, <2>3
  <1> HIDE DEF a, T
  <1>12. /\ answers' \in Seq(T) /\ DOMAIN answers' = DOMAIN answers \cup {Len(answers) + 1}
         /\ answers'[Len(answers) + 1] = a /\ \A i \in DOMAIN answers : answers'[i] = answers[i]
    BY SMTT(40), <1>9, <1>10
  <1>13. NumberMatches'  BY SMTT(40), <1>11, <1>12 DEF LInv, NumberMatches
  <1>14. HealthyFound'
    <2>1. \A k : Healthy(k)' <=> Healthy(k)  BY <1>1, SameTable
    <2>2. \A o : ObjectAt(o)' = ObjectAt(o)  BY Zenon, <1>1, SameTable
    <2>3. \A i \in DOMAIN answers' :
             Healthy(answers'[i].n) => answers'[i].ret = Value(ObjectAt(doc.xrefs[answers'[i].n].at))
      <3> SUFFICES ASSUME NEW i \in DOMAIN answers'
                   PROVE  Healthy(answers'[i].n) =>
                            answers'[i].ret = Value(ObjectAt(doc.xrefs[answers'[i].n].at))
        OBVIOUS
      <3>1. CASE i \in DOMAIN answers  BY SMTT(40), <1>12, <3>1 DEF LInv, HealthyFound
      <3>2. CASE i = Len(answers) + 1
        <4>1. answers'[i] = a  BY <1>12, <3>2
        <4> QED  BY ZenonT(30), <1>11, <4>1
      <3> QED  BY ZenonT(30), <1>12, <3>1, <3>2
    <2> QED  BY ZenonT(30), <1>1, <2>1, <2>2, <2>3 DEF HealthyFound
  <1> QED  BY ZenonT(30), <1>1, <1>7, <1>8, <1>12, <1>13, <1>14 DEF LInv, T

\* A document is opened: nothing is cached, and the table is the one of the document.
LEMMA InitLInv == PlainDocuments /\ Init => LInv
  <1> SUFFICES ASSUME PlainDocuments, Init PROVE LInv  OBVIOUS
  <1>1. doc \in Documents /\ doc \in Document /\ xrefs = doc.xrefs  BY DocumentsAssumption DEF Init
  <1>2. TableSound
    <2>1. xrefs \in Table  BY <1>1 DEF Document
    <2>2. \A n \in DOMAIN xrefs : xrefs[n].XType = "table"  BY Zenon, <1>1 DEF PlainDocuments, Plain
    <2>3. \A n \in Nums : Healthy(n) => n \in DOMAIN xrefs  BY <1>1 DEF Healthy
    <2> QED  BY <1>1, <2>1, <2>2, <2>3 DEF TableSound, Init
  <1>3. Shape0  BY DEF Init, Shape0, CacheFine
  <1>4. Shapes  BY <1>3, ShapesOfCalls
  <1>5. answers = <<>> /\ repairsAttempted = FALSE  BY DEF Init
  <1>6. NumberMatches /\ HealthyFound  BY <1>5 DEF NumberMatches, HealthyFound
  <1>7. answers \in Seq([n : Nums, ret : [st : {"ok", "error"}, obj : Object]])  BY <1>5
  <1> QED  BY Zenon, <1>1, <1>2, <1>4, <1>5, <1>6, <1>7 DEF LInv

\* Every step keeps the invariant; the calls that a plain document never makes do not run.
LEMMA StepLInv == PlainDocuments /\ LInv /\ [Next]_vars => LInv'
  <1> SUFFICES ASSUME PlainDocuments, LInv, [Next]_vars PROVE LInv'  OBVIOUS
  <1>1. CASE LookupFromStream
    <2>1. stack # <<>> /\ Head(stack).fn = "lookup" /\ Head(stack).pc = "os"
      BY <1>1 DEF LookupFromStream, Running
    <2> QED  BY <2>1, WhoRuns
  <1>2. CASE ParseLength
    <2>1. stack # <<>> /\ Head(stack).fn = "parse" /\ Head(stack).pc = "length"
      BY <1>2 DEF ParseLength, Running
    <2> QED  BY SMTT(40), <2>1, WhoRuns
  <1>3. CASE ViaOSStart \/ ViaOSLoaded
    <2>1. stack # <<>> /\ Head(stack).fn = "viaOS"
      BY Zenon, <1>3 DEF ViaOSStart, ViaOSLoaded, Running
    <2> QED  BY SMTT(40), <2>1, WhoRuns
  <1>4. CASE UNCHANGED vars
    <2>1. Shapes'
      <3>1. UNCHANGED <<doc, xrefs, ObjCache, repairsAttempted, stack, ret, asked>>  BY <1>4 DEF vars
      <3>2. \A k, u : (Fine(k, u)' <=> Fine(k, u)) /\ (Agrees(k, u)' <=> Agrees(k, u))
        BY <3>1, SameTable
      <3>3. (CacheFine' <=> CacheFine) /\ (CacheAgrees' <=> CacheAgrees)  BY <3>1, CallsStay
      <3>4. Shape0 => Shape0'
        <4>1. Healthy(asked.n)' <=> Healthy(asked.n)  BY <3>1 DEF Healthy
        <4>2. Fine(asked.n, ret.obj)' <=> Fine(asked.n, ret.obj)  BY SMTT(40), <3>1, <3>2
        <4> QED  BY ZenonT(30), <3>1, <3>3, <4>1, <4>2 DEF Shape0
      <3>5. \A l : Looking(l) => Looking(l)'  BY ZenonT(30), <3>1 DEF Looking, Read, ObjectAt
      <3>6. \A l : Shape1(l) => Shape1(l)'
        <4>1. CacheFine' => \A l : Outer(l) => Outer(l)'  BY Zenon, <3>1, CallsStay
        <4> QED  BY Zenon, <3>1, <3>3, <3>5, <4>1 DEF Shape1, Outer
      <3>7. \A p, l : Shape2(p, l) => Shape2(p, l)'
        <4>1. CacheFine' => \A l : Outer(l) => Outer(l)'  BY <3>1, CallsStay
        <4>2. \A p, l : Parsing(p, l) => Parsing(p, l)'  BY SMTT(40), <3>1, CallsStay
        <4> QED  BY ZenonT(30), <3>1, <3>3, <4>1, <4>2 DEF Shape2, Outer
      <3>8. \A r, l : Rebuilding(r, l) => Rebuilding(r, l)'
        <4>1. CacheAgrees' => \A r, l : Rebuilding(r, l) => Rebuilding(r, l)'  BY SMTT(40), <3>1, CallsStay
        <4> QED  BY Zenon, <3>3, <4>1 DEF Rebuilding
      <3>9. \A r, l : Shape3(r, l) => Shape3(r, l)'
        BY Zenon, <3>1, <3>8 DEF Shape3, Read, ObjectAt
      <3>10. \A f, r, l : Shape4(f, r, l) => Shape4(f, r, l)'  BY Zenon, <3>1, <3>5, <3>8 DEF Shape4
      <3>11. \A p, f, r, l : Shape5(p, f, r, l) => Shape5(p, f, r, l)'
        <4>1. \A p, l : Parsing(p, l) => Parsing(p, l)'  BY <3>1, CallsStay
        <4> QED  BY ZenonT(30), <3>1, <3>8, <4>1 DEF Shape5
      <3>12. \A l : Shape6(l) => Shape6(l)'
        <4>1. Right(xrefs)' <=> Right(xrefs)  BY <3>1 DEF Right
        <4> QED  BY Zenon, <3>1, <4>1 DEF Shape6
      <3> QED
        BY ZenonT(60), <3>4, <3>6, <3>7, <3>9, <3>10, <3>11, <3>12, NextShapes DEF LInv, Shapes
    <2> QED  BY <1>4, <2>1, TableStays DEF vars
  <1> QED
    BY ZenonT(30), <1>1, <1>2, <1>3, <1>4, RequestKeeps, AnswerKeeps, LookupStartKeeps, LookupParseFailedKeeps,
       LookupParsedKeeps, LookupWrongNumberKeeps, LookupRebuiltKeeps, ParseStartKeeps,
       RebuildNextKeeps, RebuildLookedKeeps, RebuildFailedKeeps
       DEF Next, Step

\* The invariant holds whenever the documents are plain.
LEMMA LInvAlways == ASSUME PlainDocuments PROVE Spec => []LInv
  <1>1. Init => LInv  BY InitLInv
  <1>2. LInv /\ [Next]_vars => LInv'  BY StepLInv
  <1> QED  BY <1>1, <1>2, PTL DEF Spec

\* In every document without compressed objects and indirect lengths, however wrong its
\* table, a lookup that finds an object finds one with the number asked for: the check in
\* lookupByNumber, the renumbering of rebuildXrefTable and the cleared cache together.
THEOREM NumberMatchesAlways == ASSUME PlainDocuments PROVE Spec => []NumberMatches
  <1>1. LInv => NumberMatches  BY DEF LInv
  <1> QED  BY <1>1, LInvAlways, PTL

\* In every such document each lookup of a healthy object returns it: neither
\* rebuildXrefTable nor repairRebuildXrefsTopDown, nor what earlier lookups have cached,
\* loses an object that is where the table says and that no other object has the number of.
THEOREM HealthyFoundAlways == ASSUME PlainDocuments PROVE Spec => []HealthyFound
  <1>1. LInv => HealthyFound  BY DEF LInv
  <1> QED  BY <1>1, LInvAlways, PTL
=============================================================================

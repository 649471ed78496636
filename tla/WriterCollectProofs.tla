------------------------ MODULE WriterCollectProofs ------------------------
(***************************************************************************)
(* Proofs about WriterCollect, for documents of any size, with any         *)
(* references, parents, inherited resources and links between pages, and   *)
(* any number of pages that are added: the recursions are bounded, what is *)
(* written leads only to what is written or also used by a page left out,  *)
(* and nothing is written that only pages left out lead to.                *)
(*                                                                         *)
(* The argument.  While objects are collected, every reference of a        *)
(* collected object has been collected or lies ahead of the running call   *)
(* that works on the object (Collecting), a Parent that is missing has     *)
(* been remembered, and all collected objects can be reached from the      *)
(* catalog.  While they are copied, the same holds for the copies          *)
(* (Copying): so once the copy of the catalog, the first object of the     *)
(* list, has been made, all objects have been copied, and each that is     *)
(* written was met on a way from the catalog that passes no page left out. *)
(***************************************************************************)
EXTENDS WriterCollect, SequenceTheorems, TLAPS

\* What the objects of the writer and of the source document are.
Separate ==
    /\ Documents \subseteq Document /\ CatalogEntries \subseteq Nodes
    /\ Null \notin Objects /\ Root # Pages /\ OldPages # Root /\ OldPages # Pages
    /\ OldPages \notin Nodes /\ Root \notin Nodes /\ Pages \notin Nodes

Has(n) == n \in Range(objects)

\* Reference j of n is still ahead of a running call.
Ahead(n, j) == \E f \in Range(stack) : f.n = n /\ f.i <= j

\* A running call, for an object, at one of its references.
Calls == [n : Objects, i : Nat \ {0}, skip : BOOLEAN]

Types ==
    /\ doc \in Documents
    /\ refs \in [Objects -> Seq(Objects)]
    /\ parent \in [Objects -> Objects \cup {Null}]
    /\ objects \in Seq(Objects) /\ Len(objects) >= 2 /\ objects[1] = Root /\ objects[2] = Pages
    /\ outline \in CatalogEntries \cup {Null}
    /\ pc \in {"open", "add", "write", "copy", "done"}
    /\ stack \in Seq(Calls)
    /\ copied \subseteq Objects /\ skipMap \subseteq Objects
    /\ visit \in 0 .. Len(objects)
    /\ output \in Seq(Objects)

\* Every set that contains the catalog and what its members refer to has all that was
\* collected.
Reached ==
    \A T \in SUBSET Objects :
        (Root \in T /\ \A n \in T : Range(refs[n]) \subseteq T) => Range(objects) \subseteq T

\* AddPage, the setters of catalog entries, and Write before it copies.
Collecting ==
    /\ pc = "open" => stack = <<>>
    /\ copied = {} /\ skipMap = {} /\ visit = 0 /\ output = <<>>
    /\ \A f \in Range(stack) : Has(f.n)
    /\ \A n \in Range(objects) : \A j \in DOMAIN refs[n] : Has(refs[n][j]) \/ Ahead(n, j)
    /\ \A n \in Range(objects) :
         parent[n] = Null \/ Has(parent[n]) \/ <<parent[n], n>> \in pendingObjects

Live == Closure({Root}, UnusedPages)

\* copyObjects.
Copying ==
    /\ pc = "done" => stack = <<>> /\ visit = Len(objects)
    /\ \A n \in Range(objects) : Range(Below(n)) \subseteq Range(objects)
    /\ visit = 0 => copied = {} /\ stack = <<>>
    /\ visit > 0 => Root \in copied
    /\ \A f \in Range(stack) : f.n \in copied
    /\ \A n \in copied : \A j \in DOMAIN Below(n) : Below(n)[j] \in copied \/ Ahead(n, j)
    /\ \A f \in Range(stack) : IF f.skip THEN f.n \in BelowUnused ELSE f.n \in Live
    /\ \A n \in copied : n \in Live \/ n \in skipMap \/ \E f \in Range(stack) : f.n = n /\ f.skip
    /\ skipMap \subseteq BelowUnused
    /\ Range(output) \subseteq Range(objects) \cap Live
    /\ \A v \in 1 .. visit : objects[v] \in Range(output) \/ objects[v] \in skipMap

CInv ==
    /\ Types /\ Reached /\ RecursionBounded
    /\ IF pc \in {"open", "add", "write"} THEN Collecting ELSE Copying

-----------------------------------------------------------------------------
\* No two calls of a stack are for the same object.
Distinct(s) == \A i, k \in DOMAIN s : s[i].n = s[k].n => i = k

\* Appending an object to a list adds it to its members.
LEMMA RangeAppend ==
    ASSUME NEW S, NEW s \in Seq(S), NEW x \in S
    PROVE  /\ Append(s, x) \in Seq(S) /\ Len(Append(s, x)) = Len(s) + 1
           /\ Range(Append(s, x)) = Range(s) \cup {x}
           /\ \A v \in 1 .. Len(s) : Append(s, x)[v] = s[v]
  <1> DEFINE t == Append(s, x)
  <1>1. t \in Seq(S) /\ Len(t) = Len(s) + 1 /\ \A v \in 1 .. Len(s) : t[v] = s[v]  OBVIOUS
  <1>2. t[Len(s) + 1] = x  OBVIOUS
  <1>3. Range(t) = {t[v] : v \in 1 .. Len(t)} /\ Range(s) = {s[v] : v \in 1 .. Len(s)}
    BY Zenon, <1>1, RangeEquality
  <1>4. \A v \in 1 .. Len(t) : v \in 1 .. Len(s) \/ v = Len(s) + 1  BY <1>1
  <1>5. Range(t) \subseteq Range(s) \cup {x}  BY <1>1, <1>2, <1>3, <1>4
  <1>6. Range(s) \subseteq Range(t)
    <2> SUFFICES ASSUME NEW v \in 1 .. Len(s) PROVE s[v] \in Range(t)  BY <1>3
    <2>1. v \in 1 .. Len(t) /\ t[v] = s[v]  BY <1>1
    <2> QED  BY <2>1, <1>3
  <1>7. x \in Range(t)
    <2>1. Len(s) + 1 \in 1 .. Len(t)  BY <1>1
    <2> QED  BY <2>1, <1>2, <1>3
  <1> QED  BY <1>1, <1>5, <1>6, <1>7

\* The call on top of a stack and those below it.
LEMMA TopAndRest ==
    ASSUME NEW S, NEW s \in Seq(S), s # <<>>
    PROVE  /\ Tail(s) \in Seq(S) /\ Head(s) \in S
           /\ Range(s) = {Head(s)} \cup Range(Tail(s))
           /\ Head(s) = s[1] /\ Len(Tail(s)) = Len(s) - 1
           /\ \A k \in 1 .. Len(s) - 1 : Tail(s)[k] = s[k + 1]
  <1> DEFINE t == Tail(s)
  <1>1. t \in Seq(S) /\ Head(s) \in S /\ Len(t) = Len(s) - 1 /\ Len(s) \in Nat \ {0} /\ Head(s) = s[1]
    BY HeadTailProperties
  <1>2. \A k \in 1 .. Len(s) - 1 : t[k] = s[k + 1]  BY HeadTailProperties
  <1>3. Range(t) = {t[v] : v \in 1 .. Len(t)} /\ Range(s) = {s[v] : v \in 1 .. Len(s)}
    BY Zenon, <1>1, RangeEquality
  <1>4. Range(s) \subseteq {s[1]} \cup Range(t)
    <2> SUFFICES ASSUME NEW v \in 1 .. Len(s), v # 1 PROVE s[v] \in Range(t)  BY <1>3
    <2>1. v - 1 \in 1 .. Len(t) /\ t[v - 1] = s[v]  BY <1>1, <1>2
    <2> QED  BY Zenon, <2>1, <1>3
  <1>5. Range(t) \subseteq Range(s)
    <2> SUFFICES ASSUME NEW v \in 1 .. Len(t) PROVE t[v] \in Range(s)  BY <1>3
    <2>1. v + 1 \in 1 .. Len(s) /\ t[v] = s[v + 1]  BY <1>1, <1>2
    <2> QED  BY <2>1, <1>3
  <1>6. s[1] \in Range(s)
    <2>1. 1 \in 1 .. Len(s)  BY <1>1
    <2> QED  BY <2>1, <1>3
  <1> QED  BY <1>1, <1>2, <1>4, <1>5, <1>6

\* A call is put on top of a stack.
LEMMA Pushed ==
    ASSUME NEW S, NEW s \in Seq(S), NEW a \in S
    PROVE  /\ <<a>> \o s \in Seq(S) /\ Range(<<a>> \o s) = {a} \cup Range(s)
           /\ Len(<<a>> \o s) = Len(s) + 1 /\ (<<a>> \o s)[1] = a
           /\ \A k \in 2 .. Len(s) + 1 : (<<a>> \o s)[k] = s[k - 1]
  <1>1. <<a>> \in Seq(S) /\ Len(<<a>>) = 1 /\ <<a>>[1] = a  OBVIOUS
  <1>2. Range(<<a>>) = {a}
    <2>1. DOMAIN <<a>> = {1}  OBVIOUS
    <2> QED  BY <2>1, <1>1 DEF Range
  <1>3. Range(<<a>> \o s) = {a} \cup Range(s)
    <2>1. PICK u \in Seq(S) : u = <<a>>  BY Zenon, <1>1
    <2>2. Range(u \o s) = Range(u) \cup Range(s)  BY RangeConcatenation
    <2> QED  BY <2>1, <2>2, <1>2
  <1> QED  BY <1>1, <1>3, ConcatProperties

\* Taking the top call away leaves a stack without repetitions.
LEMMA DistinctTail ==
    ASSUME NEW s \in Seq(Calls), s # <<>>, Distinct(s)
    PROVE  Distinct(Tail(s)) /\ \A f \in Range(Tail(s)) : f.n # Head(s).n
  <1> DEFINE t == Tail(s)
  <1>1. /\ t \in Seq(Calls) /\ Head(s) = s[1] /\ Len(t) = Len(s) - 1
        /\ \A k \in 1 .. Len(s) - 1 : t[k] = s[k + 1]
    BY TopAndRest
  <1>2. Len(s) \in Nat \ {0} /\ DOMAIN s = 1 .. Len(s) /\ DOMAIN t = 1 .. Len(s) - 1  BY <1>1, HeadTailProperties
  <1>3. \A k \in DOMAIN t : k + 1 \in DOMAIN s /\ 1 \in DOMAIN s /\ t[k] = s[k + 1] /\ k + 1 # 1  BY <1>1, <1>2
  <1>4. Distinct(t)  BY <1>2, <1>3 DEF Distinct
  <1>5. \A k \in DOMAIN t : t[k].n # s[1].n  BY <1>3 DEF Distinct
  <1>6. \A f \in Range(t) : \E k \in DOMAIN t : f = t[k]  BY DEF Range
  <1> QED  BY <1>1, <1>4, <1>5, <1>6

\* A call for an object that no other is for keeps a stack without repetitions.
LEMMA DistinctPush ==
    ASSUME NEW s \in Seq(Calls), NEW a \in Calls, Distinct(s), \A f \in Range(s) : f.n # a.n
    PROVE  Distinct(<<a>> \o s)
  <1> DEFINE t == <<a>> \o s
  <1>1. /\ t \in Seq(Calls) /\ Len(t) = Len(s) + 1 /\ t[1] = a
        /\ \A k \in 2 .. Len(s) + 1 : t[k] = s[k - 1]
    BY Pushed
  <1>2. Len(s) \in Nat /\ DOMAIN s = 1 .. Len(s) /\ DOMAIN t = 1 .. Len(s) + 1  BY <1>1
  <1>3. \A k \in DOMAIN s : s[k] \in Range(s)  BY DEF Range
  <1>4. \A k \in DOMAIN t : k # 1 => k - 1 \in DOMAIN s /\ t[k] = s[k - 1] /\ t[k].n # a.n  BY <1>1, <1>2, <1>3
  <1> SUFFICES ASSUME NEW i \in DOMAIN t, NEW k \in DOMAIN t, t[i].n = t[k].n PROVE i = k
    BY DEF Distinct
  <1>5. CASE i = 1 \/ k = 1  BY <1>1, <1>4, <1>5
  <1>6. CASE i # 1 /\ k # 1
    <2>1. i - 1 = k - 1  BY <1>4, <1>6 DEF Distinct
    <2> QED  BY <2>1, <1>2
  <1> QED  BY <1>5, <1>6

\* Two calls are put on top of a stack.
LEMMA PushedTwo ==
    ASSUME NEW S, NEW t \in Seq(S), NEW a \in S, NEW c \in S
    PROVE  <<c>> \o (<<a>> \o t) = <<c, a>> \o t
  <1>1. <<c>> \in Seq(S) /\ <<a>> \in Seq(S)  OBVIOUS
  <1>2. <<c>> \o <<a>> = <<c, a>>
    <2> DEFINE u == <<c>> \o <<a>>  v == <<c, a>>
    <2>1. u \in Seq(S) /\ v \in Seq(S)  OBVIOUS
    <2>2. Len(u) = 2 /\ Len(v) = 2 /\ u[1] = v[1] /\ u[2] = v[2]  OBVIOUS
    <2> HIDE DEF u, v
    <2>3. \A i \in 1 .. 2 : i = 1 \/ i = 2  OBVIOUS
    <2>4. \A i \in 1 .. Len(u) : u[i] = v[i]  BY <2>2, <2>3
    <2>5. u = v  BY <2>1, <2>2, <2>4, SeqEqual
    <2> QED  BY <2>5 DEF u, v
  <1>3. PICK x \in Seq(S), y \in Seq(S) : x = <<c>> /\ y = <<a>>  BY Zenon, <1>1
  <1>4. (x \o y) \o t = x \o (y \o t)  BY ConcatAssociative
  <1> QED  BY Zenon, <1>2, <1>3, <1>4

\* The call f on top of a stack ends, or goes on to its next reference.
LEMMA StackNext ==
    ASSUME NEW s \in Seq(Calls), s # <<>>, Distinct(s), NEW f, f = Head(s), NEW a, a = [f EXCEPT !.i = @ + 1]
    PROVE  /\ f \in Calls /\ a \in Calls
           /\ a.n = f.n /\ a.i = f.i + 1 /\ a.skip = f.skip
           /\ Range(s) = {f} \cup Range(Tail(s))
           /\ Tail(s) \in Seq(Calls) /\ Distinct(Tail(s))
           /\ <<a>> \o Tail(s) \in Seq(Calls) /\ Distinct(<<a>> \o Tail(s))
           /\ Range(<<a>> \o Tail(s)) = {a} \cup Range(Tail(s))
  <1>1. PICK t \in Seq(Calls) : t = Tail(s) /\ Range(s) = {f} \cup Range(t) /\ f \in Calls  BY Zenon, TopAndRest
  <1>2. Distinct(t) /\ \A g \in Range(t) : g.n # f.n  BY <1>1, DistinctTail
  <1>3. a \in Calls /\ a.n = f.n /\ a.i = f.i + 1 /\ a.skip = f.skip
    <2>1. f.n \in Objects /\ f.i \in Nat \ {0} /\ f.skip \in BOOLEAN  BY <1>1 DEF Calls
    <2>2. a = [n |-> f.n, i |-> f.i + 1, skip |-> f.skip]  BY <1>1 DEF Calls
    <2> QED  BY <2>1, <2>2 DEF Calls
  <1>5. PICK u \in Seq(Calls) : u = <<a>> \o t /\ Range(u) = {a} \cup Range(t)  BY ZenonT(60), <1>3, Pushed
  <1>6. Distinct(u)  BY Zenon, <1>2, <1>3, <1>5, DistinctPush
  <1> QED  BY <1>1, <1>2, <1>3, <1>5, <1>6

\* A call c, for an object that no running call is for, is put on top of the others.
LEMMA StackCall ==
    ASSUME NEW t \in Seq(Calls), NEW a \in Calls, NEW c \in Calls, Distinct(<<a>> \o t),
           \A g \in {a} \cup Range(t) : g.n # c.n
    PROVE  /\ <<c, a>> \o t \in Seq(Calls) /\ Distinct(<<c, a>> \o t)
           /\ Range(<<c, a>> \o t) = {c, a} \cup Range(t)
  <1>1. PICK u \in Seq(Calls) : u = <<a>> \o t /\ Range(u) = {a} \cup Range(t)
    <2>1. <<a>> \o t \in Seq(Calls) /\ Range(<<a>> \o t) = {a} \cup Range(t)  BY Pushed
    <2> QED  BY Zenon, <2>1
  <1>2. <<c>> \o u \in Seq(Calls) /\ Range(<<c>> \o u) = {c} \cup Range(u)  BY Pushed
  <1>3. <<c>> \o (<<a>> \o t) = <<c, a>> \o t  BY PushedTwo, Zenon
  <1>4. Distinct(<<c>> \o u)  BY Zenon, <1>1, DistinctPush
  <1> QED  BY Zenon, <1>1, <1>2, <1>3, <1>4

\* A set that is closed under the references of a later state is closed under those it
\* has now, so what could be reached from the catalog still can be.
LEMMA ReachedKept ==
    ASSUME Reached, refs' \in [Objects -> Seq(Objects)], objects' \in Seq(Objects),
           \A n \in Objects : Range(refs[n]) \subseteq Range(refs'[n]),
           \A x \in Range(objects') : Has(x) \/ \E m \in Range(objects) : x \in Range(refs'[m])
    PROVE  Reached'
  <1> SUFFICES ASSUME NEW T \in SUBSET Objects, Root \in T, \A n \in T : Range(refs'[n]) \subseteq T
               PROVE  Range(objects') \subseteq T
    BY Zenon DEF Reached
  <1>1. Range(objects) \subseteq T  BY Zenon DEF Reached
  <1> QED  BY <1>1 DEF Has

\* Closure contains its seeds and what its objects outside of the cut refer to.
LEMMA ClosureClosed ==
    ASSUME NEW S \in SUBSET Objects, NEW cut
    PROVE  /\ S \subseteq Closure(S, cut)
           /\ \A n \in Closure(S, cut) \ cut : Range(Below(n)) \cap Objects \subseteq Closure(S, cut)
  <1>1. S \subseteq Closure(S, cut)  BY DEF Closure
  <1>2. ASSUME NEW n \in Closure(S, cut) \ cut, NEW m \in Range(Below(n)) \cap Objects
        PROVE  m \in Closure(S, cut)
    BY <1>2 DEF Closure
  <1> QED  BY <1>1, <1>2

-----------------------------------------------------------------------------
\* A new writer has a catalog and an empty page tree.
LEMMA InitCInv == Separate /\ CollectInit => CInv
  <1> SUFFICES ASSUME Separate, CollectInit PROVE CInv  OBVIOUS
  <1>1. Objects = Nodes \cup {OldPages, Root, Pages}  BY DEF Objects
  <1>2. doc \in Document  BY DEF CollectInit, Separate
  <1>3. /\ doc.refs \in [Nodes -> Seq(Nodes)] /\ doc.inherited \in Seq(Nodes)
        /\ doc.parent \in [Nodes -> Nodes \cup {OldPages, Null}]
    BY <1>2 DEF Document
  <1>4. \A s \in Seq(Nodes) : s \in Seq(Objects)  BY <1>1, SeqMonotonic
  <1>5. /\ \A n \in Nodes : refs[n] \in Seq(Objects)
        /\ refs[OldPages] \in Seq(Objects)
        /\ refs[Root] = <<Pages>> /\ refs[Pages] = <<>> /\ DOMAIN refs = Objects
    BY <1>1, <1>3, <1>4 DEF CollectInit, Separate
  <1>6. <<Pages>> \in Seq(Objects) /\ <<>> \in Seq(Objects)  BY <1>1
  <1>7. refs \in [Objects -> Seq(Objects)]
    <2>1. \A n \in Objects : refs[n] \in Seq(Objects)  BY Zenon, <1>1, <1>5, <1>6
    <2> DEFINE e(n) == CASE n \in Nodes -> doc.refs[n]
                         [] n = OldPages -> doc.inherited
                         [] n = Root -> <<Pages>>
                         [] n = Pages -> <<>>
    <2>2. refs = [n \in Objects |-> e(n)]  BY DEF CollectInit
    <2> HIDE DEF e
    <2> QED  BY <2>1, <2>2
  <1>8. objects = <<Root, Pages>> /\ objects \in Seq(Objects) /\ Len(objects) = 2 /\ objects[1] = Root /\ objects[2] = Pages
    BY <1>1 DEF CollectInit
  <1>9. Types
    <2>1. parent \in [Objects -> Objects \cup {Null}]  BY <1>1, <1>3 DEF CollectInit
    <2>2. stack \in Seq(Calls) /\ output \in Seq(Objects)  BY DEF CollectInit
    <2>3. visit \in 0 .. Len(objects) /\ Len(objects) >= 2  BY <1>8 DEF CollectInit
    <2>4. /\ doc \in Documents /\ outline \in CatalogEntries \cup {Null} /\ pc = "open"
          /\ copied \subseteq Objects /\ skipMap \subseteq Objects
      BY DEF CollectInit
    <2> QED  BY <1>7, <1>8, <2>1, <2>2, <2>3, <2>4 DEF Types
  <1>10. Range(objects) = {Root, Pages}
    <2>1. \A i \in 1 .. 2 : i = 1 \/ i = 2  OBVIOUS
    <2>2. 1 \in 1 .. 2 /\ 2 \in 1 .. 2  OBVIOUS
    <2>3. DOMAIN objects = 1 .. 2  BY <1>8
    <2> QED  BY <1>8, <2>1, <2>2, <2>3 DEF Range
  <1>11. Range(refs[Root]) = {Pages}
    <2>1. DOMAIN <<Pages>> = {1} /\ <<Pages>>[1] = Pages  OBVIOUS
    <2> QED  BY <2>1, <1>5 DEF Range
  <1>12. Reached  BY <1>10, <1>11 DEF Reached
  <1>13. stack = <<>> /\ DOMAIN stack = {} /\ Range(stack) = {}  BY DEF CollectInit, Range
  <1>14. RecursionBounded  BY <1>13 DEF RecursionBounded
  <1>15. Collecting
    <2>1. \A n \in Range(objects) : parent[n] = Null  BY <1>1, <1>10 DEF CollectInit, Separate
    <2>2. \A n \in Range(objects) : \A j \in DOMAIN refs[n] : Has(refs[n][j])
      <3>1. DOMAIN <<Pages>> = {1} /\ <<Pages>>[1] = Pages /\ DOMAIN refs[Pages] = {}  BY <1>5
      <3> QED  BY <3>1, <1>5, <1>10 DEF Has
    <2> QED  BY Zenon, <1>13, <2>1, <2>2 DEF Collecting, CollectInit
  <1>16. pc \in {"open", "add", "write"}  BY DEF CollectInit
  <1> QED  BY <1>9, <1>12, <1>14, <1>15, <1>16 DEF CInv

\* What a step that collects has to leave true.
LEMMA CollectingKept ==
    ASSUME CInv, pc \in {"open", "add", "write"}, pc' \in {"open", "add", "write"},
           UNCHANGED <<doc, copied, skipMap, visit, output>>, outline' \in CatalogEntries \cup {Null},
           refs' \in [Objects -> Seq(Objects)], parent' \in [Objects -> Objects \cup {Null}],
           \A n \in Objects : Range(refs[n]) \subseteq Range(refs'[n]),
           stack' \in Seq(Calls), Distinct(stack'), pc' = "open" => stack' = <<>>,
           objects' = objects \/ \E m \in Objects : objects' = Append(objects, m),
           \A x \in Range(objects') : Has(x) \/ \E m \in Range(objects) : x \in Range(refs'[m]),
           \A g \in Range(stack') : g.n \in Range(objects'),
           \A n \in Range(objects') : \A j \in DOMAIN refs'[n] :
              refs'[n][j] \in Range(objects') \/ \E g \in Range(stack') : g.n = n /\ g.i <= j,
           \A n \in Range(objects') :
              \/ parent'[n] = Null \/ parent'[n] \in Range(objects')
              \/ <<parent'[n], n>> \in pendingObjects'
    PROVE  CInv'
  <1>1. Types /\ Reached /\ Collecting  BY DEF CInv
  <1>2. objects' \in Seq(Objects) /\ Len(objects') >= 2 /\ objects'[1] = Root /\ objects'[2] = Pages
    <2>1. CASE objects' = objects  BY <1>1, <2>1 DEF Types
    <2>2. CASE \E m \in Objects : objects' = Append(objects, m)
      <3>1. PICK m \in Objects : objects' = Append(objects, m)  BY <2>2
      <3>2. /\ objects' \in Seq(Objects) /\ Len(objects') = Len(objects) + 1
            /\ \A v \in 1 .. Len(objects) : objects'[v] = objects[v]
        BY <1>1, <3>1, RangeAppend DEF Types
      <3>3. 1 \in 1 .. Len(objects) /\ 2 \in 1 .. Len(objects) /\ Len(objects) \in Nat /\ Len(objects) >= 2
        BY SMTT(40), <1>1 DEF Types
      <3>4. objects'[1] = objects[1] /\ objects'[2] = objects[2]  BY Zenon, <3>2, <3>3
      <3>5. objects[1] = Root /\ objects[2] = Pages  BY <1>1 DEF Types
      <3>6. Len(objects') >= 2  BY <3>2, <3>3
      <3> QED  BY <3>2, <3>4, <3>5, <3>6
    <2> QED  BY <2>1, <2>2
  <1>3. Types'
    <2>1. visit' \in 0 .. Len(objects')
      <3>1. Len(objects') \in Nat  BY <1>2
      <3> QED  BY <1>1, <3>1 DEF Collecting
    <2> QED  BY Zenon, <1>1, <1>2, <2>1 DEF Types
  <1>4. Reached'  BY <1>1, <1>2, ReachedKept
  <1>5. RecursionBounded'  BY DEF Distinct, RecursionBounded
  <1>6. Collecting'  BY <1>1 DEF Collecting, Has, Ahead
  <1> QED  BY <1>3, <1>4, <1>5, <1>6 DEF CInv

\* addObjects: a reference that is new is collected, and then what it refers to.
LEMMA CollectKeeps ==
    ASSUME Separate, CInv, Collect
    PROVE  CInv'
  <1>1. Types /\ Reached /\ Distinct(stack) /\ Collecting /\ pc \in {"add", "write"} /\ stack # <<>>
    BY Zenon DEF CInv, Collect, RecursionBounded, Distinct
  <1>2. UNCHANGED <<doc, refs, parent, pagesMap, outline, pc, copied, skipMap, visit, output>>
    BY DEF Collect
  <1>3. PICK f : f = Head(stack)  OBVIOUS
  <1>4. PICK a : a = [f EXCEPT !.i = @ + 1]  BY Zenon
  <1>5. PICK R : R = Range(Tail(stack))  OBVIOUS
  <1>6. /\ f \in Calls /\ a \in Calls /\ a.n = f.n /\ a.i = f.i + 1
        /\ Range(stack) = {f} \cup R
        /\ Tail(stack) \in Seq(Calls) /\ Distinct(Tail(stack))
        /\ <<a>> \o Tail(stack) \in Seq(Calls) /\ Distinct(<<a>> \o Tail(stack))
        /\ Range(<<a>> \o Tail(stack)) = {a} \cup R
    <2>1. stack \in Seq(Calls)  BY <1>1 DEF Types
    <2> QED  BY SMTT(40), <1>1, <1>3, <1>4, <1>5, <2>1, StackNext
  <1>7. f.n \in Range(objects) /\ f.n \in Objects /\ f.i \in Nat \ {0}
    BY <1>1, <1>6 DEF Collecting, Has, Calls
  <1>8. refs[f.n] \in Seq(Objects) /\ Len(refs[f.n]) \in Nat /\ DOMAIN refs[f.n] = 1 .. Len(refs[f.n])
    BY <1>1, <1>7 DEF Types
  <1>9. SUFFICES /\ stack' \in Seq(Calls) /\ Distinct(stack')
                 /\ objects' = objects \/ \E m \in Objects : objects' = Append(objects, m)
                 /\ \A x \in Range(objects') : Has(x) \/ x \in Range(refs[f.n])
                 /\ \A g \in Range(stack') : g.n \in Range(objects')
                 /\ \A n \in Range(objects') : \A j \in DOMAIN refs[n] :
                      refs[n][j] \in Range(objects') \/ \E g \in Range(stack') : g.n = n /\ g.i <= j
                 /\ \A n \in Range(objects') :
                      parent[n] = Null \/ parent[n] \in Range(objects') \/ <<parent[n], n>> \in pendingObjects'
    <2>1. /\ refs' \in [Objects -> Seq(Objects)] /\ refs' = refs /\ outline' \in CatalogEntries \cup {Null}
          /\ parent' \in [Objects -> Objects \cup {Null}] /\ parent' = parent
      BY Zenon, <1>1, <1>2 DEF Types
    <2>2. pc' \in {"add", "write"}  BY <1>1, <1>2
    <2> QED  BY <1>1, <1>2, <1>7, <1>9, <2>1, <2>2, CollectingKept
  <1>10. CASE f.i > Len(refs[f.n])
    <2>1. stack' = Tail(stack) /\ UNCHANGED <<objects, pendingObjects>>  BY <1>3, <1>10 DEF Collect
    <2>2. \A j \in DOMAIN refs[f.n] : ~(f.i <= j)  BY <1>7, <1>8, <1>10
    <2>3. \A n \in Range(objects) : \A j \in DOMAIN refs[n] :
            refs[n][j] \in Range(objects) \/ \E g \in R : g.n = n /\ g.i <= j
      BY <1>1, <1>6, <2>2 DEF Collecting, Has, Ahead
    <2> QED  BY <1>1, <1>5, <1>6, <2>1, <2>3 DEF Types, Collecting, Has
  <1>11. CASE ~(f.i > Len(refs[f.n]))
    <2>1. PICK m : m = refs[f.n][f.i]  OBVIOUS
    <2>2. f.i \in DOMAIN refs[f.n] /\ m \in Objects /\ m \in Range(refs[f.n])
      <3>1. f.i \in DOMAIN refs[f.n]  BY <1>7, <1>8, <1>11
      <3> QED  BY <1>8, <2>1, <3>1 DEF Range
    <2>3. \A j \in DOMAIN refs[f.n] : f.i <= j => j = f.i \/ a.i <= j  BY <1>6, <1>7, <1>8
    <2>4. CASE m \in Range(objects)
      <3>1. stack' = <<a>> \o Tail(stack) /\ UNCHANGED <<objects, pendingObjects>>
        BY <1>3, <1>4, <1>11, <2>1, <2>4 DEF Collect, hasObject, Advance
      <3>2. Range(stack') = {a} \cup R  BY <3>1, <1>6
      <3>3. \A n \in Range(objects) : \A j \in DOMAIN refs[n] :
              refs[n][j] \in Range(objects) \/ \E g \in Range(stack') : g.n = n /\ g.i <= j
        BY <1>1, <1>6, <2>1, <2>3, <2>4, <3>2 DEF Collecting, Has, Ahead
      <3>4. stack' \in Seq(Calls) /\ Distinct(stack')  BY <1>6, <3>1
      <3>5. \A g \in Range(stack') : g.n \in Range(objects')  BY <1>1, <1>6, <1>7, <3>1, <3>2 DEF Collecting, Has
      <3>6. \A n \in Range(objects) :
              parent[n] = Null \/ parent[n] \in Range(objects) \/ <<parent[n], n>> \in pendingObjects
        BY <1>1 DEF Collecting, Has
      <3>7. objects \in Seq(Objects) /\ objects[1] = Root /\ objects[2] = Pages /\ Len(objects) \in Nat
        BY <1>1 DEF Types
      <3> QED  BY <3>1, <3>3, <3>4, <3>5, <3>6, <3>7 DEF Has
    <2>5. CASE m \notin Range(objects)
      <3>1. PICK c : c = Call(m, FALSE)  BY Zenon
      <3>2. /\ stack' = <<c, a>> \o Tail(stack) /\ objects' = Append(objects, m)
            /\ pendingObjects' = pendingObjects \cup Pending(parent[m], m)
        BY Zenon, <1>3, <1>4, <1>11, <2>1, <2>5, <3>1 DEF Collect, hasObject, Advance
      <3>3. /\ stack' \in Seq(Calls) /\ Range(stack') = {c, a} \cup R
            /\ c.n = m /\ c.i = 1 /\ Distinct(stack')
        <4>1. c \in Calls /\ c.n = m /\ c.i = 1  BY <2>2, <3>1 DEF Call, Calls
        <4>2. \A g \in {a} \cup R : g.n # c.n  BY <1>1, <1>6, <2>5, <4>1 DEF Collecting, Has
        <4> QED  BY Zenon, <1>5, <1>6, <3>2, <4>1, <4>2, StackCall
      <3>4. /\ objects' \in Seq(Objects) /\ Len(objects') = Len(objects) + 1
            /\ Range(objects') = Range(objects) \cup {m}
            /\ \A v \in 1 .. Len(objects) : objects'[v] = objects[v]
        BY <1>1, <2>2, <3>2, RangeAppend DEF Types
      <3>6. \A n \in Range(objects') : \A j \in DOMAIN refs[n] :
              refs[n][j] \in Range(objects') \/ \E g \in Range(stack') : g.n = n /\ g.i <= j
        <4>1. \A j \in DOMAIN refs[m] : c.i <= j  BY <1>1, <2>2, <3>3 DEF Types
        <4>2. \A j \in DOMAIN refs[m] : \E g \in Range(stack') : g.n = m /\ g.i <= j  BY <3>3, <4>1
        <4>3. \A n \in Range(objects) : \A j \in DOMAIN refs[n] :
                refs[n][j] \in Range(objects') \/ \E g \in Range(stack') : g.n = n /\ g.i <= j
          BY <1>1, <1>6, <2>1, <2>3, <3>3, <3>4 DEF Collecting, Has, Ahead
        <4> QED  BY <3>4, <4>2, <4>3
      <3>7. \A n \in Range(objects') :
              parent[n] = Null \/ parent[n] \in Range(objects') \/ <<parent[n], n>> \in pendingObjects'
        <4>1. parent[m] = Null \/ parent[m] \in Range(objects) \/ <<parent[m], m>> \in pendingObjects'
          BY <3>2 DEF Pending, hasObject
        <4> QED  BY Zenon, <1>1, <3>2, <3>4, <4>1 DEF Collecting, Has
      <3>8. \A g \in Range(stack') : g.n \in Range(objects')  BY <1>1, <1>6, <1>7, <3>3, <3>4 DEF Collecting, Has
      <3>9. \A x \in Range(objects') : Has(x) \/ x \in Range(refs[f.n])  BY <2>2, <3>4 DEF Has
      <3> QED  BY Zenon, <2>2, <3>2, <3>3, <3>6, <3>7, <3>8, <3>9
    <2> QED  BY <2>4, <2>5
  <1> QED  BY Zenon, <1>10, <1>11

\* While no call runs, all that the collected objects refer to has been collected.
LEMMA OpenClosed ==
    ASSUME CInv, pc \in {"open", "add", "write"}, stack = <<>>
    PROVE  /\ Range(stack) = {}
           /\ \A n \in Range(objects) : \A j \in DOMAIN refs[n] : Has(refs[n][j])
  <1>1. Range(stack) = {}  BY DEF Range
  <1> QED  BY <1>1 DEF CInv, Collecting, Ahead

\* One call for an object is a stack.
LEMMA SoleCall ==
    ASSUME NEW m \in Objects
    PROVE  /\ <<Call(m, FALSE)>> \in Seq(Calls) /\ Distinct(<<Call(m, FALSE)>>)
           /\ Range(<<Call(m, FALSE)>>) = {Call(m, FALSE)}
           /\ Call(m, FALSE).n = m /\ Call(m, FALSE).i = 1
  <1>1. PICK c : c = Call(m, FALSE)  BY Zenon
  <1>2. c \in Calls /\ c.n = m /\ c.i = 1  BY <1>1 DEF Call, Calls
  <1>3. <<c>> \in Seq(Calls) /\ DOMAIN <<c>> = {1} /\ <<c>>[1] = c  BY <1>2
  <1>4. Distinct(<<c>>) /\ Range(<<c>>) = {c}  BY <1>3 DEF Distinct, Range
  <1> QED  BY Zenon, <1>1, <1>2, <1>3, <1>4

\* A catalog entry is set and, if it is new, its collection begun.
LEMMA EntryKeeps ==
    ASSUME Separate, CInv, pc = "open", pc' \in {"open", "add", "write"}, NEW m \in CatalogEntries,
           UNCHANGED <<doc, parent, outline, copied, skipMap, visit, output>>,
           refs' = [refs EXCEPT ![Root] = Append(@, m)],
           IF hasObject(m) THEN UNCHANGED <<objects, pendingObjects, stack>>
           ELSE /\ objects' = Append(objects, m) /\ pc' # "open"
                /\ pendingObjects' = pendingObjects \cup Pending(parent[m], m)
                /\ stack' = <<Call(m, FALSE)>>
    PROVE  CInv'
  <1>1. Types /\ Reached /\ Distinct(stack) /\ Collecting /\ stack = <<>>
    BY DEF CInv, Collecting, RecursionBounded, Distinct
  <1>2. m \in Objects /\ Root \in Objects  BY DEF Separate, Objects
  <1>3. Root \in Range(objects)
    <2>1. 1 \in DOMAIN objects  BY <1>1 DEF Types
    <2> QED  BY <1>1, <2>1 DEF Types, Range
  <1>4. /\ refs[Root] \in Seq(Objects) /\ refs'[Root] \in Seq(Objects)
        /\ Len(refs'[Root]) = Len(refs[Root]) + 1
        /\ Range(refs'[Root]) = Range(refs[Root]) \cup {m}
        /\ \A j \in 1 .. Len(refs[Root]) : refs'[Root][j] = refs[Root][j]
    <2>1. refs[Root] \in Seq(Objects) /\ refs'[Root] = Append(refs[Root], m)  BY <1>1, <1>2 DEF Types
    <2> QED  BY <1>2, <2>1, RangeAppend
  <1>5. refs' \in [Objects -> Seq(Objects)] /\ \A n \in Objects \ {Root} : refs'[n] = refs[n]
    BY <1>1, <1>2, <1>4 DEF Types
  <1>6. \A j \in DOMAIN refs'[Root] : j \in DOMAIN refs[Root] \/ refs'[Root][j] = m
    <2>1. refs'[Root] = Append(refs[Root], m)  BY <1>1, <1>2 DEF Types
    <2> QED  BY <1>4, <2>1
  <1>7. /\ \A n \in Objects : Range(refs[n]) \subseteq Range(refs'[n])
        /\ outline' \in CatalogEntries \cup {Null} /\ parent' \in [Objects -> Objects \cup {Null}]
    BY <1>1, <1>4, <1>5 DEF Types
  <1>8. Range(stack) = {} /\ \A n \in Range(objects) : \A j \in DOMAIN refs[n] : refs[n][j] \in Range(objects)
    BY <1>1, OpenClosed DEF Has
  <1>9. Range(objects) \subseteq Objects  BY <1>1, RangeOfSeq DEF Types
  <1>10. \A n \in Range(objects) : \A j \in DOMAIN refs'[n] : refs'[n][j] \in Range(objects) \cup {m}
    <2>1. \A j \in DOMAIN refs'[Root] : refs'[Root][j] \in Range(objects) \cup {m}
      BY <1>3, <1>4, <1>6, <1>8
    <2> QED  BY <1>5, <1>8, <1>9, <2>1
  <1>11. CASE hasObject(m)
    <2>1. m \in Range(objects) /\ UNCHANGED <<objects, pendingObjects, stack>>  BY <1>11 DEF hasObject
    <2>2. \A n \in Range(objects) :
            parent[n] = Null \/ parent[n] \in Range(objects) \/ <<parent[n], n>> \in pendingObjects
      BY <1>1 DEF Collecting, Has
    <2>3. stack \in Seq(Calls)  BY <1>1 DEF Types
    <2> QED  BY <1>1, <1>5, <1>7, <1>8, <1>10, <2>1, <2>2, <2>3, CollectingKept DEF Has
  <1>12. CASE ~hasObject(m)
    <2>1. /\ objects' = Append(objects, m) /\ pc' # "open"
          /\ pendingObjects' = pendingObjects \cup Pending(parent[m], m)
          /\ stack' = <<Call(m, FALSE)>>
      BY Zenon, <1>12
    <2>2. Range(objects') = Range(objects) \cup {m}  BY <1>1, <1>2, <2>1, RangeAppend DEF Types
    <2>3. PICK c : c = Call(m, FALSE)  BY Zenon
    <2>4. stack' \in Seq(Calls) /\ Distinct(stack') /\ Range(stack') = {c} /\ c.n = m /\ c.i = 1
      BY Zenon, <1>2, <2>1, <2>3, SoleCall
    <2>5. \A n \in Range(objects') : \A j \in DOMAIN refs'[n] :
            refs'[n][j] \in Range(objects') \/ \E g \in Range(stack') : g.n = n /\ g.i <= j
      <3>1. refs'[m] \in Seq(Objects)  BY <1>2, <1>5
      <3>2. \A j \in DOMAIN refs'[m] : c.i <= j  BY <2>4, <3>1
      <3> QED  BY <1>10, <2>2, <2>4, <3>2
    <2>6. \A n \in Range(objects') :
            parent[n] = Null \/ parent[n] \in Range(objects') \/ <<parent[n], n>> \in pendingObjects'
      <3>1. parent[m] = Null \/ parent[m] \in Range(objects) \/ <<parent[m], m>> \in pendingObjects'
        BY <2>1 DEF Pending, hasObject
      <3> QED  BY Zenon, <1>1, <2>1, <2>2, <3>1 DEF Collecting, Has
    <2>7. \A x \in Range(objects') : Has(x) \/ \E h \in Range(objects) : x \in Range(refs'[h])
      BY <1>3, <1>4, <2>2 DEF Has
    <2>8. \A g \in Range(stack') : g.n \in Range(objects')  BY <2>2, <2>4
    <2> QED  BY Zenon, <1>1, <1>2, <1>5, <1>7, <2>1, <2>4, <2>5, <2>6, <2>7, <2>8, CollectingKept
  <1> QED  BY <1>11, <1>12

\* AddPage: the page refers to what it inherits, too, and is collected anew.
LEMMA AddPageKeeps ==
    ASSUME Separate, CInv, AddPage
    PROVE  CInv'
  <1>1. Types /\ Reached /\ Collecting /\ stack = <<>> /\ pc = "open"
    BY DEF CInv, Collecting, AddPage
  <1>2. UNCHANGED <<doc, pendingObjects, outline, copied, skipMap, visit, output>> /\ pc' = "add"
    BY SMTT(40) DEF AddPage
  <1>3. PICK p \in doc.page :
          /\ refs' = [refs EXCEPT ![p] = IF p \in doc.bare /\ parent[p] = OldPages
                                         THEN @ \o doc.inherited ELSE @,
                                  ![Pages] = Append(@, p)]
          /\ parent' = [parent EXCEPT ![p] = Pages]
          /\ objects' = IF hasObject(p) THEN objects ELSE Append(objects, p)
          /\ stack' = <<Call(p, FALSE)>>
    BY Zenon DEF AddPage
  <1>4. doc \in Document  BY <1>1 DEF Types, Separate
  <1>5. p \in Nodes /\ p \in Objects /\ Pages \in Objects /\ p # Pages /\ doc.inherited \in Seq(Objects)
    <2>1. p \in Nodes /\ doc.inherited \in Seq(Nodes)  BY <1>4 DEF Document
    <2>2. Seq(Nodes) \subseteq Seq(Objects)  BY Zenon, SeqMonotonic DEF Objects
    <2> QED  BY <2>1, <2>2 DEF Separate, Objects
  <1>6. Pages \in Range(objects) /\ Range(objects) \subseteq Objects
    <2>1. 2 \in DOMAIN objects  BY <1>1 DEF Types
    <2> QED  BY <1>1, <2>1, RangeOfSeq DEF Types, Range
  <1>7. refs[p] \in Seq(Objects) /\ refs[Pages] \in Seq(Objects) /\ DOMAIN refs = Objects  BY <1>1, <1>5 DEF Types
  <1>8. refs'[p] \in Seq(Objects) /\ Range(refs[p]) \subseteq Range(refs'[p])
    <2>1. refs'[p] = refs[p] \o doc.inherited \/ refs'[p] = refs[p]  BY <1>3, <1>5, <1>7
    <2>2. /\ refs[p] \o doc.inherited \in Seq(Objects)
          /\ Range(refs[p] \o doc.inherited) = Range(refs[p]) \cup Range(doc.inherited)
      BY <1>5, <1>7, ConcatProperties, RangeConcatenation
    <2> QED  BY Zenon, <1>7, <2>1, <2>2
  <1>9. /\ refs'[Pages] = Append(refs[Pages], p)
        /\ \A n \in Objects \ {p, Pages} : refs'[n] = refs[n]
        /\ DOMAIN refs' = Objects
    BY <1>3, <1>5, <1>7
  <1>10. /\ refs'[Pages] \in Seq(Objects) /\ Len(refs'[Pages]) = Len(refs[Pages]) + 1
         /\ Range(refs'[Pages]) = Range(refs[Pages]) \cup {p}
         /\ \A j \in 1 .. Len(refs[Pages]) : refs'[Pages][j] = refs[Pages][j]
    BY <1>5, <1>7, <1>9, RangeAppend
  <1>11. refs' \in [Objects -> Seq(Objects)] /\ \A n \in Objects : Range(refs[n]) \subseteq Range(refs'[n])
    <2>1. \A n \in Objects : refs'[n] \in Seq(Objects)  BY Zenon, <1>1, <1>8, <1>9, <1>10 DEF Types
    <2>2. refs' = [n \in Objects |-> refs'[n]]  BY Zenon, <1>3, <1>7
    <2> QED  BY Zenon, <1>8, <1>9, <1>10, <2>1, <2>2
  <1>12. Range(objects') = Range(objects) \cup {p} /\ (objects' = objects \/ objects' = Append(objects, p))
    <2>1. CASE hasObject(p)  BY <1>3, <2>1 DEF hasObject
    <2>2. CASE ~hasObject(p)  BY <1>1, <1>3, <1>5, <2>2, RangeAppend DEF Types
    <2> QED  BY <2>1, <2>2
  <1>13. PICK c : c = Call(p, FALSE)  BY Zenon
  <1>14. stack' \in Seq(Calls) /\ Distinct(stack') /\ Range(stack') = {c} /\ c.n = p /\ c.i = 1
    BY Zenon, <1>3, <1>5, <1>13, SoleCall
  <1>15. \A n \in Range(objects') : \A j \in DOMAIN refs'[n] :
           refs'[n][j] \in Range(objects') \/ \E g \in Range(stack') : g.n = n /\ g.i <= j
    <2>1. \A n \in Range(objects) : \A j \in DOMAIN refs[n] : refs[n][j] \in Range(objects)
      BY <1>1, OpenClosed DEF Has
    <2>2. \A j \in DOMAIN refs'[p] : c.i <= j  BY <1>8, <1>14
    <2>3. \A j \in DOMAIN refs'[Pages] : refs'[Pages][j] \in Range(objects')
      <3>1. \A j \in DOMAIN refs'[Pages] : j \in 1 .. Len(refs[Pages]) \/ refs'[Pages][j] = p
        BY <1>5, <1>7, <1>9
      <3>2. DOMAIN refs[Pages] = 1 .. Len(refs[Pages])  BY <1>7
      <3> QED  BY <1>6, <1>10, <1>12, <2>1, <3>1, <3>2
    <2>4. \A n \in Range(objects) \ {p, Pages} : \A j \in DOMAIN refs'[n] : refs'[n][j] \in Range(objects')
      BY <1>6, <1>9, <1>12, <2>1
    <2> QED  BY <1>12, <1>14, <2>2, <2>3, <2>4
  <1>16. parent' \in [Objects -> Objects \cup {Null}] /\ parent'[p] = Pages /\ \A n \in Objects \ {p} : parent'[n] = parent[n]
    BY <1>1, <1>3, <1>5 DEF Types
  <1>17. \A n \in Range(objects') :
           \/ parent'[n] = Null \/ parent'[n] \in Range(objects')
           \/ <<parent'[n], n>> \in pendingObjects'
    BY <1>1, <1>2, <1>6, <1>12, <1>16 DEF Collecting, Has
  <1>18. \A x \in Range(objects') : Has(x) \/ \E m \in Range(objects) : x \in Range(refs'[m])
    BY <1>6, <1>10, <1>12 DEF Has
  <1>19. \A g \in Range(stack') : g.n \in Range(objects')  BY <1>12, <1>14
  <1>20. outline' \in CatalogEntries \cup {Null}  BY <1>1, <1>2 DEF Types
  <1>21. objects' = objects \/ \E m \in Objects : objects' = Append(objects, m)  BY <1>5, <1>12
  <1> QED
    BY Zenon, <1>1, <1>2, <1>11, <1>14, <1>15, <1>16, <1>17, <1>18, <1>19, <1>20, <1>21, CollectingKept

\* The setters of catalog entries.
LEMMA SetCatalogEntryKeeps ==
    ASSUME Separate, CInv, SetCatalogEntry
    PROVE  CInv'
  <1>1. PICK n \in CatalogEntries :
          /\ refs' = [refs EXCEPT ![Root] = Append(@, n)]
          /\ IF hasObject(n) THEN UNCHANGED <<objects, pendingObjects, stack, pc>>
             ELSE /\ objects' = Append(objects, n)
                  /\ pendingObjects' = pendingObjects \cup Pending(parent[n], n)
                  /\ stack' = <<Call(n, FALSE)>> /\ pc' = "add"
    BY Zenon DEF SetCatalogEntry
  <1>2. pc = "open" /\ UNCHANGED <<doc, parent, outline, copied, skipMap, visit, output>>
    BY DEF SetCatalogEntry
  <1> QED  BY Zenon, <1>1, <1>2, EntryKeeps

\* Write sets the outlines or the form.
LEMMA WriteKeeps ==
    ASSUME Separate, CInv, Write
    PROVE  CInv'
  <1>1. pc = "open" /\ pc' = "write" /\ UNCHANGED <<doc, parent, pagesMap, outline, copied, skipMap, visit, output>>
    BY DEF Write
  <1>2. Types /\ Reached /\ RecursionBounded /\ Collecting  BY <1>1 DEF CInv
  <1>3. CASE outline = Null \/ outline \in Range(refs[Root])
    <2>1. UNCHANGED <<refs, objects, pendingObjects, stack>>  BY Zenon, <1>3 DEF Write
    <2>2. Types'  BY <1>1, <1>2, <2>1 DEF Types
    <2>3. Reached' /\ RecursionBounded'  BY <1>2, <2>1 DEF Reached, RecursionBounded
    <2>4. Collecting'  BY <1>1, <1>2, <2>1 DEF Collecting, Has, Ahead
    <2> QED  BY <1>1, <2>2, <2>3, <2>4 DEF CInv
  <1>4. CASE ~(outline = Null \/ outline \in Range(refs[Root]))
    <2>1. outline \in CatalogEntries  BY <1>2, <1>4 DEF Types
    <2>2. PICK n \in CatalogEntries : n = outline  BY <2>1
    <2>3. /\ refs' = [refs EXCEPT ![Root] = Append(@, n)]
          /\ IF hasObject(n) THEN UNCHANGED <<objects, pendingObjects, stack>>
             ELSE /\ objects' = Append(objects, n)
                  /\ pendingObjects' = pendingObjects \cup Pending(parent[n], n)
                  /\ stack' = <<Call(n, FALSE)>>
      BY Zenon, <1>4, <2>2 DEF Write
    <2> QED  BY Zenon, <1>1, <2>3, EntryKeeps
  <1> QED  BY <1>3, <1>4

\* AddOutlineTree and SetForms, and the end of a collection.
LEMMA AddOutlineTreeKeeps ==
    ASSUME Separate, CInv, AddOutlineTree \/ Collected
    PROVE  CInv'
  <1>1. /\ UNCHANGED <<doc, refs, parent, objects, pagesMap, pendingObjects, stack, copied, skipMap, visit, output>>
        /\ pc \in {"open", "add"} /\ pc' = "open" /\ stack = <<>> /\ outline' \in CatalogEntries \cup {outline}
    BY DEF AddOutlineTree, Collected, CInv, Collecting
  <1>2. Types /\ Reached /\ RecursionBounded /\ Collecting  BY <1>1 DEF CInv
  <1>3. Types'  BY Zenon, <1>1, <1>2 DEF Types
  <1>4. Reached' /\ RecursionBounded'  BY <1>1, <1>2 DEF Reached, RecursionBounded
  <1>5. Collecting'  BY <1>1, <1>2 DEF Collecting, Has, Ahead
  <1> QED  BY <1>1, <1>3, <1>4, <1>5 DEF CInv

-----------------------------------------------------------------------------
BelowFacts ==
    \A n \in Objects : /\ Below(n) \in Seq(Objects)
                       /\ Range(Below(n)) = Range(refs[n]) \cup ({parent[n]} \ {Null})

\* The copy of an object asks for its Parent and for its references.
LEMMA BelowIs == Types => BelowFacts
  <1> SUFFICES ASSUME Types, NEW n \in Objects
               PROVE  /\ Below(n) \in Seq(Objects)
                      /\ Range(Below(n)) = Range(refs[n]) \cup ({parent[n]} \ {Null})
    BY DEF BelowFacts
  <1>1. refs[n] \in Seq(Objects) /\ parent[n] \in Objects \cup {Null}  BY DEF Types
  <1>2. CASE parent[n] = Null
    <2>1. Below(n) = refs[n]  BY <1>1, <1>2, ConcatEmptySeq DEF Below
    <2> QED  BY <1>1, <1>2, <2>1
  <1>3. CASE parent[n] # Null
    <2>1. Below(n) = <<parent[n]>> \o refs[n] /\ parent[n] \in Objects  BY <1>1, <1>3 DEF Below
    <2> QED  BY <1>1, <1>3, <2>1, Pushed
  <1> QED  BY <1>2, <1>3

\* Copying changes neither what objects refer to nor what that leads to.
LEMMA Frozen ==
    ASSUME UNCHANGED <<doc, refs, parent, pagesMap>>
    PROVE  /\ \A n : Below(n)' = Below(n)
           /\ UnusedPages' = UnusedPages /\ Live' = Live /\ BelowUnused' = BelowUnused
  <1>1. \A n : Below(n)' = Below(n)  BY DEF Below
  <1>2. UnusedPages' = UnusedPages  BY DEF UnusedPages
  <1>3. Live' = Live  BY <1>1, <1>2 DEF Live, Closure
  <1>4. BelowUnused' = BelowUnused  BY <1>1, <1>2 DEF BelowUnused, Closure
  <1> QED  BY <1>1, <1>2, <1>3, <1>4

\* What the pages left out and the catalog lead to is closed.
LEMMA Reaching ==
    ASSUME Separate, Types, NEW n \in Objects, NEW m \in Range(Below(n))
    PROVE  /\ Root \in Live /\ m \in Objects
           /\ n \in Live /\ ~Unused(n) => m \in Live
           /\ n \in BelowUnused \/ Unused(n) => m \in BelowUnused
  <1>1. m \in Objects  BY BelowIs, RangeOfSeq DEF BelowFacts
  <1>2. Root \in Objects  BY Zenon DEF Objects
  <1>3. UnusedPages \subseteq Objects /\ (Unused(n) <=> n \in UnusedPages)
    BY DEF Types, Separate, Document, UnusedPages, Unused, Objects
  <1>4. Root \in Live /\ (n \in Live /\ ~Unused(n) => m \in Live)
    <2>1. {Root} \in SUBSET Objects  BY <1>2
    <2> QED  BY <1>1, <1>3, <2>1, ClosureClosed DEF Live
  <1>5. n \in BelowUnused \/ Unused(n) => m \in BelowUnused
    <2> DEFINE S == UNION {Range(Below(x)) : x \in UnusedPages}
    <2>1. S \in SUBSET Objects
      <3>1. \A x \in UnusedPages : Range(Below(x)) \subseteq Objects  BY <1>3, BelowIs, RangeOfSeq DEF BelowFacts
      <3> QED  BY <3>1
    <2>2. Unused(n) => m \in S  BY <1>3
    <2>3. BelowUnused = Closure(S, {})  BY DEF BelowUnused
    <2> HIDE DEF S
    <2> QED  BY <1>1, <2>1, <2>2, <2>3, ClosureClosed
  <1> QED  BY <1>1, <1>4, <1>5

\* Once the missing parents are dropped, the collected objects are closed.
LEMMA CheckPendingKeeps ==
    ASSUME Separate, CInv, CheckPending
    PROVE  CInv'
  <1>1. /\ pc = "write" /\ stack = <<>> /\ pc' = "copy"
        /\ UNCHANGED <<doc, refs, objects, pagesMap, pendingObjects, outline, stack, copied, skipMap, visit, output>>
        /\ parent' = [n \in Objects |-> IF Orphaned(n) THEN Null ELSE parent[n]]
    BY DEF CheckPending
  <1>2. Types /\ Reached /\ RecursionBounded /\ Collecting  BY <1>1 DEF CInv
  <1>3. \A n \in Objects : parent'[n] = IF Orphaned(n) THEN Null ELSE parent[n]  BY <1>1
  <1>4. Types'
    <2>1. parent' \in [Objects -> Objects \cup {Null}]  BY <1>1, <1>2 DEF Types
    <2> QED  BY <1>1, <1>2, <2>1 DEF Types
  <1>5. Reached' /\ RecursionBounded'  BY <1>1, <1>2 DEF Reached, RecursionBounded
  <1>6. Range(stack) = {} /\ \A n \in Range(objects) : \A j \in DOMAIN refs[n] : Has(refs[n][j])
    BY <1>1, OpenClosed
  <1>7. Range(objects) \subseteq Objects  BY <1>2, RangeOfSeq DEF Types
  <1>8. \A n \in Range(objects) : Range(refs[n]) \subseteq Range(objects)  BY <1>6 DEF Has, Range
  <1>9. \A n \in Range(objects) : parent'[n] = Null \/ parent'[n] \in Range(objects)
    BY Zenon, <1>2, <1>3, <1>7 DEF Orphaned, hasObject, Collecting, Has
  <1>10. (Types => BelowFacts)'  BY BelowIs, PTL
  <1>11. \A n \in Range(objects') : Range(Below(n)') \subseteq Range(objects')
    <2>1. \A n \in Objects : Range(Below(n)') = Range(refs'[n]) \cup ({parent'[n]} \ {Null})
      BY <1>4, <1>10 DEF BelowFacts
    <2> QED  BY <1>1, <1>7, <1>8, <1>9, <2>1
  <1>12. Copying'
    <2>1. stack' = <<>> /\ Range(stack') = {} /\ copied' = {} /\ skipMap' = {} /\ visit' = 0 /\ output' = <<>> /\ Range(output') = {}
      BY <1>1, <1>2, <1>6 DEF Collecting, Range
    <2>2. \A v \in 1 .. visit' : FALSE  BY <2>1
    <2> QED  BY <1>1, <1>11, <2>1, <2>2 DEF Copying
  <1> QED  BY <1>1, <1>4, <1>5, <1>12 DEF CInv

\* copyObjects asks for the next object of the list.  When the catalog has been copied,
\* so has all that it leads to, which are all objects of the list.
LEMMA CopyNextKeeps ==
    ASSUME Separate, CInv, CopyNext
    PROVE  CInv'
  <1>1. /\ pc = "copy" /\ stack = <<>> /\ visit < Len(objects) /\ visit' = visit + 1
        /\ UNCHANGED <<doc, refs, parent, objects, pagesMap, pendingObjects, outline, pc, skipMap>>
    BY DEF CopyNext
  <1>2. Types /\ Reached /\ RecursionBounded /\ Copying  BY <1>1 DEF CInv
  <1>3. PICK n : n = objects[visit + 1]  OBVIOUS
  <1>4. visit + 1 \in 1 .. Len(objects) /\ visit' \in 1 .. Len(objects) /\ visit \in Nat /\ DOMAIN objects = 1 .. Len(objects)
    BY <1>1, <1>2 DEF Types
  <1>5. n \in Range(objects) /\ n \in Objects /\ Range(objects) \subseteq Objects
    <2>1. Range(objects) \subseteq Objects  BY <1>2, RangeOfSeq DEF Types
    <2>2. n \in Range(objects)  BY <1>3, <1>4 DEF Range
    <2> QED  BY <2>1, <2>2
  <1>6. Range(stack) = {}  BY <1>1 DEF Range
  <1>7. /\ \A x : Below(x)' = Below(x)
        /\ UnusedPages' = UnusedPages /\ Live' = Live /\ BelowUnused' = BelowUnused
    BY <1>1, Frozen
  <1>8. BelowFacts  BY <1>2, BelowIs
  <1>9. Reached'  BY <1>1, <1>2 DEF Reached
  <1>10. CASE n \in copied
    <2>1. /\ output' = IF n \in skipMap THEN output ELSE Append(output, n)
          /\ UNCHANGED <<stack, copied>>
      BY <1>3, <1>10 DEF CopyNext
    <2>2. n \in Live \/ n \in skipMap  BY <1>2, <1>6, <1>10 DEF Copying
    <2>3. /\ output' \in Seq(Objects) /\ Range(output') \subseteq Range(objects) \cap Live
          /\ Range(output) \subseteq Range(output') /\ (n \in Range(output') \/ n \in skipMap)
      <3>1. CASE n \in skipMap  BY <1>2, <2>1, <3>1 DEF Types, Copying
      <3>2. CASE n \notin skipMap
        <4>1. output' \in Seq(Objects) /\ Range(output') = Range(output) \cup {n}
          BY <1>2, <1>5, <2>1, <3>2, RangeAppend DEF Types
        <4> QED  BY <1>2, <1>5, <2>2, <3>2, <4>1 DEF Copying
      <3> QED  BY <3>1, <3>2
    <2>4. Types'  BY <1>1, <1>2, <1>4, <2>1, <2>3 DEF Types
    <2>5. RecursionBounded'  BY <1>2, <2>1 DEF RecursionBounded
    <2>6. \A v \in 1 .. visit' : objects[v] \in Range(output') \/ objects[v] \in skipMap
      <3>1. \A v \in 1 .. visit' : v \in 1 .. visit \/ v = visit + 1  BY <1>1, <1>4
      <3> QED  BY <1>2, <1>3, <2>3, <3>1 DEF Copying
    <2>7. Root \in copied
      <3>1. visit > 0  BY <1>2, <1>4, <1>10 DEF Copying
      <3> QED  BY <1>2, <3>1 DEF Copying
    <2>8. Copying'
      <3>1. visit' # 0 /\ pc' # "done"  BY <1>1, <1>4
      <3> QED  BY <1>1, <1>2, <1>7, <2>1, <2>3, <2>6, <2>7, <3>1 DEF Copying, Ahead
    <2> QED  BY <1>1, <1>9, <2>4, <2>5, <2>8 DEF CInv
  <1>11. CASE n \notin copied
    <2>1. stack' = <<Call(n, FALSE)>> /\ copied' = copied \cup {n} /\ output' = Append(output, n)
      BY Zenon, <1>3, <1>11 DEF CopyNext
    <2>2. visit = 0
      <3> SUFFICES ASSUME visit # 0 PROVE FALSE  OBVIOUS
      <3>1. Root \in copied  BY <1>2, <1>4 DEF Copying
      <3>2. \A x \in copied : Range(Below(x)) \subseteq copied  BY <1>2, <1>6 DEF Copying, Ahead, Range
      <3>3. copied \in SUBSET Objects  BY <1>2 DEF Types
      <3>4. \A x \in copied : Range(refs[x]) \subseteq copied  BY <1>8, <3>2, <3>3 DEF BelowFacts
      <3>5. Range(objects) \subseteq copied  BY <1>2, <3>1, <3>3, <3>4 DEF Reached
      <3> QED  BY <1>5, <1>11, <3>5
    <2>3. n = Root /\ copied = {} /\ copied' = {Root}
      BY <1>2, <1>3, <2>1, <2>2 DEF Types, Copying
    <2>4. PICK c : c = Call(n, FALSE)  BY Zenon
    <2>5. stack' \in Seq(Calls) /\ Distinct(stack') /\ Range(stack') = {c} /\ c.n = n /\ c.i = 1 /\ c.skip = FALSE
      BY Zenon, <1>5, <2>1, <2>4, SoleCall DEF Call
    <2>6. output' \in Seq(Objects) /\ Range(output') = Range(output) \cup {n}
      BY <1>2, <1>5, <2>1, RangeAppend DEF Types
    <2>7. Root \in Live
      <3>1. {Root} \in SUBSET Objects  BY DEF Objects
      <3> QED  BY <3>1, ClosureClosed DEF Live
    <2>8. Types'
      <3>1. copied' \subseteq Objects /\ visit' \in 0 .. Len(objects')  BY <1>1, <1>4, <1>5, <2>3
      <3>2. stack' \in Seq(Calls) /\ output' \in Seq(Objects)  BY <2>5, <2>6
      <3> QED  BY <1>1, <1>2, <3>1, <3>2 DEF Types
    <2>9. RecursionBounded'  BY <2>5 DEF RecursionBounded, Distinct
    <2>10. \A v \in 1 .. visit' : objects[v] \in Range(output')
      <3>1. \A v \in 1 .. visit' : v = visit + 1  BY <1>1, <2>2
      <3> QED  BY <1>3, <2>6, <3>1
    <2>11. \A x \in copied' : \A j \in DOMAIN Below(x) : \E g \in Range(stack') : g.n = x /\ g.i <= j
      <3>1. Below(n) \in Seq(Objects)  BY <1>5, <1>8 DEF BelowFacts
      <3>2. \A j \in DOMAIN Below(n) : c.i <= j  BY <2>5, <3>1
      <3> QED  BY <2>3, <2>5, <3>2
    <2>12. Range(output') \subseteq Range(objects) \cap Live  BY Zenon, <1>2, <1>5, <2>3, <2>6, <2>7 DEF Copying
    <2>13. Copying'
      <3>1. visit' # 0 /\ pc' # "done"  BY <1>1, <1>4
      <3> QED  BY ZenonT(30), <1>1, <1>2, <1>7, <2>3, <2>5, <2>7, <2>10, <2>11, <2>12, <3>1 DEF Copying, Ahead
    <2> QED  BY <1>1, <1>9, <2>8, <2>9, <2>13 DEF CInv
  <1> QED  BY <1>10, <1>11

\* copyObject: the next reference is known or is copied first; at its end an object that
\* was asked for below a page left out is put into the skip map.
LEMMA CopyKeeps ==
    ASSUME Separate, CInv, Copy
    PROVE  CInv'
  <1>1. /\ pc = "copy" /\ stack # <<>>
        /\ UNCHANGED <<doc, refs, parent, objects, pagesMap, pendingObjects, outline, pc, visit, output>>
    BY DEF Copy
  <1>2. Types /\ Reached /\ Distinct(stack) /\ Copying  BY <1>1 DEF CInv, RecursionBounded, Distinct
  <1>3. PICK f : f = Head(stack)  OBVIOUS
  <1>4. PICK a : a = [f EXCEPT !.i = @ + 1]  BY Zenon
  <1>5. PICK R : R = Range(Tail(stack))  OBVIOUS
  <1>6. /\ f \in Calls /\ a \in Calls /\ a.n = f.n /\ a.i = f.i + 1 /\ a.skip = f.skip
        /\ Range(stack) = {f} \cup R
        /\ Tail(stack) \in Seq(Calls) /\ Distinct(Tail(stack))
        /\ <<a>> \o Tail(stack) \in Seq(Calls) /\ Distinct(<<a>> \o Tail(stack))
        /\ Range(<<a>> \o Tail(stack)) = {a} \cup R
    <2>1. stack \in Seq(Calls)  BY <1>2 DEF Types
    <2> QED  BY SMTT(40), <1>1, <1>2, <1>3, <1>4, <1>5, <2>1, StackNext
  <1>7. f.n \in copied /\ f.n \in Objects /\ f.i \in Nat \ {0} /\ f.skip \in BOOLEAN
    BY <1>2, <1>6 DEF Copying, Calls
  <1>8. /\ \A x : Below(x)' = Below(x)
        /\ UnusedPages' = UnusedPages /\ Live' = Live /\ BelowUnused' = BelowUnused
    BY <1>1, Frozen
  <1>9. /\ Below(f.n) \in Seq(Objects) /\ Len(Below(f.n)) \in Nat
        /\ DOMAIN Below(f.n) = 1 .. Len(Below(f.n))
    BY <1>2, <1>7, BelowIs DEF BelowFacts
  <1>10. Reached'  BY <1>1, <1>2 DEF Reached
  <1>11. visit > 0 /\ Root \in copied /\ pc' # "done"
    <2>1. visit \in Nat /\ visit # 0  BY SMTT(40), <1>1, <1>2 DEF Types, Copying
    <2> QED  BY <1>1, <1>2, <2>1 DEF Copying
  <1>12. SUFFICES /\ stack' \in Seq(Calls) /\ Distinct(stack')
                  /\ copied \subseteq copied' /\ copied' \subseteq Objects
                  /\ skipMap \subseteq skipMap' /\ skipMap' \subseteq BelowUnused \cap Objects
                  /\ \A g \in Range(stack') : g.n \in copied'
                  /\ \A x \in copied' : \A j \in DOMAIN Below(x) :
                       Below(x)[j] \in copied' \/ \E g \in Range(stack') : g.n = x /\ g.i <= j
                  /\ \A g \in Range(stack') : IF g.skip THEN g.n \in BelowUnused ELSE g.n \in Live
                  /\ \A x \in copied' :
                       x \in Live \/ x \in skipMap' \/ \E g \in Range(stack') : g.n = x /\ g.skip
    <2>1. Types'  BY ZenonT(30), <1>1, <1>2, <1>12 DEF Types
    <2>2. RecursionBounded'  BY ZenonT(30), <1>12 DEF RecursionBounded, Distinct
    <2>3. \A v \in 1 .. visit' : objects'[v] \in Range(output') \/ objects'[v] \in skipMap'
      BY SMTT(40), <1>1, <1>2, <1>12 DEF Copying
    <2>4. Copying'
      <3>0. visit' = visit  BY <1>1
      <3>5. visit' > 0 /\ visit' # 0
        <4>1. visit \in Nat  BY <1>2 DEF Types
        <4>2. visit > 0  BY <1>11
        <4> QED  BY <3>0, <4>1, <4>2
      <3>6. copied \subseteq copied' /\ Root \in copied  BY Zenon, <1>11, <1>12
      <3>1. Root \in copied' /\ visit' > 0 /\ visit' # 0  BY <3>5, <3>6
      <3>2. \A x \in Range(objects') : Range(Below(x)') \subseteq Range(objects')  BY <1>1, <1>2, <1>8 DEF Copying
      <3>3. Range(output') \subseteq Range(objects') \cap Live'  BY <1>1, <1>2, <1>8 DEF Copying
      <3> QED  BY ZenonT(30), <1>8, <1>11, <1>12, <2>3, <3>1, <3>2, <3>3 DEF Copying, Ahead
    <2> QED  BY ZenonT(30), <1>1, <1>10, <2>1, <2>2, <2>4 DEF CInv
  <1>13. CASE f.i > Len(Below(f.n))
    <2>1. stack' = Tail(stack) /\ skipMap' = (IF f.skip THEN skipMap \cup {f.n} ELSE skipMap) /\ copied' = copied
      BY <1>3, <1>13 DEF Copy
    <2>2. \A j \in DOMAIN Below(f.n) : ~(f.i <= j)  BY <1>7, <1>9, <1>13
    <2>3. \A x \in copied : \A j \in DOMAIN Below(x) : Below(x)[j] \in copied \/ \E g \in R : g.n = x /\ g.i <= j
      BY <1>2, <1>6, <2>2 DEF Copying, Ahead
    <2>4. Range(stack') = R  BY <1>5, <2>1
    <2>5. skipMap \subseteq skipMap' /\ skipMap' \subseteq BelowUnused \cap Objects
      BY Zenon, <1>2, <1>6, <1>7, <2>1 DEF Types, Copying
    <2>6. \A x \in copied : x \in Live \/ x \in skipMap' \/ \E g \in R : g.n = x /\ g.skip
      BY <1>2, <1>6, <2>1 DEF Copying
    <2>7. \A g \in R : g.n \in copied /\ IF g.skip THEN g.n \in BelowUnused ELSE g.n \in Live
      BY <1>2, <1>6 DEF Copying
    <2>8. stack' \in Seq(Calls) /\ Distinct(stack') /\ copied \subseteq Objects  BY <1>2, <1>6, <2>1 DEF Types
    <2> QED  BY ZenonT(30), <2>1, <2>3, <2>4, <2>5, <2>6, <2>7, <2>8
  <1>14. CASE ~(f.i > Len(Below(f.n)))
    <2>1. PICK m : m = Below(f.n)[f.i]  OBVIOUS
    <2>2. f.i \in DOMAIN Below(f.n) /\ m \in Range(Below(f.n)) /\ m \in Objects
      <3>1. f.i \in DOMAIN Below(f.n)  BY <1>7, <1>9, <1>14
      <3> QED  BY <1>9, <2>1, <3>1 DEF Range
    <2>3. \A j \in DOMAIN Below(f.n) : f.i <= j => j = f.i \/ a.i <= j  BY <1>6, <1>7, <1>9
    <2>4. copied' = copied \cup {m} /\ skipMap' = skipMap  BY <1>3, <1>14, <2>1 DEF Copy
    <2>5. skipMap' \subseteq BelowUnused \cap Objects /\ copied' \subseteq Objects
      BY Zenon, <1>2, <2>2, <2>4 DEF Types, Copying
    <2>6. CASE m \in copied
      <3>1. stack' = <<a>> \o Tail(stack) /\ copied' = copied
        BY Zenon, <1>3, <1>4, <1>14, <2>1, <2>4, <2>6 DEF Copy, Known, Advance
      <3>2. Range(stack') = {a} \cup R /\ stack' \in Seq(Calls) /\ Distinct(stack')  BY Zenon, <1>6, <3>1
      <3>3. \A x \in copied : \A j \in DOMAIN Below(x) :
              Below(x)[j] \in copied \/ \E g \in Range(stack') : g.n = x /\ g.i <= j
        BY <1>2, <1>6, <2>1, <2>3, <2>6, <3>2 DEF Copying, Ahead
      <3>4. \A g \in Range(stack') : g.n \in copied /\ IF g.skip THEN g.n \in BelowUnused ELSE g.n \in Live
        BY <1>2, <1>6, <3>2 DEF Copying
      <3>5. \A x \in copied : x \in Live \/ x \in skipMap \/ \E g \in Range(stack') : g.n = x /\ g.skip
        BY Zenon, <1>2, <1>6, <3>2 DEF Copying
      <3> QED  BY <2>4, <2>5, <3>1, <3>2, <3>3, <3>4, <3>5
    <2>7. CASE m \notin copied
      <3>1. PICK b \in BOOLEAN : b = (f.skip \/ Unused(f.n))  BY Zenon DEF Unused
      <3>2. PICK c : c = Call(m, b)  OBVIOUS
      <3>3. stack' = <<c, a>> \o Tail(stack)
        BY Zenon, <1>3, <1>4, <1>14, <2>1, <2>7, <3>1, <3>2 DEF Copy, Known, Advance
      <3>4. c \in Calls /\ c.n = m /\ c.i = 1 /\ c.skip = b  BY <2>2, <3>2 DEF Call, Calls
      <3>5. stack' \in Seq(Calls) /\ Distinct(stack') /\ Range(stack') = {c, a} \cup R
        <4>1. \A g \in {a} \cup R : g.n # c.n  BY <1>2, <1>6, <2>7, <3>4 DEF Copying
        <4> QED  BY Zenon, <1>5, <1>6, <3>3, <3>4, <4>1, StackCall
      <3>6. IF c.skip THEN m \in BelowUnused ELSE m \in Live
        <4>1. IF f.skip THEN f.n \in BelowUnused ELSE f.n \in Live  BY <1>2, <1>6 DEF Copying
        <4>2. /\ f.n \in Live /\ ~Unused(f.n) => m \in Live
              /\ f.n \in BelowUnused \/ Unused(f.n) => m \in BelowUnused
          BY <1>2, <1>7, <2>2, Reaching
        <4> QED  BY Zenon, <1>7, <3>1, <3>4, <4>1, <4>2
      <3>7. \A x \in copied' : \A j \in DOMAIN Below(x) :
              Below(x)[j] \in copied' \/ \E g \in Range(stack') : g.n = x /\ g.i <= j
        <4>1. Below(m) \in Seq(Objects)  BY <1>2, <2>2, BelowIs DEF BelowFacts
        <4>2. \A j \in DOMAIN Below(m) : c.i <= j  BY <3>4, <4>1
        <4>3. \A x \in copied : \A j \in DOMAIN Below(x) :
                Below(x)[j] \in copied' \/ \E g \in Range(stack') : g.n = x /\ g.i <= j
          BY <1>2, <1>6, <2>1, <2>3, <2>4, <3>5 DEF Copying, Ahead
        <4> QED  BY Zenon, <2>4, <3>4, <3>5, <4>2, <4>3
      <3>8. \A g \in Range(stack') : g.n \in copied' /\ IF g.skip THEN g.n \in BelowUnused ELSE g.n \in Live
        BY Zenon, <1>2, <1>6, <2>4, <3>4, <3>5, <3>6 DEF Copying
      <3>9. \A x \in copied' : x \in Live \/ x \in skipMap \/ \E g \in Range(stack') : g.n = x /\ g.skip
        BY <1>2, <1>6, <2>4, <3>4, <3>5, <3>6 DEF Copying
      <3> QED  BY <2>4, <2>5, <3>5, <3>7, <3>8, <3>9
    <2> QED  BY <2>6, <2>7
  <1> QED  BY <1>13, <1>14

\* The copies are all made.
LEMMA WrittenKeeps ==
    ASSUME Separate, CInv, Written
    PROVE  CInv'
  <1>1. /\ pc = "copy" /\ stack = <<>> /\ visit = Len(objects) /\ pc' = "done"
        /\ UNCHANGED <<doc, refs, parent, objects, pagesMap, pendingObjects, outline, stack, copied, skipMap, visit, output>>
    BY DEF Written
  <1>2. Types /\ Reached /\ RecursionBounded /\ Copying  BY <1>1 DEF CInv
  <1>3. Types'  BY <1>1, <1>2 DEF Types
  <1>4. Reached' /\ RecursionBounded'  BY <1>1, <1>2 DEF Reached, RecursionBounded
  <1>5. /\ \A x : Below(x)' = Below(x)
        /\ UnusedPages' = UnusedPages /\ Live' = Live /\ BelowUnused' = BelowUnused
    BY <1>1, Frozen
  <1>6. Copying'  BY <1>1, <1>2, <1>5 DEF Copying, Ahead
  <1> QED  BY <1>1, <1>3, <1>4, <1>6 DEF CInv

-----------------------------------------------------------------------------
\* CInv is inductive: the writer keeps it in every call of AddPage, of the setters and
\* of Write, and at every step of addObjects and copyObject.
LEMMA CInvAlways == ASSUME Separate PROVE CollectSpec => []CInv
  <1>1. CollectInit => CInv  BY InitCInv
  <1>2. CInv /\ [CollectNext]_collectVars => CInv'
    <2> SUFFICES ASSUME CInv, [CollectNext]_collectVars PROVE CInv'  OBVIOUS
    <2>1. CASE AddPage  BY <2>1, AddPageKeeps
    <2>2. CASE SetCatalogEntry  BY <2>2, SetCatalogEntryKeeps
    <2>3. CASE AddOutlineTree \/ Collected  BY <2>3, AddOutlineTreeKeeps
    <2>4. CASE Collect  BY <2>4, CollectKeeps
    <2>5. CASE Write  BY <2>5, WriteKeeps
    <2>6. CASE CheckPending  BY <2>6, CheckPendingKeeps
    <2>7. CASE CopyNext  BY <2>7, CopyNextKeeps
    <2>8. CASE Copy  BY <2>8, CopyKeeps
    <2>9. CASE Written  BY <2>9, WrittenKeeps
    <2>10. CASE UNCHANGED collectVars
      <3>1. Types' = Types /\ Reached' = Reached /\ RecursionBounded' = RecursionBounded
        BY <2>10 DEF collectVars, Types, Reached, RecursionBounded
      <3>2. /\ \A x : Below(x)' = Below(x)
            /\ UnusedPages' = UnusedPages /\ Live' = Live /\ BelowUnused' = BelowUnused
        BY SMTT(40), <2>10, Frozen DEF collectVars
      <3>3. Collecting => Collecting'  BY SMTT(40), <2>10 DEF collectVars, Collecting, Has, Ahead
      <3>4. Copying => Copying'  BY <2>10, <3>2 DEF collectVars, Copying, Ahead
      <3> QED  BY <2>10, <3>1, <3>3, <3>4 DEF collectVars, CInv
    <2> QED
      BY <2>1, <2>2, <2>3, <2>4, <2>5, <2>6, <2>7, <2>8, <2>9, <2>10 DEF CollectNext
  <1> QED  BY <1>1, <1>2, PTL DEF CollectSpec

\* Whatever the objects refer to, in cycles too, addObjects and copyObject never run
\* twice at a time for the same object: their recursion ends.
THEOREM RecursionBoundedAlways == ASSUME Separate PROVE CollectSpec => []RecursionBounded
  <1>1. CInv => RecursionBounded  BY SMTT(40) DEF CInv
  <1> QED  BY <1>1, CInvAlways, PTL

\* What Write has written refers only to what it has written, but for objects that a
\* page left out reaches too.
THEOREM ReferencesWrittenAlways == ASSUME Separate PROVE CollectSpec => []ReferencesWritten
  <1>1. CInv => ReferencesWritten
    <2> SUFFICES ASSUME CInv, pc = "done", NEW n \in Range(output), NEW m \in Range(Below(n))
                 PROVE  m \in Range(output) \cup BelowUnused
      BY SMTT(40) DEF ReferencesWritten
    <2>1. Types /\ Copying /\ visit = Len(objects)  BY DEF CInv, Copying
    <2>2. m \in Range(objects)  BY <2>1 DEF Copying
    <2>3. PICK v \in DOMAIN objects : m = objects[v]  BY <2>2 DEF Range
    <2>4. v \in 1 .. visit  BY <2>1, <2>3 DEF Types
    <2> QED  BY <2>1, <2>3, <2>4 DEF Copying
  <1> QED  BY <1>1, CInvAlways, PTL

\* Nothing is written that only pages left out lead to, in whatever order the objects
\* were collected and whatever links there are between pages.
THEOREM UnusedContentDroppedAlways == ASSUME Separate PROVE CollectSpec => []UnusedContentDropped
  <1>1. CInv => UnusedContentDropped  BY Zenon DEF CInv, Copying, Live, UnusedContentDropped
  <1> QED  BY <1>1, CInvAlways, PTL

\* All three at once: what AddPage and Write promise of any document whose pages are
\* separate objects, whichever of them are added, in whatever order.
THEOREM CollectedWholeAlways == ASSUME Separate PROVE CollectSpec => []CollectedWhole
  <1>1. RecursionBounded /\ ReferencesWritten /\ UnusedContentDropped => CollectedWhole
    BY DEF CollectedWhole
  <1> QED  BY <1>1, RecursionBoundedAlways, ReferencesWrittenAlways, UnusedContentDroppedAlways, PTL
=============================================================================

----------------------------- MODULE PageTree -----------------------------
(***************************************************************************)
(* How a PdfReader loads the structure of a document (model/reader.go):    *)
(* NewPdfReader and Decrypt call loadStructure, which walks the page tree  *)
(* with buildPageList, makes a PdfPage of every page (newPdfPageFromDict), *)
(* loads the outlines and the form, and may be called again by a further   *)
(* Decrypt on the same reader.  A dictionary is its Type, its Kids, its    *)
(* Parent and whether it has a MediaBox and Resources of its own; the walk *)
(* is a stack of the calls that are running.                               *)
(***************************************************************************)
EXTENDS Integers, Sequences, SequencesExt, FiniteSets, SequenceTheorems, WellFoundedInduction, TLAPS

CONSTANTS
    Nodes,      \* the indirect objects the page tree may be made of
    Root,       \* what Pages of the catalog refers to
    Null,       \* an absent entry
    Direct,     \* an element of Kids that is not an indirect object
    Documents,  \* the documents that may be opened
    MaxLoads    \* bound: calls of loadStructure on one reader

Document ==
    [type : [Nodes -> {"Page", "Pages", "none", "other"}],
     kids : [Nodes -> Seq(Nodes \cup {Direct}) \cup {Null}],
     parent : [Nodes -> Nodes \cup {Null}],
     box : SUBSET Nodes, resources : SUBSET Nodes,
     bad : SUBSET Nodes,            \* a page with an entry that newPdfPageFromDict refuses
     encrypted : BOOLEAN,
     outlines : BOOLEAN,            \* the Outlines entry, if any, can be loaded
     form : BOOLEAN]                \* the AcroForm has fields, in an indirect object

VARIABLES
    doc,        \* the file; never written
    phase,      \* what the reader is doing
    type,       \* the Type entries now
    parent,     \* the Parent entries now
    formDict,   \* the AcroForm object: "full" until a form has been made of it
    stack,      \* the running calls of buildPageList, innermost first
    traversed,  \* traversedPageNodes
    pageList,   \* r.pageList
    PageList,   \* r.PageList: the object of each page and the Parent the PdfPage has
    AcroForm,   \* r.AcroForm: Null, "full" or "empty"
    loads       \* calls of loadStructure so far

vars == <<doc, phase, type, parent, formDict, stack, traversed, pageList, PageList, AcroForm, loads>>

Call(node, par) == [node |-> node, parent |-> par, idx |-> 0]

Init ==
    /\ doc \in Documents
    /\ phase = "closed" /\ type = doc.type /\ parent = doc.parent
    /\ formDict = "full" /\ stack = <<>> /\ traversed = {}
    /\ pageList = <<>> /\ PageList = <<>> /\ AcroForm = Null /\ loads = 0

\* loadStructure up to the walk: only pageList is emptied.
StartLoad ==
    /\ phase' = "walk" /\ loads' = loads + 1
    /\ type' = IF type[Root] = "none" THEN [type EXCEPT ![Root] = "Pages"] ELSE type
    /\ pageList' = <<>> /\ traversed' = {}
    /\ stack' = <<Call(Root, Null)>>
    /\ UNCHANGED <<doc, parent, formDict, PageList, AcroForm>>

\* NewPdfReader: an encrypted document is not loaded yet.
NewPdfReader ==
    /\ phase = "closed"
    /\ \/ /\ doc.encrypted
          /\ phase' = "locked"
          /\ UNCHANGED <<doc, type, parent, formDict, stack, traversed, pageList, PageList, AcroForm, loads>>
       \/ ~doc.encrypted /\ StartLoad

\* Decrypt with a password that opens the document.  It may be called on a
\* reader that has been opened already, or after a load that failed.
Decrypt ==
    /\ doc.encrypted /\ phase \in {"locked", "ready", "failed"} /\ loads < MaxLoads
    /\ StartLoad

\* The dictionaries that a walk along the Parent entries passes, from n on; the
\* walks of getParentResources and GetMediaBox have no other end than an absent
\* Parent, so one that comes round never ends.
Chain(par, n) ==
    LET step[k \in 0 .. Cardinality(Nodes)] ==
            IF k = 0 THEN <<n>>
            ELSE LET s == step[k - 1] IN
                 IF Last(s) = Null THEN s ELSE Append(s, par[Last(s)])
    IN  step[Cardinality(Nodes)]

\* The first dictionary at or above n that is in S: Null when there is none.
FirstIn(par, n, S) ==
    LET c == Chain(par, n)
        hits == {i \in DOMAIN c : c[i] \in S}
    IN  IF hits = {} THEN Null ELSE c[CHOOSE i \in hits : \A j \in hits : i <= j]

EndsOn(par, n, S) == FirstIn(par, n, S) # Null \/ Last(Chain(par, n)) = Null

Fail == phase' = "failed" /\ stack' = <<>>

\* Variant: the object of a page is listed before the page is made.
Page_ListFirst(c) ==
    /\ pageList' = Append(pageList, c.node)
    /\ \/ /\ c.node \in doc.bad
          /\ Fail /\ UNCHANGED <<parent, PageList>>
       \/ /\ c.node \notin doc.bad
          /\ parent' = IF c.parent = Null THEN parent ELSE [parent EXCEPT ![c.node] = c.parent]
          /\ PageList' = Append(PageList, [node |-> c.node, Parent |-> parent[c.node]])
          /\ stack' = Tail(stack) /\ UNCHANGED phase
    /\ traversed' = traversed \cup {c.node}
    /\ UNCHANGED type

\* A node of Type Page: newPdfPageFromDict, then the Parent entry is set and the
\* page listed.
Page(c) ==
    LET from == parent[c.node]
        walks == c.node \notin doc.resources /\ from # Null
    IN  /\ \/ /\ c.node \in doc.bad
              /\ Fail /\ UNCHANGED <<parent, pageList, PageList>>
           \/ /\ c.node \notin doc.bad /\ walks /\ ~EndsOn(parent, from, doc.resources)
              /\ phase' = "hung" /\ UNCHANGED <<stack, parent, pageList, PageList>>
           \/ /\ c.node \notin doc.bad /\ (walks => EndsOn(parent, from, doc.resources))
              /\ parent' = IF c.parent = Null THEN parent ELSE [parent EXCEPT ![c.node] = c.parent]
              /\ pageList' = Append(pageList, c.node)
              /\ PageList' = Append(PageList, [node |-> c.node, Parent |-> from])
              /\ stack' = Tail(stack) /\ UNCHANGED phase
        /\ traversed' = traversed \cup {c.node}
        /\ UNCHANGED type

\* A node of Type Pages, or without one and with Kids: its Parent is set, and
\* its Kids are gone through next.
PagesNode(c) ==
    /\ traversed' = traversed \cup {c.node}
    /\ type' = [type EXCEPT ![c.node] = "Pages"]
    /\ parent' = IF c.parent = Null THEN parent ELSE [parent EXCEPT ![c.node] = c.parent]
    /\ IF doc.kids[c.node] = Null
       THEN Fail
       ELSE stack' = <<[c EXCEPT !.idx = 1]>> \o Tail(stack) /\ UNCHANGED phase
    /\ UNCHANGED <<pageList, PageList>>

\* The first part of buildPageList.
Visit(c) ==
    \/ /\ c.node \in traversed
       /\ stack' = Tail(stack)
       /\ UNCHANGED <<phase, type, parent, traversed, pageList, PageList>>
    \/ /\ c.node \notin traversed
       /\ \/ type[c.node] = "other" \/ (type[c.node] = "none" /\ doc.kids[c.node] = Null)
       /\ Fail
       /\ traversed' = traversed \cup {c.node}
       /\ UNCHANGED <<type, parent, pageList, PageList>>
    \/ /\ c.node \notin traversed /\ type[c.node] = "Page" /\ Page(c)
    \/ /\ c.node \notin traversed
       /\ type[c.node] = "Pages" \/ (type[c.node] = "none" /\ doc.kids[c.node] # Null)
       /\ PagesNode(c)

\* The loop over the Kids.
NextKid(c) ==
    LET kids == doc.kids[c.node] IN
    /\ \/ c.idx > Len(kids) /\ stack' = Tail(stack) /\ UNCHANGED phase
       \/ /\ c.idx <= Len(kids) /\ kids[c.idx] = Direct /\ Fail
       \/ /\ c.idx <= Len(kids) /\ kids[c.idx] # Direct
          /\ stack' = <<Call(kids[c.idx], c.node), [c EXCEPT !.idx = @ + 1]>> \o Tail(stack)
          /\ UNCHANGED phase
    /\ UNCHANGED <<type, parent, traversed, pageList, PageList>>

buildPageList ==
    /\ phase = "walk" /\ stack # <<>>
    /\ \/ Head(stack).idx = 0 /\ Visit(Head(stack))
       \/ Head(stack).idx > 0 /\ NextKid(Head(stack))
    /\ UNCHANGED <<doc, formDict, AcroForm, loads>>

\* The rest of loadStructure: the outlines, then the form.  The object of the
\* form gets an empty dictionary when a PdfAcroForm has been made of it
\* (newPdfAcroFormFromDict).
FinishLoad ==
    /\ phase = "walk" /\ stack = <<>>
    /\ phase' = IF doc.outlines THEN "ready" ELSE "failed"
    /\ IF doc.outlines /\ doc.form
       THEN AcroForm' = formDict /\ formDict' = "empty"
       ELSE UNCHANGED <<AcroForm, formDict>>
    /\ UNCHANGED <<doc, type, parent, stack, traversed, pageList, PageList, loads>>

Walk == buildPageList \/ FinishLoad
Next == NewPdfReader \/ Decrypt \/ Walk

\* A call of loadStructure runs on by itself; Decrypt is up to the caller.
Spec == Init /\ [][Next]_vars /\ WF_vars(Walk)

---------------------------------------------------------------------------

\* GetNumPages and GetPage of an opened reader; GetMediaBox of the page.
GetNumPages == Len(pageList)
GetPage(i) == PageList[i]
GetMediaBox(p) == IF p.node \in doc.box THEN p.node
                  ELSE IF p.Parent = Null THEN Null ELSE FirstIn(parent, p.Parent, doc.box)

TypeOK ==
    /\ doc \in Document
    /\ phase \in {"closed", "locked", "walk", "ready", "failed", "hung"}
    /\ parent \in [Nodes -> Nodes \cup {Null}]
    /\ traversed \subseteq Nodes /\ pageList \in Seq(Nodes)
    /\ \A i \in DOMAIN stack : stack[i].node \in Nodes /\ stack[i].idx \in Nat
    /\ AcroForm \in {Null, "full", "empty"} /\ loads \in 0 .. MaxLoads

Kids(n) == IF doc.kids[n] = Null \/ doc.type[n] = "Page" THEN <<>> ELSE doc.kids[n]
KidsOf(n) == ToSet(Kids(n)) \cap Nodes

\* The nodes and how they hang together make a tree with its root at Root.
IsTree ==
    /\ \A n \in Nodes : Root \notin KidsOf(n) /\ Len(Kids(n)) = Cardinality(KidsOf(n))
    /\ \A n \in Nodes \ {Root} : Cardinality({m \in Nodes : n \in KidsOf(m)}) <= 1
    /\ \A n \in Nodes : Direct \notin ToSet(Kids(n))

\* The pages of the tree in the order of the Kids arrays, to the given depth.
Leaves[d \in 0 .. Cardinality(Nodes), n \in Nodes] ==
    IF doc.type[n] = "Page" THEN <<n>>
    ELSE IF d = 0 THEN <<>>
    ELSE FlattenSeq([i \in 1 .. Len(Kids(n)) |-> Leaves[d - 1, Kids(n)[i]]])

TreeParent(n) == CHOOSE m \in Nodes : n \in KidsOf(m)

\* A page is listed once, however the Kids arrays refer to one another: the "Cyclic
\* recursion" test of buildPageList lets none in twice.
PageListedOnce == \A i, j \in DOMAIN pageList : pageList[i] = pageList[j] => i = j

\* The lists of a tree hold its pages in order, each once: the same test leaves none out.
PagesInOrder ==
    /\ PageListedOnce
    /\ phase = "ready" /\ IsTree => pageList = Leaves[Cardinality(Nodes), Root]

\* After any number of loads, of which any may have failed, GetPage(i) gives the
\* page that the page tree has at place i: PageList keeps the pages of earlier
\* loads before those of the last one, but these are the same objects.  After a
\* single load the two lists have the same length, as PageFromIndirectObject asks.
ListsAligned ==
    /\ phase \in {"ready", "failed"} => Len(pageList) <= Len(PageList)
    /\ phase \in {"ready", "failed"} =>
         \A i \in DOMAIN pageList : GetPage(i).node = pageList[i]
    /\ loads = 1 => Len(pageList) = Len(PageList)

\* GetMediaBox of a page of a tree gives the box that the page inherits along
\* the tree, when the page's own Parent entry is right; wrong or missing Parent
\* entries above it have been set right by the walk.
BoxInherited ==
    phase = "ready" /\ IsTree /\ doc.parent[Root] = Null =>
        \A i \in DOMAIN PageList :
            LET p == PageList[i]
                tree == [n \in Nodes |-> IF n = Root THEN Null ELSE TreeParent(n)]
            IN  p.node # Root /\ doc.parent[p.node] = TreeParent(p.node) =>
                  GetMediaBox(p) = FirstIn([n \in Nodes |-> IF n \in traversed THEN tree[n] ELSE Null], p.node, doc.box)

\* The first load that reaches the form has its fields; PdfReader keeps them as
\* long as Decrypt is not called again.
FormLoaded == phase = "ready" /\ doc.form /\ loads = 1 => AcroForm = "full"

\* Loading ends, whatever the Kids refer to, when no walk along the Parent
\* entries of the file comes round.
LoadEnds ==
    (phase = "walk" /\ doc.parent[Root] = Null
       /\ \A n \in Nodes : Last(Chain(doc.parent, n)) = Null)
      ~> phase \in {"ready", "failed"}

-----------------------------------------------------------------------------
\* Proofs: the walk of a page tree, for every document.

\* A set of natural numbers that is not empty has a least element.
LEMMA LeastNumber ==
    ASSUME NEW S \in SUBSET Nat, S # {}
    PROVE  \E x \in S : \A y \in S : x <= y
  <1> DEFINE R == OpToRel(<, Nat)
  <1>1. \A x, y \in Nat : (<<y, x>> \in R) <=> y < x  BY Zenon DEF OpToRel
  <1>2. IsWellFoundedOn(R, Nat)  BY NatLessThanWellFounded
  <1> HIDE DEF R
  <1>3. PICK x \in S : \A y \in S : ~(<<y, x>> \in R)  BY Zenon, <1>2, WFMin
  <1>4. \A y \in S : ~(y < x)  BY Zenon, <1>1, <1>3
  <1> QED  BY <1>4

\* What is assumed of the constants: the documents are documents, with their root.
TreeConstants == Documents \subseteq Document /\ Root \in Nodes

\* The state of the walk, and the state after the call that is innermost has gone on: where
\* it goes depends on the file alone, and not on the entries that the reader has changed.
State == [stack |-> stack, seen |-> traversed, pages |-> pageList]
Fails(d, c) ==
    \/ d.type[c.node] = "other"
    \/ d.type[c.node] = "Page" /\ c.node \in d.bad
    \/ d.type[c.node] \in {"Pages", "none"} /\ d.kids[c.node] = Null
Visited(d, s, c, rest) ==
    IF c.node \in s.seen THEN rest
    ELSE IF Fails(d, c) THEN <<>>
    ELSE IF d.type[c.node] = "Page" THEN rest
    ELSE <<[c EXCEPT !.idx = 1]>> \o rest
WentOn(d, c, rest) ==
    LET kids == d.kids[c.node]
    IN  IF c.idx > Len(kids) THEN rest
        ELSE IF kids[c.idx] = Direct THEN <<>>
        ELSE <<Call(kids[c.idx], c.node), [c EXCEPT !.idx = @ + 1]>> \o rest
Lists(d, s, c) == c.idx = 0 /\ c.node \notin s.seen /\ ~Fails(d, c) /\ d.type[c.node] = "Page"
StepOf(d, s) ==
    LET c == Head(s.stack)
    IN  [stack |-> IF c.idx = 0 THEN Visited(d, s, c, Tail(s.stack)) ELSE WentOn(d, c, Tail(s.stack)),
         seen |-> IF c.idx = 0 THEN s.seen \cup {c.node} ELSE s.seen,
         pages |-> IF Lists(d, s, c) THEN Append(s.pages, c.node) ELSE s.pages]

FirstState == [stack |-> <<Call(Root, Null)>>, seen |-> {}, pages |-> <<>>]

\* The walk from its start, as far as its state number n.
Trace(d, g, n) ==
    /\ DOMAIN g = 0 .. n
    /\ g[0] = FirstState
    /\ \A i \in 0 .. n - 1 : g[i].stack # <<>> /\ g[i + 1] = StepOf(d, g[i])

\* A walk over a file has no choice: as long as two go on, they are in the same states.
LEMMA TracesAgree ==
    ASSUME NEW d, NEW g, NEW h, NEW m \in Nat, NEW n \in Nat, Trace(d, g, m), Trace(d, h, n),
           NEW i \in Nat, i <= m, i <= n
    PROVE  g[i] = h[i]
  <1> DEFINE Bad == {k \in Nat : k <= m /\ k <= n /\ g[k] # h[k]}
  <1> SUFFICES ASSUME Bad # {} PROVE FALSE  OBVIOUS
  <1>1. PICK k \in Bad : \A j \in Bad : k <= j
    <2>1. Bad \in SUBSET Nat  OBVIOUS
    <2> HIDE DEF Bad
    <2> QED  BY <2>1, LeastNumber
  <1>2. k # 0  BY <1>1 DEF Trace
  <1>3. k - 1 \in Nat /\ k - 1 \in 0 .. m - 1 /\ k - 1 \in 0 .. n - 1 /\ (k - 1) + 1 = k  BY <1>1, <1>2
  <1>4. g[k - 1] = h[k - 1]
    <2>1. k - 1 \notin Bad  BY <1>1, <1>3
    <2> QED  BY <1>3, <2>1
  <1>5. g[k] = StepOf(d, g[k - 1]) /\ h[k] = StepOf(d, h[k - 1])  BY <1>3 DEF Trace
  <1> QED  BY <1>1, <1>4, <1>5

\* A walk that has ended is the longest one.
LEMMA EndedIsLongest ==
    ASSUME NEW d, NEW g, NEW h, NEW m \in Nat, NEW n \in Nat, Trace(d, g, m), Trace(d, h, n),
           g[m].stack = <<>>
    PROVE  n <= m
  <1> SUFFICES ASSUME m < n PROVE FALSE  OBVIOUS
  <1>1. g[m] = h[m]  BY TracesAgree
  <1>2. m \in 0 .. n - 1  OBVIOUS
  <1>3. h[m].stack # <<>>  BY <1>2 DEF Trace
  <1> QED  BY <1>1, <1>3

\* A walk only adds pages, at the end.
LEMMA PagesGrow ==
    ASSUME NEW d, NEW g, NEW n \in Nat, Trace(d, g, n), \A i \in 0 .. n : g[i].pages \in Seq(Nodes),
           NEW k \in 0 .. n
    PROVE  /\ Len(g[k].pages) <= Len(g[n].pages)
           /\ \A i \in 1 .. Len(g[k].pages) : g[n].pages[i] = g[k].pages[i]
  <1> DEFINE Grown(j) == /\ Len(g[k].pages) <= Len(g[j].pages)
                         /\ \A i \in 1 .. Len(g[k].pages) : g[j].pages[i] = g[k].pages[i]
             Bad == {j \in k .. n : ~Grown(j)}
  <1> SUFFICES ASSUME Bad # {} PROVE FALSE
    <2>1. n \in k .. n  OBVIOUS
    <2> QED  BY <2>1
  <1>1. PICK j \in Bad : \A x \in Bad : j <= x
    <2>1. Bad \in SUBSET Nat  OBVIOUS
    <2> HIDE DEF Bad
    <2> QED  BY <2>1, LeastNumber
  <1>2. g[k].pages \in Seq(Nodes) /\ Len(g[k].pages) \in Nat  BY LenProperties
  <1>3. Grown(k)  BY <1>2
  <1>4. j # k /\ j \in k .. n /\ ~Grown(j)  BY ZenonT(30), <1>1, <1>3
  <1>5. j - 1 \in k .. n /\ j - 1 \in 0 .. n - 1 /\ j - 1 < j /\ (j - 1) + 1 = j  BY <1>4
  <1>6. Grown(j - 1)
    <2>1. j - 1 \notin Bad  BY <1>1, <1>5
    <2> QED  BY <1>5, <2>1
  <1>7. g[j] = StepOf(d, g[j - 1])  BY <1>5 DEF Trace
  <1>8. PICK s : s = g[j - 1]  BY Zenon
  <1>9. g[j].pages = s.pages \/ g[j].pages = Append(s.pages, Head(s.stack).node)
    <2>1. \A a, b, e : [stack |-> a, seen |-> b, pages |-> e].pages = e  OBVIOUS
    <2>2. g[j] = StepOf(d, s)  BY Zenon, <1>7, <1>8
    <2>3. StepOf(d, s).pages = IF Lists(d, s, Head(s.stack)) THEN Append(s.pages, Head(s.stack).node)
                               ELSE s.pages
      BY Zenon, <2>1 DEF StepOf
    <2> QED  BY Zenon, <2>2, <2>3
  <1>10. s.pages \in Seq(Nodes) /\ g[j].pages \in Seq(Nodes)  BY <1>4, <1>5, <1>8
  <1>11. CASE g[j].pages = s.pages  BY Zenon, <1>4, <1>6, <1>8, <1>11
  <1>12. CASE g[j].pages = Append(s.pages, Head(s.stack).node)
    <2>1. PICK x : x = Head(s.stack).node  OBVIOUS
    <2>2. g[j].pages = Append(s.pages, x)  BY <1>12, <2>1
    <2>3. Len(g[j].pages) = Len(s.pages) + 1 /\ \A i \in 1 .. Len(s.pages) : g[j].pages[i] = s.pages[i]
      BY <1>10, <2>2
    <2>4. Len(g[k].pages) <= Len(s.pages) /\ \A i \in 1 .. Len(g[k].pages) : s.pages[i] = g[k].pages[i]
      BY <1>6, <1>8
    <2>5. Len(s.pages) \in Nat  BY <1>10, LenProperties
    <2>6. Len(g[k].pages) <= Len(g[j].pages)  BY <1>2, <2>3, <2>4, <2>5
    <2>7. \A i \in 1 .. Len(g[k].pages) : i \in 1 .. Len(s.pages)  BY <1>2, <2>4, <2>5
    <2>8. Grown(j)  BY Zenon, <2>3, <2>4, <2>6, <2>7
    <2> QED  BY Zenon, <1>4, <2>8
  <1> QED  BY <1>9, <1>11, <1>12

\* s is a state of the walk over the file d.
Walked(d, s) ==
    \E n \in Nat : \E g : /\ Trace(d, g, n) /\ g[n] = s
                          /\ \A i \in 0 .. n : g[i].pages \in Seq(Nodes)

\* The walk begins at the root.
LEMMA WalkStarts == ASSUME NEW d PROVE Walked(d, FirstState)
  <1>1. PICK s : s = FirstState  OBVIOUS
  <1>2. PICK g : g = [i \in {0} |-> s]  BY Zenon
  <1>3. DOMAIN g = 0 .. 0 /\ g[0] = s  BY <1>2
  <1>4. Trace(d, g, 0)  BY <1>1, <1>3 DEF Trace
  <1>5. s.pages = <<>> /\ <<>> \in Seq(Nodes)  BY <1>1 DEF FirstState
  <1>6. \A i \in 0 .. 0 : g[i].pages \in Seq(Nodes)
    <2>1. \A i \in 0 .. 0 : i = 0  OBVIOUS
    <2> QED  BY Zenon, <1>3, <1>5, <2>1
  <1> QED  BY <1>1, <1>3, <1>4, <1>6 DEF Walked

\* It goes on by the next step.
LEMMA WalkGoesOn ==
    ASSUME NEW d, NEW s, Walked(d, s), s.stack # <<>>,
           NEW t, t = StepOf(d, s), t.pages \in Seq(Nodes)
    PROVE  Walked(d, t)
  <1>1. PICK n \in Nat : \E g : /\ Trace(d, g, n) /\ g[n] = s
                                /\ \A i \in 0 .. n : g[i].pages \in Seq(Nodes)
    BY DEF Walked
  <1>2. PICK g : /\ Trace(d, g, n) /\ g[n] = s
                 /\ \A i \in 0 .. n : g[i].pages \in Seq(Nodes)
    BY <1>1
  <1>3. PICK h : h = [i \in 0 .. n + 1 |-> IF i = n + 1 THEN t ELSE g[i]]  BY Zenon
  <1>4. DOMAIN h = 0 .. n + 1 /\ h[n + 1] = t /\ \A i \in 0 .. n : h[i] = g[i]  BY <1>3
  <1>5. Trace(d, h, n + 1)
    <2>1. DOMAIN g = 0 .. n /\ g[0] = FirstState
            /\ \A i \in 0 .. n - 1 : g[i].stack # <<>> /\ g[i + 1] = StepOf(d, g[i])
      BY <1>2 DEF Trace
    <2>2. ASSUME NEW i \in 0 .. (n + 1) - 1 PROVE h[i].stack # <<>> /\ h[i + 1] = StepOf(d, h[i])
      <3>1. CASE i = n  BY <1>2, <1>4, <3>1
      <3>2. CASE i # n
        <4>1. i \in 0 .. n - 1 /\ i \in 0 .. n /\ i + 1 \in 0 .. n  BY <3>2
        <4> QED  BY <1>4, <2>1, <4>1
      <3> QED  BY <3>1, <3>2
    <2>3. h[0] = FirstState  BY <1>4, <2>1
    <2> QED  BY <1>4, <2>2, <2>3 DEF Trace
  <1>6. \A i \in 0 .. n + 1 : h[i].pages \in Seq(Nodes)  BY <1>2, <1>4
  <1>7. n + 1 \in Nat  OBVIOUS
  <1> QED  BY <1>4, <1>5, <1>6, <1>7 DEF Walked

\* Whatever state a walk is in, its pages begin the list that an ended walk has left.
LEMMA PagesBegin ==
    ASSUME NEW d, NEW s, Walked(d, s), s.stack = <<>>, NEW t, Walked(d, t)
    PROVE  /\ Len(t.pages) <= Len(s.pages)
           /\ \A i \in 1 .. Len(t.pages) : s.pages[i] = t.pages[i]
  <1>1. PICK m \in Nat : \E g : /\ Trace(d, g, m) /\ g[m] = s
                                /\ \A i \in 0 .. m : g[i].pages \in Seq(Nodes)
    BY DEF Walked
  <1>2. PICK g : /\ Trace(d, g, m) /\ g[m] = s
                 /\ \A i \in 0 .. m : g[i].pages \in Seq(Nodes)
    BY <1>1
  <1>3. PICK n \in Nat : \E h : Trace(d, h, n) /\ h[n] = t  BY DEF Walked
  <1>4. PICK h : Trace(d, h, n) /\ h[n] = t  BY <1>3
  <1>5. n <= m  BY <1>2, <1>4, EndedIsLongest
  <1>6. g[n] = h[n]  BY <1>2, <1>4, <1>5, TracesAgree
  <1>7. n \in 0 .. m  BY <1>5
  <1> QED  BY <1>2, <1>4, <1>6, <1>7, PagesGrow

---------------------------------------------------------------------------
\* The calls that may be running: only one that has found Kids goes through them.
Calls(d) == {c \in [node : Nodes, parent : Nodes \cup {Null}, idx : Nat] :
                 c.idx > 0 => d.kids[c.node] \in Seq(Nodes \cup {Direct})}

\* What the reader holds is of its type, and has the Type entries of the file but for the
\* ones that it has added.
TreeTypes ==
    /\ doc \in Document
    /\ type \in [Nodes -> {"Page", "Pages", "none", "other"}]
    /\ \A n \in Nodes : type[n] = doc.type[n] \/ (doc.type[n] = "none" /\ type[n] = "Pages")
    /\ parent \in [Nodes -> Nodes \cup {Null}]
    /\ stack \in Seq(Calls(doc))
    /\ traversed \subseteq Nodes
    /\ pageList \in Seq(Nodes)
    /\ PageList \in Seq([node : Nodes, Parent : Nodes \cup {Null}])
    /\ loads \in Nat

\* The first walk has put its pages into both lists; a later one is behind it.
Aligned ==
    /\ phase \in {"closed", "locked"} => loads = 0 /\ pageList = <<>> /\ PageList = <<>>
    /\ phase \in {"walk", "ready", "failed"} => loads # 0 /\ Walked(doc, State)
    /\ phase \in {"ready", "failed"} => stack = <<>>
    /\ loads = 1 => /\ Len(pageList) = Len(PageList)
                    /\ \A i \in 1 .. Len(pageList) : PageList[i].node = pageList[i]
    /\ loads > 1 => \E s : /\ Walked(doc, s) /\ s.stack = <<>>
                           /\ s.pages \in Seq(Nodes) /\ Len(s.pages) <= Len(PageList)
                           /\ \A i \in 1 .. Len(s.pages) : PageList[i].node = s.pages[i]

\* A listed page has been traversed.
Once ==
    /\ \A i \in 1 .. Len(pageList) : pageList[i] \in traversed
    /\ \A i, j \in 1 .. Len(pageList) : pageList[i] = pageList[j] => i = j

\* The AcroForm object is as in the file until the first load is through.
FormInv ==
    /\ loads = 0 \/ (loads = 1 /\ phase = "walk") => formDict = "full"
    /\ phase \in {"closed", "locked"} => loads = 0
    /\ FormLoaded

\* The fields of a document.
LEMMA DocumentFields ==
    ASSUME NEW d \in Document
    PROVE  /\ d.type \in [Nodes -> {"Page", "Pages", "none", "other"}]
           /\ d.kids \in [Nodes -> Seq(Nodes \cup {Direct}) \cup {Null}]
           /\ d.parent \in [Nodes -> Nodes \cup {Null}]
  BY DEF Document

\* At first nothing is loaded.
LEMMA TreeInit == ASSUME TreeConstants, Init PROVE TreeTypes /\ Aligned /\ Once /\ FormInv
  <1>1. doc \in Document  BY DEF Init, TreeConstants
  <1>2. TreeTypes
    <2>1. /\ doc.type \in [Nodes -> {"Page", "Pages", "none", "other"}]
          /\ doc.parent \in [Nodes -> Nodes \cup {Null}]
      BY <1>1, DocumentFields
    <2>2. type = doc.type /\ parent = doc.parent /\ traversed = {} /\ loads = 0
            /\ stack = <<>> /\ pageList = <<>> /\ PageList = <<>>
      BY DEF Init
    <2> QED  BY <1>1, <2>1, <2>2, EmptySeq DEF TreeTypes
  <1>3. Aligned  BY DEF Init, Aligned
  <1>4. Once  BY DEF Init, Once
  <1>5. FormInv  BY DEF Init, FormInv, FormLoaded
  <1> QED  BY <1>2, <1>3, <1>4, <1>5

\* A load starts: what a load before it has left is the list of an ended walk.
LEMMA StartKeeps ==
    ASSUME TreeConstants, TreeTypes, Aligned, Once, FormInv, StartLoad,
           phase \in {"closed", "locked", "ready", "failed"}
    PROVE  TreeTypes' /\ Aligned' /\ Once' /\ FormInv'
  <1>1. /\ phase' = "walk" /\ loads' = loads + 1 /\ pageList' = <<>> /\ traversed' = {}
        /\ stack' = <<Call(Root, Null)>> /\ doc' = doc /\ parent' = parent
        /\ formDict' = formDict /\ PageList' = PageList
        /\ type' = IF type[Root] = "none" THEN [type EXCEPT ![Root] = "Pages"] ELSE type
    BY DEF StartLoad
  <1>2. loads \in Nat  BY DEF TreeTypes
  <1>3. TreeTypes'
    <2>1. type' \in [Nodes -> {"Page", "Pages", "none", "other"}]
      BY <1>1 DEF TreeTypes, TreeConstants
    <2>2. \A n \in Nodes : type'[n] = doc.type[n] \/ (doc.type[n] = "none" /\ type'[n] = "Pages")
      BY <1>1 DEF TreeTypes, TreeConstants
    <2>3. stack' \in Seq(Calls(doc))
      <3>1. Call(Root, Null) \in Calls(doc)  BY DEF Call, Calls, TreeConstants
      <3> QED  BY <1>1, <3>1
    <2>4. loads' \in Nat  BY <1>1, <1>2
    <2>5. pageList' \in Seq(Nodes)  BY <1>1, EmptySeq
    <2> QED  BY Zenon, <1>1, <2>1, <2>2, <2>3, <2>4, <2>5 DEF TreeTypes
  <1>4. Aligned'
    <2>1. State' = FirstState  BY <1>1 DEF State, FirstState
    <2>2. Walked(doc, State)'
      <3>1. Walked(doc', FirstState)  BY WalkStarts
      <3> QED  BY <2>1, <3>1
    <2>3. loads' = 1 => pageList' = <<>> /\ PageList' = <<>>
      <3>1. loads' = 1 => loads = 0  BY <1>1, <1>2
      <3> QED  BY <1>1, <3>1 DEF Aligned
    <2>4. loads' = 1 => /\ Len(pageList') = Len(PageList')
                        /\ \A i \in 1 .. Len(pageList') : PageList'[i].node = pageList'[i]
      BY <2>3
    <2>5. ASSUME loads' > 1
          PROVE  \E s : /\ Walked(doc, s) /\ s.stack = <<>>
                        /\ s.pages \in Seq(Nodes) /\ Len(s.pages) <= Len(PageList)
                        /\ \A i \in 1 .. Len(s.pages) : PageList[i].node = s.pages[i]
      <3>1. loads # 0 /\ (loads = 1 \/ loads > 1)  BY <1>1, <1>2, <2>5
      <3>2. CASE loads = 1
        <4>1. Walked(doc, State) /\ stack = <<>>  BY <3>1 DEF Aligned
        <4>2. State.stack = stack /\ State.pages = pageList  BY DEF State
        <4>3. pageList \in Seq(Nodes) /\ Len(pageList) \in Nat  BY LenProperties DEF TreeTypes
        <4>4. /\ Len(pageList) <= Len(PageList)
              /\ \A i \in 1 .. Len(pageList) : PageList[i].node = pageList[i]
          BY <3>2, <4>3 DEF Aligned
        <4>5. PICK s : s = State  OBVIOUS
        <4>6. /\ Walked(doc, s) /\ s.stack = <<>>
              /\ s.pages \in Seq(Nodes) /\ Len(s.pages) <= Len(PageList)
              /\ \A i \in 1 .. Len(s.pages) : PageList[i].node = s.pages[i]
          BY ZenonT(30), <4>1, <4>2, <4>3, <4>4, <4>5
        <4> QED  BY <4>6
      <3>3. CASE loads > 1  BY <3>3, Zenon DEF Aligned
      <3> QED  BY <3>1, <3>2, <3>3
    <2>6. loads' # 0 /\ phase' = "walk"  BY <1>1, <1>2
    <2>7. loads' > 1 => \E s : /\ Walked(doc', s) /\ s.stack = <<>>
                               /\ s.pages \in Seq(Nodes) /\ Len(s.pages) <= Len(PageList')
                               /\ \A i \in 1 .. Len(s.pages) : PageList'[i].node = s.pages[i]
      BY <1>1, <2>5
    <2> QED  BY <2>2, <2>4, <2>6, <2>7 DEF Aligned
  <1>5. Once'
    <2>1. Len(pageList') = 0  BY <1>1
    <2> QED  BY <2>1 DEF Once
  <1>6. FormInv'
    <2>1. loads' = 1 => loads = 0  BY <1>1, <1>2
    <2>2. loads' # 0  BY <1>1, <1>2
    <2> QED  BY ZenonT(30), <1>1, <2>1, <2>2 DEF FormInv, FormLoaded
  <1> QED  BY <1>3, <1>4, <1>5, <1>6

\* The innermost call, and the calls around it.
LEMMA Innermost ==
    ASSUME TreeTypes, stack # <<>>, NEW c, c = Head(stack)
    PROVE  /\ c \in Calls(doc) /\ Tail(stack) \in Seq(Calls(doc)) /\ <<>> \in Seq(Calls(doc))
           /\ c.node \in Nodes /\ c.parent \in Nodes \cup {Null} /\ c.idx \in Nat
           /\ c = [node |-> c.node, parent |-> c.parent, idx |-> c.idx]
           /\ c.idx > 0 => doc.kids[c.node] \in Seq(Nodes \cup {Direct})
           /\ doc.kids[c.node] # Null => doc.kids[c.node] \in Seq(Nodes \cup {Direct})
  <1>1. c \in Calls(doc) /\ Tail(stack) \in Seq(Calls(doc))  BY HeadTailProperties DEF TreeTypes
  <1>2. c \in [node : Nodes, parent : Nodes \cup {Null}, idx : Nat]  BY <1>1 DEF Calls
  <1>3. c.idx > 0 => doc.kids[c.node] \in Seq(Nodes \cup {Direct})  BY <1>1 DEF Calls
  <1>4. doc.kids \in [Nodes -> Seq(Nodes \cup {Direct}) \cup {Null}]  BY DocumentFields DEF TreeTypes
  <1> QED  BY ZenonT(30), <1>1, <1>2, <1>3, <1>4, EmptySeq

\* A call of buildPageList goes on as the file says, unless it never ends; the lists get
\* the page, or nothing.
LEMMA StepFollows ==
    ASSUME TreeConstants, TreeTypes, buildPageList, NEW c, c = Head(stack)
    PROVE  /\ phase' \in {"walk", "failed", "hung"}
           /\ phase' # "hung" => State' = StepOf(doc, State)
           /\ phase' = "failed" => stack' = <<>>
           /\ \/ pageList' = pageList /\ PageList' = PageList
              \/ /\ c.node \notin traversed /\ c.node \in Nodes /\ traversed' = traversed \cup {c.node}
                 /\ pageList' = Append(pageList, c.node)
                 /\ PageList' = Append(PageList, [node |-> c.node, Parent |-> parent[c.node]])
           /\ traversed \subseteq traversed'
  <1>1. /\ phase = "walk" /\ stack # <<>>
        /\ (c.idx = 0 /\ Visit(c)) \/ (c.idx > 0 /\ NextKid(c))
    BY DEF buildPageList
  <1>2. /\ c.node \in Nodes /\ c.idx \in Nat
        /\ c = [node |-> c.node, parent |-> c.parent, idx |-> c.idx]
    BY <1>1, Innermost
  <1>3. PICK s : s = State  OBVIOUS
  <1>4. s.stack = stack /\ s.seen = traversed /\ s.pages = pageList  BY ZenonT(30), <1>3 DEF State
  <1>5. /\ StepOf(doc, s) = [stack |-> StepOf(doc, s).stack, seen |-> StepOf(doc, s).seen,
                             pages |-> StepOf(doc, s).pages]
        /\ StepOf(doc, s).stack = IF c.idx = 0 THEN Visited(doc, s, c, Tail(stack))
                                  ELSE WentOn(doc, c, Tail(stack))
        /\ StepOf(doc, s).seen = IF c.idx = 0 THEN traversed \cup {c.node} ELSE traversed
        /\ StepOf(doc, s).pages = IF Lists(doc, s, c) THEN Append(pageList, c.node) ELSE pageList
    BY <1>4 DEF StepOf
  <1>6. (/\ stack' = StepOf(doc, s).stack /\ traversed' = StepOf(doc, s).seen
         /\ pageList' = StepOf(doc, s).pages) => State' = StepOf(doc, State)
    BY ZenonT(30), <1>3, <1>5 DEF State
  <1>7. ASSUME c.idx > 0 /\ NextKid(c)
        PROVE  /\ phase' \in {"walk", "failed"} /\ (phase' = "failed" => stack' = <<>>)
               /\ stack' = WentOn(doc, c, Tail(stack)) /\ traversed' = traversed
               /\ pageList' = pageList /\ PageList' = PageList
    <2>1. PICK kids : kids = doc.kids[c.node]  OBVIOUS
    <2>2. kids \in Seq(Nodes \cup {Direct})  BY <1>1, <1>7, <2>1, Innermost
    <2>3. PICK pushed : pushed = <<Call(kids[c.idx], c.node), [c EXCEPT !.idx = @ + 1]>> \o Tail(stack)
      BY Zenon
    <2>4. /\ traversed' = traversed /\ pageList' = pageList /\ PageList' = PageList
          /\ \/ c.idx > Len(kids) /\ stack' = Tail(stack) /\ phase' = phase
             \/ c.idx <= Len(kids) /\ kids[c.idx] = Direct /\ phase' = "failed" /\ stack' = <<>>
             \/ c.idx <= Len(kids) /\ kids[c.idx] # Direct /\ phase' = phase /\ stack' = pushed
      BY <1>7, <2>1, <2>3, Zenon DEF NextKid, Fail
    <2>5. WentOn(doc, c, Tail(stack)) =
             IF c.idx > Len(kids) THEN Tail(stack) ELSE IF kids[c.idx] = Direct THEN <<>> ELSE pushed
      BY <2>1, <2>3, Zenon DEF WentOn
    <2>6. Len(kids) \in Nat /\ c.idx \in Nat  BY <1>2, <2>2, LenProperties
    <2> QED  BY <1>1, <2>4, <2>5, <2>6
  <1>8. ASSUME c.idx = 0, Visit(c), c.node \in traversed
        PROVE  /\ phase' = "walk" /\ stack' = Visited(doc, s, c, Tail(stack)) /\ traversed' = traversed
               /\ pageList' = pageList /\ PageList' = PageList
    BY <1>1, <1>4, <1>8 DEF Visit, Visited
  <1>9. doc.type[c.node] \in {"Page", "Pages", "none", "other"}
    BY <1>2, DocumentFields DEF TreeTypes
  <1>10. type[c.node] = doc.type[c.node] \/ (doc.type[c.node] = "none" /\ type[c.node] = "Pages")
    BY <1>2 DEF TreeTypes
  <1>11. ASSUME c.node \notin traversed,
                type[c.node] = "other" \/ (type[c.node] = "none" /\ doc.kids[c.node] = Null),
                Fail, traversed' = traversed \cup {c.node}, pageList' = pageList, PageList' = PageList
         PROVE  /\ phase' = "failed" /\ stack' = <<>> /\ stack' = Visited(doc, s, c, Tail(stack))
                /\ ~Lists(doc, s, c)
    <2>1. Fails(doc, c)  BY <1>10, <1>11 DEF Fails
    <2> QED  BY <1>4, <1>11, <2>1 DEF Visited, Lists, Fail
  <1>12. ASSUME c.node \notin traversed, type[c.node] = "Page", Page(c)
         PROVE  /\ phase' \in {"walk", "failed", "hung"} /\ (phase' = "failed" => stack' = <<>>)
                /\ traversed' = traversed \cup {c.node}
                /\ phase' # "hung" => stack' = Visited(doc, s, c, Tail(stack))
                /\ \/ pageList' = pageList /\ PageList' = PageList
                        /\ (phase' # "hung" => ~Lists(doc, s, c))
                   \/ /\ pageList' = Append(pageList, c.node) /\ (c.idx = 0 => Lists(doc, s, c))
                      /\ PageList' = Append(PageList, [node |-> c.node, Parent |-> parent[c.node]])
    <2>1. doc.type[c.node] = "Page"  BY <1>10, <1>12
    <2>2. Fails(doc, c) <=> c.node \in doc.bad  BY <2>1 DEF Fails
    <2>3. Visited(doc, s, c, Tail(stack)) = IF c.node \in doc.bad THEN <<>> ELSE Tail(stack)
      BY <1>4, <1>12, <2>1, <2>2 DEF Visited
    <2>4. Lists(doc, s, c) <=> c.idx = 0 /\ c.node \notin doc.bad
      BY <1>4, <1>12, <2>1, <2>2 DEF Lists
    <2>5. /\ traversed' = traversed \cup {c.node}
          /\ \/ /\ c.node \in doc.bad /\ phase' = "failed" /\ stack' = <<>>
                /\ pageList' = pageList /\ PageList' = PageList
             \/ phase' = "hung" /\ pageList' = pageList /\ PageList' = PageList
             \/ /\ c.node \notin doc.bad /\ pageList' = Append(pageList, c.node)
                /\ PageList' = Append(PageList, [node |-> c.node, Parent |-> parent[c.node]])
                /\ stack' = Tail(stack) /\ phase' = phase
      BY <1>12, Zenon DEF Page, Fail
    <2> QED  BY ZenonT(30), <1>1, <2>3, <2>4, <2>5
  <1>13. ASSUME c.node \notin traversed, PagesNode(c),
                type[c.node] = "Pages" \/ (type[c.node] = "none" /\ doc.kids[c.node] # Null)
         PROVE  /\ phase' \in {"walk", "failed"} /\ (phase' = "failed" => stack' = <<>>)
                /\ traversed' = traversed \cup {c.node}
                /\ stack' = Visited(doc, s, c, Tail(stack))
                /\ pageList' = pageList /\ PageList' = PageList /\ ~Lists(doc, s, c)
    <2>1. doc.type[c.node] \in {"Pages", "none"}  BY <1>10, <1>13
    <2>2. Fails(doc, c) <=> doc.kids[c.node] = Null  BY <2>1 DEF Fails
    <2>3. PICK pushed : pushed = <<[c EXCEPT !.idx = 1]>> \o Tail(stack)  BY ZenonT(30)
    <2>4. Visited(doc, s, c, Tail(stack)) = IF doc.kids[c.node] = Null THEN <<>> ELSE pushed
      BY <1>4, <1>13, <2>1, <2>2, <2>3 DEF Visited
    <2>5. /\ traversed' = traversed \cup {c.node} /\ pageList' = pageList /\ PageList' = PageList
          /\ doc.kids[c.node] = Null => phase' = "failed" /\ stack' = <<>>
          /\ doc.kids[c.node] # Null => phase' = phase /\ stack' = pushed
      BY <1>13, <2>3, Zenon DEF PagesNode, Fail
    <2>6. ~Lists(doc, s, c)  BY <2>1 DEF Lists
    <2> QED  BY <1>1, <2>4, <2>5, <2>6
  <1>14. ASSUME c.idx = 0, Visit(c), c.node \notin traversed
         PROVE  /\ phase' \in {"walk", "failed", "hung"} /\ (phase' = "failed" => stack' = <<>>)
                /\ traversed' = traversed \cup {c.node}
                /\ phase' # "hung" => stack' = Visited(doc, s, c, Tail(stack))
                /\ \/ pageList' = pageList /\ PageList' = PageList
                        /\ (phase' # "hung" => ~Lists(doc, s, c))
                   \/ /\ pageList' = Append(pageList, c.node) /\ Lists(doc, s, c)
                      /\ PageList' = Append(PageList, [node |-> c.node, Parent |-> parent[c.node]])
    <2>1. \/ /\ type[c.node] = "other" \/ (type[c.node] = "none" /\ doc.kids[c.node] = Null)
             /\ Fail /\ traversed' = traversed \cup {c.node}
             /\ pageList' = pageList /\ PageList' = PageList
          \/ type[c.node] = "Page" /\ Page(c)
          \/ /\ type[c.node] = "Pages" \/ (type[c.node] = "none" /\ doc.kids[c.node] # Null)
             /\ PagesNode(c)
      BY <1>14, Zenon DEF Visit
    <2> QED  BY <1>11, <1>12, <1>13, <1>14, <2>1, Zenon
  <1>15. CASE c.idx > 0 /\ NextKid(c)
    <2>1. c.idx # 0  BY <1>2, <1>15
    <2>2. ~Lists(doc, s, c)  BY <2>1 DEF Lists
    <2> QED  BY ZenonT(30), <1>5, <1>6, <1>7, <1>15, <2>1, <2>2
  <1>16. CASE c.idx = 0 /\ Visit(c) /\ c.node \in traversed
    <2>1. ~Lists(doc, s, c) /\ traversed \cup {c.node} = traversed  BY <1>4, <1>16 DEF Lists
    <2> QED  BY ZenonT(30), <1>5, <1>6, <1>8, <1>16, <2>1
  <1>17. CASE c.idx = 0 /\ Visit(c) /\ c.node \notin traversed
    <2>1. phase' # "hung" => State' = StepOf(doc, State)  BY <1>5, <1>6, <1>14, <1>17
    <2> QED  BY ZenonT(30), <1>2, <1>14, <1>17, <2>1
  <1> QED  BY <1>1, <1>15, <1>16, <1>17

\* buildPageList keeps the types: what it sets, and the calls that it makes.
LEMMA StepTypes ==
    ASSUME TreeConstants, TreeTypes, buildPageList
    PROVE  TreeTypes'
  <1>1. PICK c : c = Head(stack)  OBVIOUS
  <1>2. /\ phase = "walk" /\ stack # <<>> /\ doc' = doc /\ loads' = loads
        /\ (c.idx = 0 /\ Visit(c)) \/ (c.idx > 0 /\ NextKid(c))
    BY <1>1 DEF buildPageList
  <1>3. /\ c \in Calls(doc) /\ Tail(stack) \in Seq(Calls(doc)) /\ <<>> \in Seq(Calls(doc))
        /\ c.node \in Nodes /\ c.parent \in Nodes \cup {Null} /\ c.idx \in Nat
        /\ c = [node |-> c.node, parent |-> c.parent, idx |-> c.idx]
        /\ c.idx > 0 => doc.kids[c.node] \in Seq(Nodes \cup {Direct})
        /\ doc.kids[c.node] # Null => doc.kids[c.node] \in Seq(Nodes \cup {Direct})
    BY <1>1, <1>2, Innermost
  <1>4. stack' \in Seq(Calls(doc))
    <2>1. ASSUME NextKid(c), c.idx > 0 PROVE stack' \in Seq(Calls(doc))
      <3>1. PICK kids : kids = doc.kids[c.node]  OBVIOUS
      <3>2. kids \in Seq(Nodes \cup {Direct})  BY <1>3, <2>1, <3>1
      <3>3. PICK a, b : a = Call(kids[c.idx], c.node) /\ b = [c EXCEPT !.idx = @ + 1]  BY Zenon
      <3>4. \/ stack' = Tail(stack) \/ stack' = <<>>
            \/ c.idx <= Len(kids) /\ kids[c.idx] # Direct /\ stack' = <<a, b>> \o Tail(stack)
        BY <2>1, <3>1, <3>3, Zenon DEF NextKid, Fail
      <3>5. ASSUME c.idx <= Len(kids) /\ kids[c.idx] # Direct
            PROVE  <<a, b>> \o Tail(stack) \in Seq(Calls(doc))
        <4>1. c.idx \in 1 .. Len(kids)  BY <1>3, <2>1, <3>2, <3>5, LenProperties
        <4>2. kids[c.idx] \in Nodes  BY <3>2, <3>5, <4>1, ElementOfSeq
        <4>3. a \in Calls(doc)  BY <1>3, <3>3, <4>2 DEF Calls, Call
        <4>4. b = [node |-> c.node, parent |-> c.parent, idx |-> c.idx + 1]  BY <1>3, <3>3
        <4>5. b \in Calls(doc)  BY <1>3, <2>1, <4>4 DEF Calls
        <4>6. <<a, b>> \in Seq(Calls(doc))  BY <4>3, <4>5
        <4> QED  BY <1>3, <4>6, ConcatProperties
      <3> QED  BY ZenonT(30), <1>3, <3>4, <3>5
    <2>2. ASSUME Visit(c) PROVE stack' \in Seq(Calls(doc))
      <3>1. PICK b : b = [c EXCEPT !.idx = 1]  BY Zenon
      <3>2. \/ stack' = Tail(stack) \/ stack' = <<>> \/ stack' = stack
            \/ doc.kids[c.node] # Null /\ stack' = <<b>> \o Tail(stack)
        BY <2>2, <3>1, Zenon DEF Visit, Page, PagesNode, Fail
      <3>3. ASSUME doc.kids[c.node] # Null PROVE <<b>> \o Tail(stack) \in Seq(Calls(doc))
        <4>1. b = [node |-> c.node, parent |-> c.parent, idx |-> 1]  BY <1>3, <3>1
        <4>2. b \in Calls(doc)  BY <1>3, <3>3, <4>1 DEF Calls
        <4>3. <<b>> \in Seq(Calls(doc))  BY <4>2
        <4> QED  BY <1>3, <4>3, ConcatProperties
      <3>4. stack \in Seq(Calls(doc))  BY DEF TreeTypes
      <3> QED  BY ZenonT(30), <1>3, <3>2, <3>3, <3>4
    <2> QED  BY <1>2, <2>1, <2>2
  <1>5. parent' \in [Nodes -> Nodes \cup {Null}]
    <2>1. \/ parent' = parent
          \/ c.parent # Null /\ parent' = [parent EXCEPT ![c.node] = c.parent]
      BY <1>2, Zenon DEF Visit, Page, PagesNode, NextKid, Fail
    <2>2. parent \in [Nodes -> Nodes \cup {Null}]  BY DEF TreeTypes
    <2> QED  BY <1>3, <2>1, <2>2
  <1>6. /\ type' \in [Nodes -> {"Page", "Pages", "none", "other"}]
        /\ \A n \in Nodes : type'[n] = doc.type[n] \/ (doc.type[n] = "none" /\ type'[n] = "Pages")
    <2>1. \/ type' = type
          \/ /\ type[c.node] = "Pages" \/ type[c.node] = "none"
             /\ type' = [type EXCEPT ![c.node] = "Pages"]
      BY <1>2, Zenon DEF Visit, Page, PagesNode, NextKid, Fail
    <2>2. /\ type \in [Nodes -> {"Page", "Pages", "none", "other"}]
          /\ \A n \in Nodes : type[n] = doc.type[n] \/ (doc.type[n] = "none" /\ type[n] = "Pages")
      BY DEF TreeTypes
    <2> QED  BY <1>3, <2>1, <2>2
  <1>7. traversed' \subseteq Nodes
    <2>1. traversed' = traversed \/ traversed' = traversed \cup {c.node}
      BY <1>2, Zenon DEF Visit, Page, PagesNode, NextKid, Fail
    <2> QED  BY <1>3, <2>1 DEF TreeTypes
  <1>8. /\ pageList' \in Seq(Nodes)
        /\ PageList' \in Seq([node : Nodes, Parent : Nodes \cup {Null}])
    <2>1. PICK x : x = [node |-> c.node, Parent |-> parent[c.node]]  BY Zenon
    <2>2. \/ pageList' = pageList /\ PageList' = PageList
          \/ pageList' = Append(pageList, c.node) /\ PageList' = Append(PageList, x)
      BY <1>1, <2>1, StepFollows, Zenon
    <2>3. x \in [node : Nodes, Parent : Nodes \cup {Null}]  BY <1>3, <2>1 DEF TreeTypes
    <2>4. /\ pageList \in Seq(Nodes)
          /\ PageList \in Seq([node : Nodes, Parent : Nodes \cup {Null}])
      BY DEF TreeTypes
    <2>5. Append(pageList, c.node) \in Seq(Nodes)  BY <1>3, <2>4, AppendProperties
    <2>6. Append(PageList, x) \in Seq([node : Nodes, Parent : Nodes \cup {Null}])
      BY <2>3, <2>4, AppendProperties, Zenon
    <2> QED  BY <2>2, <2>4, <2>5, <2>6, Zenon
  <1>9. doc' \in Document /\ loads' \in Nat  BY <1>2 DEF TreeTypes
  <1> QED  BY <1>2, <1>4, <1>5, <1>6, <1>7, <1>8, <1>9, Zenon DEF TreeTypes

\* A step of the walk keeps the lists as they have to be.
LEMMA StepKeeps ==
    ASSUME TreeConstants, TreeTypes, Aligned, Once, FormInv, buildPageList
    PROVE  TreeTypes' /\ Aligned' /\ Once' /\ FormInv'
  <1>1. PICK c : c = Head(stack)  OBVIOUS
  <1>2. phase = "walk" /\ stack # <<>> /\ doc' = doc /\ loads' = loads /\ formDict' = formDict
    BY DEF buildPageList
  <1>3. /\ phase' \in {"walk", "failed", "hung"}
        /\ phase' # "hung" => State' = StepOf(doc, State)
        /\ phase' = "failed" => stack' = <<>>
        /\ traversed \subseteq traversed'
    BY <1>1, StepFollows, Zenon
  <1>4. PICK x : x = [node |-> c.node, Parent |-> parent[c.node]]  BY Zenon
  <1>5. \/ pageList' = pageList /\ PageList' = PageList
        \/ /\ c.node \notin traversed /\ c.node \in Nodes /\ traversed' = traversed \cup {c.node}
           /\ pageList' = Append(pageList, c.node) /\ PageList' = Append(PageList, x)
    BY <1>1, <1>4, StepFollows, Zenon
  <1>6. TreeTypes'  BY StepTypes
  <1>7. /\ pageList \in Seq(Nodes) /\ Len(pageList) \in Nat /\ loads \in Nat
        /\ PageList \in Seq([node : Nodes, Parent : Nodes \cup {Null}]) /\ Len(PageList) \in Nat
    BY LenProperties DEF TreeTypes
  <1>8. x.node = c.node  BY <1>4
  <1>9. ASSUME pageList' = Append(pageList, c.node), PageList' = Append(PageList, x)
        PROVE  /\ Len(pageList') = Len(pageList) + 1 /\ Len(PageList') = Len(PageList) + 1
               /\ pageList'[Len(pageList) + 1] = c.node /\ PageList'[Len(PageList) + 1] = x
               /\ \A i \in 1 .. Len(pageList) : pageList'[i] = pageList[i]
               /\ \A i \in 1 .. Len(PageList) : PageList'[i] = PageList[i]
               /\ \A i \in 1 .. Len(pageList') : i \in 1 .. Len(pageList) \/ i = Len(pageList) + 1
    BY <1>7, <1>9
  <1>10. Aligned'
    <2>1. loads # 0 /\ Walked(doc, State)  BY <1>2 DEF Aligned
    <2>2. ASSUME phase' # "hung" PROVE Walked(doc, State)'
      <3>1. PICK s, t : s = State /\ t = StepOf(doc, s)  OBVIOUS
      <3>2. s.stack # <<>>  BY <1>2, <3>1 DEF State
      <3>3. State' = t  BY ZenonT(30), <1>3, <2>2, <3>1
      <3>4. t.pages \in Seq(Nodes)
        <4>1. State'.pages = pageList'  BY DEF State
        <4> QED  BY <1>6, <3>3, <4>1 DEF TreeTypes
      <3>5. Walked(doc, t)  BY ZenonT(30), <2>1, <3>1, <3>2, <3>4, WalkGoesOn
      <3> QED  BY <1>2, <3>3, <3>5
    <2>3. ASSUME loads = 1
          PROVE  /\ Len(pageList') = Len(PageList')
                 /\ \A i \in 1 .. Len(pageList') : PageList'[i].node = pageList'[i]
      <3>1. /\ Len(pageList) = Len(PageList)
            /\ \A i \in 1 .. Len(pageList) : PageList[i].node = pageList[i]
        BY <2>3 DEF Aligned
      <3>2. CASE pageList' = pageList /\ PageList' = PageList  BY <3>1, <3>2
      <3>3. CASE pageList' = Append(pageList, c.node) /\ PageList' = Append(PageList, x)
        BY Zenon, <1>8, <1>9, <3>1, <3>3
      <3> QED  BY <1>5, <3>2, <3>3
    <2>4. ASSUME loads > 1
          PROVE  \E s : /\ Walked(doc, s) /\ s.stack = <<>>
                        /\ s.pages \in Seq(Nodes) /\ Len(s.pages) <= Len(PageList')
                        /\ \A i \in 1 .. Len(s.pages) : PageList'[i].node = s.pages[i]
      <3>1. PICK s : /\ Walked(doc, s) /\ s.stack = <<>>
                     /\ s.pages \in Seq(Nodes) /\ Len(s.pages) <= Len(PageList)
                     /\ \A i \in 1 .. Len(s.pages) : PageList[i].node = s.pages[i]
        BY <2>4, Zenon DEF Aligned
      <3>2. CASE PageList' = PageList  BY <3>1, <3>2
      <3>3. CASE pageList' = Append(pageList, c.node) /\ PageList' = Append(PageList, x)
        <4>1. Len(s.pages) \in Nat  BY <3>1, LenProperties
        <4>2. /\ Len(s.pages) <= Len(PageList')
              /\ \A i \in 1 .. Len(s.pages) : PageList'[i].node = s.pages[i]
          <5>1. Len(s.pages) <= Len(PageList')  BY <1>7, <1>9, <3>1, <3>3, <4>1
          <5>2. \A i \in 1 .. Len(s.pages) : i \in 1 .. Len(PageList)  BY <1>7, <3>1, <4>1
          <5> QED  BY Zenon, <1>9, <3>1, <3>3, <5>1, <5>2
        <4> QED  BY <3>1, <4>2
      <3> QED  BY <1>5, <3>2, <3>3
    <2> QED  BY <1>2, <1>3, <2>1, <2>2, <2>3, <2>4, Zenon DEF Aligned
  <1>11. Once'
    <2>1. CASE pageList' = pageList  BY <1>3, <2>1 DEF Once
    <2>2. CASE /\ c.node \notin traversed /\ traversed' = traversed \cup {c.node}
               /\ pageList' = Append(pageList, c.node) /\ PageList' = Append(PageList, x)
      <3>1. \A i \in 1 .. Len(pageList) : pageList[i] \in traversed /\ pageList[i] # c.node
        BY <2>2 DEF Once
      <3>2. \A i, j \in 1 .. Len(pageList) : pageList[i] = pageList[j] => i = j  BY DEF Once
      <3>3. \A i \in 1 .. Len(pageList') :
               \/ i \in 1 .. Len(pageList) /\ pageList'[i] = pageList[i]
               \/ i = Len(pageList) + 1 /\ pageList'[i] = c.node
        BY Zenon, <1>9, <2>2
      <3>4. \A i \in 1 .. Len(pageList') : pageList'[i] \in traversed'  BY Zenon, <2>2, <3>1, <3>3
      <3>5. \A i, j \in 1 .. Len(pageList') : pageList'[i] = pageList'[j] => i = j
        BY Zenon, <3>1, <3>2, <3>3
      <3> QED  BY Zenon, <3>4, <3>5 DEF Once
    <2> QED  BY <1>5, <2>1, <2>2
  <1>12. FormInv'  BY Zenon, <1>2, <1>3 DEF FormInv, FormLoaded
  <1> QED  BY <1>6, <1>10, <1>11, <1>12

\* The rest of loadStructure leaves the lists alone.
LEMMA FinishKeeps ==
    ASSUME TreeConstants, TreeTypes, Aligned, Once, FormInv, FinishLoad
    PROVE  TreeTypes' /\ Aligned' /\ Once' /\ FormInv'
  <1>1. /\ phase = "walk" /\ stack = <<>> /\ phase' \in {"ready", "failed"}
        /\ doc' = doc /\ type' = type /\ parent' = parent /\ stack' = stack
        /\ traversed' = traversed /\ pageList' = pageList /\ PageList' = PageList /\ loads' = loads
    BY DEF FinishLoad
  <1>2. TreeTypes'  BY <1>1, Zenon DEF TreeTypes
  <1>3. Aligned'
    <2>1. State' = State  BY <1>1 DEF State
    <2> QED  BY <1>1, <2>1 DEF Aligned
  <1>4. Once'  BY <1>1 DEF Once
  <1>5. FormInv'
    <2>1. loads # 0  BY <1>1 DEF Aligned
    <2>2. loads = 1 => formDict = "full"  BY <1>1 DEF FormInv
    <2>3. phase' = "ready" /\ doc.form => AcroForm' = formDict  BY DEF FinishLoad
    <2> QED  BY ZenonT(30), <1>1, <2>1, <2>2, <2>3 DEF FormInv, FormLoaded
  <1> QED  BY <1>2, <1>3, <1>4, <1>5

\* All of it stays, whatever is called next.
LEMMA TreeInvariant ==
    ASSUME TreeConstants PROVE Spec => [](TreeTypes /\ Aligned /\ Once /\ FormInv)
  <1>1. Init => TreeTypes /\ Aligned /\ Once /\ FormInv  BY TreeInit
  <1>2. TreeTypes /\ Aligned /\ Once /\ FormInv /\ [Next]_vars
          => (TreeTypes /\ Aligned /\ Once /\ FormInv)'
    <2> SUFFICES ASSUME TreeTypes, Aligned, Once, FormInv, [Next]_vars
                 PROVE  TreeTypes' /\ Aligned' /\ Once' /\ FormInv'
      OBVIOUS
    <2>1. CASE NewPdfReader
      <3>1. CASE StartLoad  BY <2>1, <3>1, StartKeeps DEF NewPdfReader
      <3>2. CASE phase' = "locked" /\ UNCHANGED <<doc, type, parent, formDict, stack, traversed, pageList, PageList, AcroForm, loads>>
        <4>1. phase = "closed" /\ loads = 0 /\ pageList = <<>> /\ PageList = <<>>
          BY <2>1 DEF NewPdfReader, Aligned
        <4>2. TreeTypes'  BY <3>2 DEF TreeTypes
        <4>3. Aligned'  BY <3>2, <4>1 DEF Aligned
        <4>4. Once'  BY <3>2 DEF Once
        <4>5. FormInv'  BY <3>2, <4>1 DEF FormInv, FormLoaded
        <4> QED  BY <4>2, <4>3, <4>4, <4>5
      <3> QED  BY <2>1, <3>1, <3>2 DEF NewPdfReader
    <2>2. CASE Decrypt  BY <2>2, StartKeeps DEF Decrypt
    <2>3. CASE buildPageList  BY <2>3, StepKeeps
    <2>4. CASE FinishLoad  BY ZenonT(30), <2>4, FinishKeeps
    <2>5. CASE UNCHANGED vars
      <3>1. /\ doc' = doc /\ phase' = phase /\ type' = type /\ parent' = parent /\ formDict' = formDict
            /\ stack' = stack /\ traversed' = traversed /\ pageList' = pageList
            /\ PageList' = PageList /\ AcroForm' = AcroForm /\ loads' = loads
        BY <2>5 DEF vars
      <3>2. TreeTypes'  BY <3>1 DEF TreeTypes
      <3>3. Aligned'
        <4>1. State' = State  BY <3>1 DEF State
        <4> QED  BY <3>1, <4>1 DEF Aligned
      <3>4. Once'  BY <3>1 DEF Once
      <3>5. FormInv'  BY <3>1 DEF FormInv, FormLoaded
      <3> QED  BY <3>2, <3>3, <3>4, <3>5
    <2> QED  BY ZenonT(30), <2>1, <2>2, <2>3, <2>4, <2>5 DEF Next, Walk
  <1> QED  BY <1>1, <1>2, PTL DEF Spec

\* However the Kids arrays refer to one another, and however often the document is loaded,
\* buildPageList lists no page twice.
THEOREM PageListedOnceAlways == ASSUME TreeConstants PROVE Spec => []PageListedOnce
  <1>1. TreeTypes /\ Once => PageListedOnce
    <2> SUFFICES ASSUME TreeTypes, Once PROVE PageListedOnce  OBVIOUS
    <2>1. DOMAIN pageList = 1 .. Len(pageList)  BY DEF TreeTypes
    <2> QED  BY <2>1 DEF Once, PageListedOnce
  <1> QED  BY <1>1, TreeInvariant, PTL

\* For a page tree of any shape and any number of calls of Decrypt, failed loads among them,
\* GetPage gives the page that the page list of the last load has at the place.
THEOREM ListsAlignedAlways == ASSUME TreeConstants PROVE Spec => []ListsAligned
  <1>1. TreeTypes /\ Aligned => ListsAligned
    <2> SUFFICES ASSUME TreeTypes, Aligned PROVE ListsAligned  OBVIOUS
    <2>1. DOMAIN pageList = 1 .. Len(pageList) /\ Len(pageList) \in Nat /\ loads \in Nat
      BY LenProperties DEF TreeTypes
    <2>2. ASSUME phase \in {"ready", "failed"}
          PROVE  /\ Len(pageList) <= Len(PageList)
                 /\ \A i \in 1 .. Len(pageList) : PageList[i].node = pageList[i]
      <3>1. loads # 0 /\ Walked(doc, State)  BY <2>2 DEF Aligned
      <3>2. CASE loads = 1
        <4>1. /\ Len(pageList) = Len(PageList)
              /\ \A i \in 1 .. Len(pageList) : PageList[i].node = pageList[i]
          BY <3>2 DEF Aligned
        <4> QED  BY <2>1, <4>1
      <3>3. CASE loads > 1
        <4>1. PICK s : /\ Walked(doc, s) /\ s.stack = <<>>
                       /\ s.pages \in Seq(Nodes) /\ Len(s.pages) <= Len(PageList)
                       /\ \A i \in 1 .. Len(s.pages) : PageList[i].node = s.pages[i]
          BY <3>3, Zenon DEF Aligned
        <4>2. PICK t : t = State  OBVIOUS
        <4>3. t.pages = pageList  BY <4>2 DEF State
        <4>4. /\ Len(t.pages) <= Len(s.pages)
              /\ \A i \in 1 .. Len(t.pages) : s.pages[i] = t.pages[i]
          BY <3>1, <4>1, <4>2, PagesBegin
        <4>5. Len(s.pages) \in Nat /\ Len(PageList) \in Nat  BY <4>1, LenProperties DEF TreeTypes
        <4> QED  BY <2>1, <4>1, <4>3, <4>4, <4>5
      <3> QED  BY <2>1, <3>1, <3>2, <3>3
    <2>3. loads = 1 => Len(pageList) = Len(PageList)  BY DEF Aligned
    <2> QED  BY <2>1, <2>2, <2>3 DEF ListsAligned, GetPage
  <1> QED  BY <1>1, TreeInvariant, PTL

\* For every document, the first load that is through has the fields of the form.
THEOREM FormLoadedAlways == ASSUME TreeConstants PROVE Spec => []FormLoaded
  <1>1. FormInv => FormLoaded  BY DEF FormInv
  <1> QED  BY <1>1, TreeInvariant, PTL
=============================================================================

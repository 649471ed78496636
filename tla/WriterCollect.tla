---------------------------- MODULE WriterCollect ----------------------------
(***************************************************************************)
(* Which objects PdfWriter of model/writer.go writes: AddPage and the      *)
(* catalog setters collect the objects that a page or an entry leads to    *)
(* (addObject, addObjects), and Write drops references to parents that     *)
(* were never collected, copies the objects (copyObjects) and leaves out   *)
(* pages that were not added, with what lies below them.                   *)
(*                                                                         *)
(* An object stands for an indirect object or stream with the direct       *)
(* objects in it; its references are resolved.  Both traversals are        *)
(* recursive and are modelled by the stack of their running calls.  The    *)
(* writer is a new document's (not in append mode) and writes once.        *)
(***************************************************************************)
EXTENDS Integers, Sequences, FiniteSets, Functions

CONSTANTS
    Nodes,          \* the objects of the document that pages are taken from
    OldPages,       \* the node of its page tree that is the parent of its pages
    Documents,      \* the documents
    CatalogEntries, \* what may be set as a catalog entry
    MaxAdds,        \* bound: how often AddPage is called
    Root, Pages, Null

Objects == Nodes \cup {OldPages, Root, Pages}

\* A document: its pages, what every object refers to in the order of its keys,
\* its Parent entry, and the resources that pages without any inherit.
Document == [page : SUBSET Nodes, refs : [Nodes -> Seq(Nodes)],
             parent : [Nodes -> Nodes \cup {OldPages, Null}],
             bare : SUBSET Nodes, inherited : Seq(Nodes)]

VARIABLES
    doc,            \* the source document; never written
    refs,           \* what the objects refer to now
    parent,         \* their Parent entries now
    objects,        \* w.objects, with objectsMap the set of its members
    pagesMap,       \* w.pagesMap
    pendingObjects, \* w.pendingObjects: pairs of a parent and an object that has it
    outline,        \* w.outlineTree, which Write adds, or Null
    pc,             \* "open", "add", "write", "copy" or "done"
    stack,          \* the running calls of addObjects or copyObject, innermost first
    copied,         \* the domain of objectToObjectCopyMap
    skipMap,        \* skipMap
    visit,          \* how many of the objects copyObjects has asked copies of
    output          \* the objects that are written

collectVars == <<doc, refs, parent, objects, pagesMap, pendingObjects, outline, pc, stack, copied, skipMap, visit, output>>

Frame == [n : Objects, i : Nat, skip : BOOLEAN]

CollectTypeOK ==
    /\ \A n \in Objects : Range(refs[n]) \subseteq Objects /\ parent[n] \in Objects \cup {Null}
    /\ Range(objects) \subseteq Objects /\ IsInjective(objects)
    /\ pagesMap \subseteq doc.page
    /\ \A p \in pendingObjects : p[1] \in Objects /\ p[2] \in Nodes
    /\ pc \in {"open", "add", "write", "copy", "done"}
    /\ \A i \in DOMAIN stack : stack[i] \in Frame
    /\ copied \subseteq Objects /\ skipMap \subseteq copied
    /\ visit \in 0 .. Len(objects)
    /\ Range(output) \subseteq Range(objects)

-----------------------------------------------------------------------------
\* NewPdfWriter: the catalog refers to an empty page tree.  The document is lazy
\* or not; addObject resolves what it has left.
CollectInit ==
    /\ doc \in Documents
    /\ refs = [n \in Objects |-> CASE n \in Nodes -> doc.refs[n]
                                   [] n = OldPages -> doc.inherited
                                   [] n = Root -> <<Pages>>
                                   [] n = Pages -> <<>>]
    /\ parent = [n \in Objects |-> IF n \in Nodes THEN doc.parent[n] ELSE Null]
    /\ objects = <<Root, Pages>>
    /\ pagesMap = {} /\ pendingObjects = {} /\ outline = Null
    /\ pc = "open" /\ stack = <<>>
    /\ copied = {} /\ skipMap = {} /\ visit = 0 /\ output = <<>>

hasObject(n) == n \in Range(objects)

Call(n, skip) == [n |-> n, i |-> 1, skip |-> skip]

\* The Parent of an object that is traversed is not followed; if it has not been
\* collected the object is remembered.
Pending(par, n) == IF par # Null /\ ~hasObject(par) THEN {<<par, n>>} ELSE {}

Advance == [Head(stack) EXCEPT !.i = @ + 1]

\* AddPage: the page takes over what it inherits, is hung under the new tree and
\* is collected, with all it refers to.
AddPage ==
    /\ pc = "open" /\ Len(refs[Pages]) < MaxAdds
    /\ \E p \in doc.page :
         /\ refs' = [refs EXCEPT ![p] = IF p \in doc.bare /\ parent[p] = OldPages
                                        THEN @ \o doc.inherited ELSE @,
                                 ![Pages] = Append(@, p)]
         /\ parent' = [parent EXCEPT ![p] = Pages]
         /\ pagesMap' = pagesMap \cup {p}
         /\ objects' = IF hasObject(p) THEN objects ELSE Append(objects, p)
         /\ stack' = <<Call(p, FALSE)>>
    /\ pc' = "add"
    /\ UNCHANGED <<doc, pendingObjects, outline, copied, skipMap, visit, output>>

\* SetNamedDestinations, SetPageLabels, SetOCProperties: the entry is set and
\* collected.
SetCatalogEntry ==
    /\ pc = "open"
    /\ \E n \in CatalogEntries \ Range(refs[Root]) :
         /\ refs' = [refs EXCEPT ![Root] = Append(@, n)]
         /\ IF hasObject(n) THEN UNCHANGED <<objects, pendingObjects, stack, pc>>
            ELSE /\ objects' = Append(objects, n)
                 /\ pendingObjects' = pendingObjects \cup Pending(parent[n], n)
                 /\ stack' = <<Call(n, FALSE)>> /\ pc' = "add"
    /\ UNCHANGED <<doc, parent, pagesMap, outline, copied, skipMap, visit, output>>

\* AddOutlineTree, SetForms: the entry is left to Write.
AddOutlineTree ==
    /\ pc = "open"
    /\ outline' \in CatalogEntries
    /\ UNCHANGED <<doc, refs, parent, objects, pagesMap, pendingObjects, pc, stack, copied, skipMap, visit, output>>

\* addObjects: the next reference of the object on top.
Collect ==
    /\ pc \in {"add", "write"} /\ stack # <<>>
    /\ LET f == Head(stack)
       IN  IF f.i > Len(refs[f.n])
           THEN stack' = Tail(stack) /\ UNCHANGED <<objects, pendingObjects>>
           ELSE LET n == refs[f.n][f.i]
                IN  IF hasObject(n)
                    THEN stack' = <<Advance>> \o Tail(stack) /\ UNCHANGED <<objects, pendingObjects>>
                    ELSE /\ objects' = Append(objects, n)
                         /\ pendingObjects' = pendingObjects \cup Pending(parent[n], n)
                         /\ stack' = <<Call(n, FALSE), Advance>> \o Tail(stack)
    /\ UNCHANGED <<doc, refs, parent, pagesMap, outline, pc, copied, skipMap, visit, output>>

Collected ==
    /\ pc = "add" /\ stack = <<>>
    /\ pc' = "open"
    /\ UNCHANGED <<doc, refs, parent, objects, pagesMap, pendingObjects, outline, stack, copied, skipMap, visit, output>>

-----------------------------------------------------------------------------
\* Write: the outlines and the form are set and collected first.
Write ==
    /\ pc = "open"
    /\ pc' = "write"
    /\ IF outline = Null \/ outline \in Range(refs[Root])
       THEN UNCHANGED <<refs, objects, pendingObjects, stack>>
       ELSE /\ refs' = [refs EXCEPT ![Root] = Append(@, outline)]
            /\ IF hasObject(outline) THEN UNCHANGED <<objects, pendingObjects, stack>>
               ELSE /\ objects' = Append(objects, outline)
                    /\ pendingObjects' = pendingObjects \cup Pending(parent[outline], outline)
                    /\ stack' = <<Call(outline, FALSE)>>
    /\ UNCHANGED <<doc, parent, pagesMap, outline, copied, skipMap, visit, output>>

\* The Parent entries that are replaced by null: those remembered for a parent
\* that has not been collected and that they still name.
Orphaned(n) == <<parent[n], n>> \in pendingObjects /\ ~hasObject(parent[n])

CheckPending ==
    /\ pc = "write" /\ stack = <<>>
    /\ parent' = [n \in Objects |-> IF Orphaned(n) THEN Null ELSE parent[n]]
    /\ pc' = "copy"
    /\ UNCHANGED <<doc, refs, objects, pagesMap, pendingObjects, outline, stack, copied, skipMap, visit, output>>

\* Variant: every page counts as added.
Unused_Never(n) == FALSE

\* A page that is not the writer's is copied as null.
Unused(n) == n \in doc.page /\ n \notin pagesMap

\* What the copy of an object asks copies of, the Parent entry first.
Below(n) == (IF parent[n] = Null THEN <<>> ELSE <<parent[n]>>) \o refs[n]

\* The copy is in objectToObjectCopyMap.
Known(n) == n \in copied

\* copyObjects asks for a copy of the next object of the list.
CopyNext ==
    /\ pc = "copy" /\ stack = <<>> /\ visit < Len(objects)
    /\ LET n == objects[visit + 1]
       IN  /\ visit' = visit + 1
           /\ IF n \in copied
              THEN /\ output' = IF n \in skipMap THEN output ELSE Append(output, n)
                   /\ UNCHANGED <<stack, copied>>
              ELSE /\ stack' = <<Call(n, FALSE)>>
                   /\ copied' = copied \cup {n}
                   /\ output' = Append(output, n)
    /\ UNCHANGED <<doc, refs, parent, objects, pagesMap, pendingObjects, outline, pc, skipMap>>

\* copyObject: the next reference of the object on top, or its end, where it is
\* put into the skip map if it was asked for below an unused page.
Copy ==
    /\ pc = "copy" /\ stack # <<>>
    /\ LET f == Head(stack)
       IN  IF f.i > Len(Below(f.n))
           THEN /\ stack' = Tail(stack)
                /\ skipMap' = IF f.skip THEN skipMap \cup {f.n} ELSE skipMap
                /\ UNCHANGED copied
           ELSE LET n == Below(f.n)[f.i]
                IN  /\ IF Known(n) THEN stack' = <<Advance>> \o Tail(stack)
                       ELSE stack' = <<Call(n, f.skip \/ Unused(f.n)), Advance>> \o Tail(stack)
                    /\ copied' = copied \cup {n}
                    /\ UNCHANGED skipMap
    /\ UNCHANGED <<doc, refs, parent, objects, pagesMap, pendingObjects, outline, pc, visit, output>>

Written ==
    /\ pc = "copy" /\ stack = <<>> /\ visit = Len(objects)
    /\ pc' = "done"
    /\ UNCHANGED <<doc, refs, parent, objects, pagesMap, pendingObjects, outline, stack, copied, skipMap, visit, output>>

CollectNext == \/ AddPage \/ SetCatalogEntry \/ AddOutlineTree \/ Collect \/ Collected
        \/ Write \/ CheckPending \/ CopyNext \/ Copy \/ Written

CollectSpec == CollectInit /\ [][CollectNext]_collectVars

-----------------------------------------------------------------------------
\* What a set of objects leads to, not passing objects of the set cut: the least
\* set that contains them and what its objects, but those in cut, refer to.
Closure(S, cut) ==
    {m \in Objects : \A T \in SUBSET Objects :
        (S \subseteq T /\ \A n \in T \ cut : Range(Below(n)) \subseteq T) => m \in T}

UnusedPages == doc.page \ pagesMap
BelowUnused == Closure(UNION {Range(Below(n)) : n \in UnusedPages}, {})

\* A call that copies or collects an object never runs twice at a time, so the
\* recursion of addObjects and copyObject is bounded by the number of objects.
RecursionBounded == \A i, k \in DOMAIN stack : stack[i].n = stack[k].n => i = k

\* The written document is closed: an object that is written refers only to
\* objects that are written, except to those that a page left out reaches too.
\* (A page left out is written as null and refers to nothing.)
ReferencesWritten ==
    pc = "done" => \A n \in Range(output) \ UnusedPages : \A m \in Range(Below(n)) :
                      m \in Range(output) \cup BelowUnused

\* Nothing is written that only pages left out lead to.
UnusedContentDropped ==
    pc = "done" => Range(output) \subseteq Closure({Root}, UnusedPages)

\* What writing some of the pages of a document promises: the recursion ends, no
\* reference to an object left out remains, and nothing superfluous is written.
CollectedWhole == RecursionBounded /\ ReferencesWritten /\ UnusedContentDropped

\* "AddPage adds a page to the PDF file" (comment of AddPage): the pages added
\* are among the objects written.
AddedPagesWritten == pc = "done" => pagesMap \subseteq Range(output)
=============================================================================

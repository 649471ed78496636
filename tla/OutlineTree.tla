---------------------------- MODULE OutlineTree ----------------------------
(***************************************************************************)
(* The outlines of a document: PdfReader.buildOutlineTree makes a tree of  *)
(* nodes of the outline dictionaries (model/reader.go, model/outlines.go), *)
(* GetOutlines and GetOutlinesFlattened read it, Outline.Add and Insert    *)
(* edit what GetOutlines returns, and ToPdfOutline and ToPdfObject make    *)
(* dictionaries of it again (model/outline.go), which a reader may load.   *)
(* A dictionary has a Title or not, First and Next, and a destination; the *)
(* recursion is a stack of the calls that are running.                     *)
(***************************************************************************)
EXTENDS Integers, Sequences, SequencesExt, FiniteSets, FiniteSetsExt

CONSTANTS
    Null,       \* an absent entry
    NumPages,   \* the pages of the document
    Documents,  \* outline dictionaries: sequences, the first of which is the root
    NewItem,    \* the destination of an item that is inserted
    MaxStack,   \* bound: the deepest recursion that is explored
    MaxRounds   \* bound: how often the outlines are written and read again

VARIABLES
    doc,      \* the outline dictionaries
    stack,    \* the running calls of buildOutlineTree, innermost first
    visited,  \* visited
    nodes,    \* the PdfOutline and PdfOutlineItem nodes made, in order
    ret,      \* what the last call has returned: node, last node and error
    phase,    \* "build", "built", "edit" or, beyond MaxStack, "deep"
    outline,  \* what GetOutlines has returned, edited since
    rounds    \* writes so far

vars == <<doc, stack, visited, nodes, ret, phase, outline, rounds>>

Call(obj, parent, prev) == [obj |-> obj, parent |-> parent, prev |-> prev, node |-> 0, at |-> "enter"]
NoNode == [node |-> 0, last |-> 0, err |-> FALSE]

Init ==
    /\ doc \in Documents
    /\ stack = <<Call(1, 0, 0)>> /\ visited = {} /\ nodes = <<>> /\ ret = NoNode
    /\ phase = "build" /\ outline = <<>> /\ rounds = 0

Top == Head(stack)
Goto(at) == stack' = <<[Top EXCEPT !.at = at]>> \o Tail(stack)
Descend(at, call) == stack' = <<call, [Top EXCEPT !.at = at]>> \o Tail(stack)
Return(node, last, err) == stack' = Tail(stack) /\ ret' = [node |-> node, last |-> last, err |-> err]

\* The object is marked, and a node made of its dictionary; an object that is
\* not a dictionary, or a bad one, is an error.
Enter ==
    /\ Top.at = "enter"
    /\ visited' = visited \cup {Top.obj}
    /\ IF ~doc[Top.obj].good
       THEN Return(0, 0, TRUE) /\ UNCHANGED nodes
       ELSE /\ nodes' = Append(nodes, [obj |-> Top.obj, isItem |-> doc[Top.obj].title,
                                       parent |-> Top.parent, first |-> 0, last |-> 0, next |-> 0,
                                       prev |-> IF doc[Top.obj].title THEN Top.prev ELSE 0])
            /\ stack' = <<[Top EXCEPT !.at = "first", !.node = Len(nodes) + 1]>> \o Tail(stack)
            /\ UNCHANGED ret

\* The children.  Those of a dictionary without a Title are built whether or not
\* their first has been visited.
First ==
    /\ Top.at = "first"
    /\ LET first == doc[Top.obj].first
       IN  IF first # Null /\ (doc[Top.obj].title => first \notin visited)
           THEN Descend("gotFirst", Call(first, Top.node, 0)) /\ UNCHANGED ret
           ELSE IF doc[Top.obj].title THEN Goto("next") /\ UNCHANGED ret
           ELSE Return(Top.node, Top.node, FALSE)
    /\ UNCHANGED <<visited, nodes>>

\* Variant: children that could not be built are tried again.
GotFirst_Retry ==
    /\ Top.at = "gotFirst"
    /\ nodes' = IF ret.err THEN nodes
                ELSE [nodes EXCEPT ![Top.node].first = ret.node, ![Top.node].last = ret.last]
    /\ IF doc[Top.obj].title \/ ret.err THEN Goto(IF ret.err THEN "first" ELSE "next") /\ UNCHANGED ret
       ELSE Return(Top.node, Top.node, FALSE)
    /\ UNCHANGED visited

GotFirst ==
    /\ Top.at = "gotFirst"
    /\ nodes' = IF ret.err THEN nodes
                ELSE [nodes EXCEPT ![Top.node].first = ret.node, ![Top.node].last = ret.last]
    /\ IF doc[Top.obj].title THEN Goto("next") /\ UNCHANGED ret
       ELSE Return(Top.node, Top.node, FALSE)
    /\ UNCHANGED visited

\* The item after this one.
NextItem ==
    /\ Top.at = "next"
    /\ LET next == doc[Top.obj].next
       IN  IF next # Null /\ next \notin visited
           THEN Descend("gotNext", Call(next, Top.parent, Top.node)) /\ UNCHANGED ret
           ELSE Return(Top.node, Top.node, FALSE)
    /\ UNCHANGED <<visited, nodes>>

GotNext ==
    /\ Top.at = "gotNext"
    /\ nodes' = IF ret.err THEN nodes ELSE [nodes EXCEPT ![Top.node].next = ret.node]
    /\ Return(Top.node, IF ret.err THEN Top.node ELSE ret.last, FALSE)
    /\ UNCHANGED visited

buildOutlineTree ==
    /\ phase = "build" /\ stack # <<>>
    /\ IF Len(stack) > MaxStack
       THEN phase' = "deep" /\ UNCHANGED <<stack, visited, nodes, ret>>
       ELSE (Enter \/ First \/ GotFirst \/ NextItem \/ GotNext) /\ UNCHANGED phase
    /\ UNCHANGED <<doc, outline, rounds>>

-----------------------------------------------------------------------------
\* newOutlineDestFromPdfObject: the page, given as an object or by its index,
\* and the parameters of the mode.  A mode that is not known becomes Fit, and so
\* does FitR; XYZ with too few parameters has none.
NoDest == [PageObj |-> 0, Page |-> 0, Mode |-> "", X |-> 0, Y |-> 0, Zoom |-> 0]
newOutlineDest(a) ==
    LET obj == IF a.page[1] = "obj" THEN a.page[2]
               ELSE IF a.page[2] \in 0 .. NumPages - 1 THEN a.page[2] + 1 ELSE 0
        num == IF a.page[1] = "int" THEN a.page[2]
               ELSE IF obj \in 1 .. NumPages THEN obj - 1 ELSE 0
        par(i) == IF i <= Len(a.params) THEN a.params[i] ELSE 0
        known == a.mode \in {"Fit", "FitB", "FitH", "FitBH", "FitV", "FitBV", "XYZ"}
        xyz == a.mode = "XYZ" /\ Len(a.params) >= 3
    IN  [PageObj |-> obj, Page |-> num, Mode |-> IF known THEN a.mode ELSE "Fit",
         X |-> IF a.mode \in {"FitV", "FitBV"} \/ xyz THEN par(1) ELSE 0,
         Y |-> IF a.mode \in {"FitH", "FitBH"} THEN par(1) ELSE IF xyz THEN par(2) ELSE 0,
         Zoom |-> IF xyz THEN par(3) ELSE 0]

\* OutlineDest.ToPdfObject.
DestToPdfObject(d) ==
    IF (d.PageObj = 0 /\ d.Page < 0) \/ d.Mode = "" THEN Null
    ELSE [page |-> IF d.PageObj # 0 THEN <<"obj", d.PageObj>> ELSE <<"int", d.Page>>, mode |-> d.Mode,
          params |-> CASE d.Mode \in {"FitH", "FitBH"} -> <<d.Y>>
                       [] d.Mode \in {"FitV", "FitBV"} -> <<d.X>>
                       [] d.Mode = "XYZ" -> <<d.X, d.Y, d.Zoom>>
                       [] OTHER -> <<>>]

\* The destination of an item: Dest, or the D of its action.
DestOf(o) ==
    LET a == IF o.dest # Null THEN o.dest ELSE o.action
    IN  IF a = Null THEN NoDest ELSE newOutlineDest(a)

\* traverseFunc of GetOutlines: items and, in the place of a node that is no
\* item, its children.
RECURSIVE Traverse(_)
Traverse(k) ==
    IF k = 0 THEN <<>>
    ELSE IF nodes[k].isItem
         THEN <<[title |-> nodes[k].obj, dest |-> DestOf(doc[nodes[k].obj]), entries |-> Traverse(nodes[k].first)]>>
                \o Traverse(nodes[k].next)
         ELSE Traverse(nodes[k].first)
GetOutlines == IF ret.err THEN <<>> ELSE Traverse(ret.node)

\* flattenFunc of GetOutlinesFlattened.
RECURSIVE Flatten(_)
Flatten(k) ==
    IF k = 0 THEN <<>>
    ELSE (IF nodes[k].isItem THEN <<nodes[k].obj>> ELSE <<>>) \o Flatten(nodes[k].first)
           \o (IF nodes[k].isItem THEN Flatten(nodes[k].next) ELSE <<>>)
GetOutlinesFlattened == IF ret.err THEN <<>> ELSE Flatten(ret.node)

Built ==
    /\ phase = "build" /\ stack = <<>>
    /\ phase' = "built" /\ outline' = GetOutlines
    /\ UNCHANGED <<doc, stack, visited, nodes, ret, rounds>>

\* Outline.Insert (Add is Insert at the end).
Insert(entries, index, item) ==
    LET i == IF index > Len(entries) THEN Len(entries) ELSE index
    IN  SubSeq(entries, 1, i) \o <<item>> \o SubSeq(entries, i + 1, Len(entries))

Edit ==
    /\ phase = "built" /\ phase' = "edit"
    /\ \E index \in 0 .. 3 :
         outline' = Insert(outline, index, [title |-> 0, dest |-> NewItem, entries |-> <<>>])
    /\ UNCHANGED <<doc, stack, visited, nodes, ret, rounds>>

\* The number of items of a list, those below them included.
RECURSIVE Size(_)
Size(entries) == IF entries = <<>> THEN 0 ELSE 1 + Size(Head(entries).entries) + Size(Tail(entries))

\* Variant: the descendants of the children are not counted.
Count_Children(entries) == Len(entries)
\* lenDescendants of ToPdfOutline and ToPdfOutlineItem.
Count(entries) == Size(entries)

\* ToPdfOutlineItem and ToPdfObject for the items of a list, whose dictionaries
\* get the numbers from base on: each item, then what is below it.
RECURSIVE ToItems(_, _, _, _)
ToItems(entries, base, parent, prev) ==
    IF entries = <<>> THEN <<>>
    ELSE LET e == Head(entries)
             below == Size(e.entries)
             lastAt == base + 1 + Size(Front(e.entries))
         IN  <<[title |-> TRUE, good |-> TRUE, dest |-> DestToPdfObject(e.dest), action |-> Null,
                first |-> IF below = 0 THEN Null ELSE base + 1,
                last |-> IF below = 0 THEN Null ELSE lastAt,
                next |-> IF Len(entries) = 1 THEN Null ELSE base + 1 + below,
                prev |-> prev, parent |-> parent,
                count |-> IF below = 0 THEN 0 ELSE Count(e.entries)]>>
               \o ToItems(e.entries, base + 1, base, Null)
               \o ToItems(Tail(entries), base + 1 + below, parent, base)

\* Outline.ToPdfOutline and ToPdfObject.
ToPdfOutline(entries) ==
    <<[title |-> FALSE, good |-> TRUE, dest |-> Null, action |-> Null, next |-> Null, prev |-> Null, parent |-> Null,
       first |-> IF entries = <<>> THEN Null ELSE 2,
       last |-> IF entries = <<>> THEN Null ELSE 2 + Size(Front(entries)),
       count |-> IF entries = <<>> THEN 0 ELSE Count(entries)]>>
      \o ToItems(entries, 2, 1, Null)

\* The outlines are written, and a reader loads them.
Rewrite ==
    /\ phase \in {"built", "edit"} /\ rounds < MaxRounds
    /\ doc' = ToPdfOutline(outline)
    /\ stack' = <<Call(1, 0, 0)>> /\ visited' = {} /\ nodes' = <<>> /\ ret' = NoNode
    /\ phase' = "build" /\ rounds' = rounds + 1
    /\ UNCHANGED outline

Build == buildOutlineTree \/ Built
Next == Build \/ Edit \/ Rewrite

\* A reader that has begun to build the tree goes on.
Spec == Init /\ [][Next]_vars /\ WF_vars(Build)

-----------------------------------------------------------------------------
TypeOK ==
    /\ phase \in {"build", "built", "edit", "deep"} /\ rounds \in 0 .. MaxRounds
    /\ visited \subseteq DOMAIN doc
    /\ \A i \in DOMAIN stack : stack[i].obj \in DOMAIN doc /\ stack[i].node \in 0 .. Len(nodes)
    /\ \A k \in DOMAIN nodes : {nodes[k].parent, nodes[k].first, nodes[k].next, nodes[k].prev} \subseteq 0 .. Len(nodes)
    /\ ret.node \in 0 .. Len(nodes) /\ ret.last \in 0 .. Len(nodes)

\* Following Next from k.
Siblings(k) ==
    LET step[i \in 1 .. Len(nodes)] ==
            IF i = 1 THEN <<k>>
            ELSE IF nodes[Last(step[i - 1])].next = 0 THEN step[i - 1]
            ELSE Append(step[i - 1], nodes[Last(step[i - 1])].next)
    IN  step[Len(nodes)]

\* Whatever the dictionaries refer to, cyclic or not, the nodes that have been
\* built hang together as the viewer of a written file would need: the children
\* of a node have it as their parent, Prev is the inverse of Next, and Last is
\* where Next from First ends.
LinksConsistent ==
    phase = "built" => \A k \in DOMAIN nodes : nodes[k].first # 0 =>
        LET s == Siblings(nodes[k].first)
        IN  /\ nodes[k].last = Last(s)
            /\ \A i \in DOMAIN s : nodes[s[i]].parent = k
            /\ \A i \in 2 .. Len(s) : nodes[s[i]].isItem => nodes[s[i]].prev = s[i - 1]

\* A chain of dictionaries without a Title whose First entries come round.
UntitledLoop ==
    \E o \in DOMAIN doc :
        LET down[i \in 0 .. Len(doc)] ==
                IF i = 0 THEN o
                ELSE IF down[i - 1] = Null THEN Null
                ELSE IF doc[down[i - 1]].title \/ ~doc[down[i - 1]].good THEN Null
                ELSE doc[down[i - 1]].first
        IN  down[Len(doc)] # Null

\* The titles of a list of entries, an item before the items under it.
RECURSIVE PreOrder(_)
PreOrder(entries) ==
    IF entries = <<>> THEN <<>>
    ELSE <<Head(entries).title>> \o PreOrder(Head(entries).entries) \o PreOrder(Tail(entries))

\* When only the root has no Title and is not its own First, no dictionary is built twice, and the list of
\* GetOutlinesFlattened has the items of GetOutlines in the same order.
BuiltOnce ==
    /\ ~UntitledLoop /\ (\A o \in DOMAIN doc \ {1} : doc[o].title) =>
         \A j, k \in DOMAIN nodes : nodes[j].obj = nodes[k].obj => j = k
    /\ phase = "built" => GetOutlinesFlattened = PreOrder(GetOutlines)

\* The entries without the numbers of their dictionaries.
RECURSIVE Shape(_)
Shape(entries) == [i \in DOMAIN entries |-> [dest |-> entries[i].dest, entries |-> Shape(entries[i].entries)]]

\* Outlines that were written are read back as they were, edits included, and
\* the Last, Prev, Parent and Count entries that the writer adds fit the tree.
\* Destinations with a negative page number are written as null.
WrittenReadBack ==
    rounds > 0 =>
        /\ phase = "build" /\ stack = <<>> => Shape(GetOutlines) = Shape(outline)
        /\ \A o \in DOMAIN doc :
             /\ doc[o].next # Null => doc[doc[o].next].prev = o /\ doc[doc[o].next].parent = doc[o].parent
             /\ doc[o].first # Null => doc[doc[o].first].parent = o /\ doc[doc[o].last].parent = o
             /\ doc[o].last # Null => doc[doc[o].last].next = Null
             /\ doc[o].count = Cardinality({p \in DOMAIN doc : \E q \in 1 .. Len(doc) : o < p /\
                    LET up[i \in 0 .. Len(doc)] == IF i = 0 THEN p ELSE IF up[i - 1] \in {Null, o} THEN up[i - 1] ELSE doc[up[i - 1]].parent
                    IN  q = Len(doc) /\ up[q] = o})

\* Building ends for every other outline: items that refer to items above or
\* before them are cut off by visited.
OutlineEnds == (phase = "build" /\ ~UntitledLoop) ~> phase = "built"
=============================================================================

---------------------------- MODULE AppenderPages ----------------------------
(***************************************************************************)
(* The page list of PdfAppender of model/appender.go: AddPages,            *)
(* RemovePage, ReplacePage, MergePageWith and Sign edit the list; Write    *)
(* compares it with the lists of the two readers, and keeps the page tree  *)
(* of the source or writes a new one.                                      *)
(*                                                                         *)
(* The appender reads its source twice, so a page of the source is two     *)
(* objects of one object number: the read-only one, which is never         *)
(* written, and the one of the reader, which is when it has changed.       *)
(* Other pages are copies with a number of their own.  The body of a page  *)
(* is the page it came from and what was added to it.                      *)
(***************************************************************************)
EXTENDS Integers, Sequences, Functions

CONSTANTS
    NumPages,   \* pages of the source document
    Foreign,    \* pages of other documents
    MaxOps      \* bound: edits before Write

Source == 1 .. NumPages

\* The pages that the appender may hold: those of roReader, those of Reader, and
\* copies, numbered by the edit that makes them.
Ro(i) == <<"ro", i>>
Rd(i) == <<"rd", i>>
Dup(n) == <<"dup", n>>
Page == {Ro(i) : i \in Source} \cup {Rd(i) : i \in Source} \cup {Dup(n) : n \in 1 .. MaxOps}

\* What a page shows: its origin, the pages merged into it, the signatures on it.
Body == [base : Source \cup Foreign, added : SUBSET (Foreign \cup (1 .. MaxOps))]

VARIABLES
    pages,      \* a.pages
    body,       \* the bodies of the pages that exist
    newObjects, \* the source pages whose objects of the reader are in a.newObjects
    ops,        \* edits done
    tree,       \* the page tree of the written document: a sequence of bodies
    done        \* Write has returned

pagesVars == <<pages, body, newObjects, ops, tree, done>>

PagesTypeOK ==
    /\ pages \in Seq(DOMAIN body)
    /\ DOMAIN body \subseteq Page
    /\ \A p \in DOMAIN body : body[p] \in Body
    /\ newObjects \subseteq Source
    /\ ops \in 0 .. MaxOps
    /\ tree \in Seq(Body)
    /\ done \in BOOLEAN

-----------------------------------------------------------------------------
Plain(b) == [base |-> b, added |-> {}]

\* NewPdfAppender: the pages of the read-only reader.
PagesInit ==
    /\ pages = [i \in Source |-> Ro(i)]
    /\ body = [p \in {Ro(i) : i \in Source} \cup {Rd(i) : i \in Source} |-> Plain(p[2])]
    /\ newObjects = {} /\ ops = 0 /\ tree = << >> /\ done = FALSE

Edit == /\ ~done /\ ops < MaxOps
        /\ ops' = ops + 1
        /\ UNCHANGED <<tree, done>>

\* Duplicate: a page with a dictionary and an object of its own.
New == Dup(ops + 1)
WithCopy(b) == [p \in DOMAIN body \cup {New} |-> IF p = New THEN b ELSE body[p]]

AddPages(f) ==
    /\ Edit
    /\ pages' = Append(pages, New)
    /\ body' = WithCopy(Plain(f))
    /\ UNCHANGED newObjects

RemovePage(n) ==
    /\ Edit
    /\ n \in DOMAIN pages
    /\ pages' = SubSeq(pages, 1, n - 1) \o SubSeq(pages, n + 1, Len(pages))
    /\ UNCHANGED <<body, newObjects>>

ReplacePage(n, f) ==
    /\ Edit
    /\ n \in DOMAIN pages
    /\ pages' = [pages EXCEPT ![n] = New]
    /\ body' = WithCopy(Plain(f))
    /\ UNCHANGED newObjects

\* The page is edited in place, unless it is one of the read-only reader's.
MergePageWith(n, f) ==
    /\ Edit
    /\ n \in DOMAIN pages
    /\ UNCHANGED newObjects
    /\ IF pages[n] \in {Ro(i) : i \in Source}
       THEN /\ pages' = [pages EXCEPT ![n] = New]
            /\ body' = WithCopy([body[pages[n]] EXCEPT !.added = @ \cup {f}])
       ELSE /\ body' = [body EXCEPT ![pages[n]].added = @ \cup {f}]
            /\ UNCHANGED pages

\* The signature's annotation is added to the page that the reader has at this
\* index; that page, now changed, becomes a new object, and is put there.
SignPage(n) ==
    /\ Edit
    /\ n \in DOMAIN pages
    /\ n \in Source     \* an index past the reader's pages panics
    /\ body' = [body EXCEPT ![Rd(n)].added = @ \cup {ops + 1}]
    /\ newObjects' = newObjects \cup {n}
    /\ pages' = [pages EXCEPT ![n] = Rd(n)]

\* As PagesChanged, but only the lengths of the lists are compared.
PagesChanged_Length == Len(pages) # NumPages

PagesChanged ==
    \/ Len(pages) # NumPages
    \/ \E i \in Source : pages[i] # Ro(i) /\ pages[i] # Rd(i)

\* What the object with the number of page p shows in the new revision.
Shown(p) == IF p[1] = "dup" THEN body[p]
            ELSE IF p[2] \in newObjects THEN body[Rd(p[2])] ELSE Plain(p[2])

\* The source's tree, or one with the listed pages as its Kids.
WritePages ==
    /\ ~done
    /\ done' = TRUE
    /\ tree' = IF PagesChanged THEN [i \in DOMAIN pages |-> Shown(pages[i])]
               ELSE [i \in Source |-> Shown(Ro(i))]
    /\ UNCHANGED <<pages, body, newObjects, ops>>

PagesNext ==
    \/ \E f \in Foreign : AddPages(f)
    \/ \E n \in 1 .. NumPages + MaxOps : RemovePage(n) \/ SignPage(n)
    \/ \E n \in 1 .. NumPages + MaxOps, f \in Foreign : ReplacePage(n, f) \/ MergePageWith(n, f)
    \/ WritePages

PagesSpec == PagesInit /\ [][PagesNext]_pagesVars

-----------------------------------------------------------------------------
\* The written document has the pages of the appender's list, each as it was left
\* by the edits, whether or not Write found the page tree to have changed.  (A
\* source page that is listed as read-only shares its number with the one of the
\* reader; it is left aside when that one is a new object.)
PagesWritten ==
    done /\ (\A i \in newObjects : Ro(i) \notin Range(pages))
         => tree = [i \in DOMAIN pages |-> body[pages[i]]]

\* Change detection compares with the pages of the read-only reader, which are
\* therefore never edited.
ReadOnlyUntouched == \A i \in Source : body[Ro(i)] = Plain(i)

\* What the appender promises of the page list: a revision has the pages that the
\* edits have left, in their order, and none of them touches the read-only reader.
PagesAsEdited == PagesWritten /\ ReadOnlyUntouched

\* Sign signs a specific page: the page at that number stays the one it was before,
\* with the signature on it.
SignKeepsPage ==
    [][\A n \in 1 .. NumPages + MaxOps : SignPage(n) =>
          /\ body'[pages'[n]].base = body[pages[n]].base
          /\ body[pages[n]].added \subseteq body'[pages'[n]].added]_pagesVars
=============================================================================

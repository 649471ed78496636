------------------------------ MODULE Revisions ------------------------------
(***************************************************************************)
(* A document over several revisions: PdfAppender of model/appender.go     *)
(* reads its cross-reference table, replaces some of the objects, adds     *)
(* new ones, and appends them with a section of their own; the next        *)
(* appender, or reader, loads the sections newest first by the rules of    *)
(* XrefRules.                                                              *)
(*                                                                         *)
(* Composes the numbering of PdfWriter (updateObjectNumbers, with what     *)
(* WriteXref shows about the listing: a section lists exactly the objects  *)
(* of its revision) and the loading of XrefLoad, by what is shown of it:   *)
(* of the entries for a number the one of highest generation wins and, of  *)
(* several, the one in the newest section.                                 *)
(***************************************************************************)
EXTENDS XrefRules, Sequences, FiniteSets, FiniteSetsExt

CONSTANTS
    MaxOld,         \* bound: the object numbers of the original document
    Gens,           \* generations that its objects may have
    MaxFresh,       \* bound: new objects in a revision
    MaxRevisions    \* bound: appended revisions

ASSUME BoundsAssumption ==
    Gens \subseteq Nat /\ MaxOld \in Nat /\ MaxFresh \in Nat /\ MaxRevisions \in Nat

VARIABLES
    sections,   \* the sections of the file, oldest first; each a set of entries
    latest      \* history: the objects, with their numbers and the revisions that wrote them last

revisionsVars == <<sections, latest>>

Entry == [num : Nat \ {0}, t : {"inuse", "compressed"}, gen : Nat, off : Nat]

RevisionsTypeOK ==
    /\ sections \in Seq(SUBSET Entry)
    /\ Len(sections) \in 1 .. MaxRevisions + 1
    /\ latest \subseteq [num : Nat \ {0}, rev : 1 .. MaxRevisions + 1]

-----------------------------------------------------------------------------
\* Where revision r keeps its object of number n; distinct for distinct pairs and
\* past the offsets that a table takes for free.
At(r, n) == (r + n) * (r + n) + n

\* What the first r sections list.
Listed(ss, r) == UNION {{e \in ss[i] : InUse("table", e)} : i \in 1 .. r}

\* The entry e of section i wins among the first r sections.
Wins(ss, r, i, e) ==
    /\ e \in ss[i] /\ InUse("table", e)
    /\ \A j \in 1 .. r : \A f \in ss[j] :
         (f.num = e.num /\ InUse("table", f)) => f.gen < e.gen \/ (f.gen = e.gen /\ j <= i)

Winners(ss, r, n) == {e \in Listed(ss, r) : e.num = n /\ \E i \in 1 .. r : Wins(ss, r, i, e)}

Winner(ss, r, n) == CHOOSE e \in Winners(ss, r, n) : TRUE

\* loadXrefs on the file as revision r has left it.
LoadXrefs(ss, r) ==
    [n \in {e.num : e \in Listed(ss, r)} |-> XrefOf(Winner(ss, r, n))]

\* The table of a reader of the whole file.
ObjectMap == LoadXrefs(sections, Len(sections))

\* The original document: some numbers are in use, each at some generation.
RevisionsInit ==
    \E nums \in SUBSET (1 .. MaxOld) : \E gen \in [nums -> Gens] :
        /\ sections = <<{[num |-> n, t |-> "inuse", gen |-> gen[n], off |-> At(1, n)] : n \in nums}>>
        /\ latest = {[num |-> n, rev |-> 1] : n \in nums}

\* Variant: the objects are counted.
greatestObjNum_Count == Cardinality(DOMAIN ObjectMap)

\* NewPdfAppender: the greatest number of the loaded table.
greatestObjNum == Max(DOMAIN ObjectMap \cup {0})

\* Variant: the entries are put into the newest section there is.
AppendRevision_InPlace(replaced, fresh) ==
    LET r == Len(sections) + 1
        new == {greatestObjNum + i : i \in 1 .. fresh}
        entry(n) == [num |-> n, t |-> "inuse", gen |-> 0, off |-> At(r, n)]
        kept == {e \in sections[r - 1] : e.num \notin replaced \/ e.gen > 0}
    IN  /\ r <= MaxRevisions
        /\ sections' = [sections EXCEPT ![r - 1] = kept \cup {entry(n) : n \in replaced \cup new}]
        /\ latest' = {[o EXCEPT !.rev = IF o.num \in replaced THEN r ELSE @] : o \in latest}
                     \cup {[num |-> n, rev |-> r] : n \in new}

\* Write of an appender: replacements keep the numbers they have in the table, the
\* new objects (at least a document information dictionary and a catalog) follow the
\* greatest one; updateObjectNumbers gives all of them generation 0.
AppendRevision(replaced, fresh) ==
    LET r == Len(sections) + 1
        new == {greatestObjNum + i : i \in 1 .. fresh}
        entry(n) == [num |-> n, t |-> "inuse", gen |-> 0, off |-> At(r, n)]
    IN  /\ r <= MaxRevisions + 1
        /\ sections' = Append(sections, {entry(n) : n \in replaced \cup new})
        /\ latest' = {[o EXCEPT !.rev = IF o.num \in replaced THEN r ELSE @] : o \in latest}
                     \cup {[num |-> n, rev |-> r] : n \in new}

RevisionsNext == \E replaced \in SUBSET DOMAIN ObjectMap, fresh \in 2 .. MaxFresh :
            AppendRevision(replaced, fresh)

RevisionsSpec == RevisionsInit /\ [][RevisionsNext]_revisionsVars

-----------------------------------------------------------------------------
\* The objects that had a generation above 0 in the original document.
Regenerated(n) == \E e \in sections[1] : e.num = n /\ e.gen > 0

\* Updated objects replace the older ones, and new ones take the place of none: after
\* any number of revisions a reader finds every object where the revision that wrote
\* it last has put it, and finds no others.  Since updateObjectNumbers writes
\* generation 0, an object that had a higher one keeps its old place instead.
LatestRevisionFound ==
    /\ DOMAIN ObjectMap = {o.num : o \in latest}
    /\ \A o \in latest :
         ObjectMap[o.num].Offset = At(IF Regenerated(o.num) THEN 1 ELSE o.rev, o.num)

\* The revision that has put object n at the offset.
RevisionAt(n, off) == CHOOSE r \in 1 .. MaxRevisions + 1 : At(r, n) = off

\* The document in a table: the revision that each object is found in, of those that
\* are written with the generation they have.
Version(map) ==
    [n \in {m \in DOMAIN map : ~Regenerated(m)} |-> RevisionAt(n, map[n].Offset)]

\* What readers find in the file as each revision has left it.
versions == [r \in 1 .. Len(sections) |-> Version(LoadXrefs(sections, r))]

Store == INSTANCE DocumentStore

\* Appending and loading together implement a store of versions, for the objects of
\* generation 0: loadXrefs finds in every appended revision what it has written and
\* all the rest as it was, and a reader of an older part of the file, which ends
\* where an earlier revision ended, still finds that version.
RefinesStore == Store!Spec
=============================================================================

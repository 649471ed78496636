------------------------------ MODULE XrefLoad ------------------------------
(***************************************************************************)
(* Loading of the cross-reference sections when a document is opened:      *)
(* loadXrefs, parseXref, parseXrefTable and parseXrefStream of             *)
(* core/parser.go, with the fallback repairSeekXrefMarker of               *)
(* core/repairs.go.                                                        *)
(*                                                                         *)
(* A file is a function from the offsets at which a section may be looked  *)
(* for to what is found there.  Bytes, numbers and dictionaries are        *)
(* abstracted to the fields that the control of the loader reads.  One     *)
(* step parses the head of a section, one entry of it, or its trailer.     *)
(***************************************************************************)
EXTENDS XrefRules, Integers, Sequences, FiniteSets

CONSTANTS
    Offsets,     \* file offsets at which cross-reference sections are looked for
    ObjNums,     \* object numbers
    Gens,        \* generation numbers
    Start,       \* the offset read from the last startxref
    Files,       \* the files that may be opened
    None,        \* an absent Prev or XRefStm
    NotInt       \* a Prev that is not an integer object

ASSUME OffsetsAssumption ==
    /\ Offsets \subseteq Nat \ {0}
    /\ IsFiniteSet(Offsets)
    /\ Start \in Offsets
ASSUME GensAssumption == Gens \subseteq Nat
ASSUME NoneAssumption == None \notin Offsets /\ NotInt \notin Offsets /\ None # NotInt

\* One line of a table or one record of a stream: its type, and for an object
\* in use its generation and its offset (or, compressed, its object stream; a
\* compressed object is recorded with generation 0).
Entry == {e \in [num : ObjNums, t : {"free", "inuse", "compressed"}, gen : Gens, off : Nat] :
            e.t = "compressed" => e.gen = 0}

\* What is found at an offset.  "junk" is neither a table nor a stream object;
\* self is the object number of a stream; a section that is not complete ends
\* in an error after its entries.
Section == [self : ObjNums, kind : {"table", "stream", "junk"}, ents : Seq(Entry),
            complete : BOOLEAN, prev : Offsets \cup {None, NotInt},
            xrefstm : Offsets \cup {None}]

ASSUME FilesAssumption == Files \subseteq [Offsets -> Section]

XrefObject == [XType : {"inuse", "compressed"}, Generation : Gens, Offset : Nat]

VARIABLES
    file,           \* the document being opened; never written
    phase,          \* which call of loadXrefs is running
    cur,            \* the offset of the section being parsed
    pos,            \* the next entry of it; 0 before its head has been read
    ObjectMap,      \* parser.xrefs.ObjectMap
    sortedObjects,  \* parser.xrefs.sortedObjects, as a set of offsets
    xrefType,       \* parser.xrefType
    prevList,       \* the Prev offsets seen, for the circularity check
    loaded          \* history: the entries in use, in the order they were met

vars == <<file, phase, cur, pos, ObjectMap, sortedObjects, xrefType, prevList, loaded>>

Terminal == {"done", "failed", "panic"}

TypeOK ==
    /\ file \in [Offsets -> Section]
    /\ phase \in {"main", "xrefstm", "prev"} \cup Terminal
    /\ cur \in Offsets
    /\ pos \in Nat
    /\ DOMAIN ObjectMap \subseteq ObjNums
    /\ \A n \in DOMAIN ObjectMap : ObjectMap[n] \in XrefObject
    /\ sortedObjects \subseteq Nat
    /\ xrefType \in {"nil", "table", "stream"}
    /\ prevList \in Seq(Offsets)
    /\ loaded \in Seq(Entry)

-----------------------------------------------------------------------------
Init ==
    /\ file \in Files
    /\ phase = "main"
    /\ cur = Start
    /\ pos = 0
    /\ ObjectMap = [n \in {} |-> None]
    /\ sortedObjects = {}
    /\ xrefType = "nil"
    /\ prevList = <<>>
    /\ loaded = <<>>

\* repairSeekXrefMarker: the last table of the file, searched from its end; at
\* most one offset.
LastTable ==
    {o \in Offsets : /\ file[o].kind = "table"
                     /\ \A p \in Offsets : file[p].kind = "table" => p <= o}

\* An error from parseXref or parseXrefStream ends the load for the main
\* section and its XRefStm; for a Prev section the loop breaks without one.
SectionFails == phase' = IF phase = "prev" THEN "done" ELSE "failed"

\* xrefNextObjectOffset, called for every stream that is parsed: the sorted
\* list is filled from the entries with an offset the first time it is needed.
FillSortedObjects ==
    sortedObjects' =
        IF sortedObjects = {}
        THEN {ObjectMap[n].Offset : n \in {m \in DOMAIN ObjectMap : ObjectMap[m].Offset > 0}}
        ELSE sortedObjects

\* parseXref finds a table: its entries follow.
OpenTable ==
    /\ pos = 0 /\ phase \in {"main", "prev"} /\ file[cur].kind = "table"
    /\ pos' = 1
    /\ UNCHANGED <<file, phase, cur, ObjectMap, sortedObjects, xrefType, prevList, loaded>>

\* parseXref, or loadXrefs for XRefStm, finds a stream object, which
\* ParseIndirectObject reads whole before its records are decoded.
OpenStream ==
    /\ pos = 0 /\ phase \notin Terminal /\ file[cur].kind = "stream"
    /\ pos' = 1
    /\ FillSortedObjects
    /\ UNCHANGED <<file, phase, cur, ObjectMap, xrefType, prevList, loaded>>

\* parseXref finds neither within reach of the offset and falls back to the
\* last table of the file.
RepairSeek ==
    /\ pos = 0 /\ phase \in {"main", "prev"} /\ file[cur].kind = "junk"
    /\ \/ LastTable = {} /\ SectionFails /\ UNCHANGED <<cur, pos>>
       \/ cur' \in LastTable /\ pos' = 1 /\ UNCHANGED phase
    /\ UNCHANGED <<file, ObjectMap, sortedObjects, xrefType, prevList, loaded>>

\* An XRefStm offset must hold a stream object; there is no fallback.
XRefStmMissing ==
    /\ pos = 0 /\ phase = "xrefstm" /\ file[cur].kind # "stream"
    /\ SectionFails
    /\ UNCHANGED <<file, cur, pos, ObjectMap, sortedObjects, xrefType, prevList, loaded>>

-----------------------------------------------------------------------------
\* A stream's record of the stream itself gets the number read from the object,
\* whatever the Index says.
Numbered(s, e) ==
    IF file[s].kind = "stream" /\ e.t = "inuse" /\ e.off = s
    THEN [e EXCEPT !.num = file[s].self]
    ELSE e

ParseEntry ==
    /\ phase \notin Terminal /\ pos \in 1 .. Len(file[cur].ents)
    /\ LET e == Numbered(cur, file[cur].ents[pos])
       IN  IF InUse(file[cur].kind, e)
           THEN ObjectMap' = Load(e, ObjectMap) /\ loaded' = Append(loaded, e)
           ELSE UNCHANGED <<ObjectMap, loaded>>
    /\ pos' = pos + 1
    /\ UNCHANGED <<file, phase, cur, sortedObjects, xrefType, prevList>>

-----------------------------------------------------------------------------
SectionParsed == phase \notin Terminal /\ pos > Len(file[cur].ents) /\ pos > 0

\* The trailer or the rest of the section is unreadable: the entries loaded
\* from it stay loaded.
BadTrailer ==
    /\ SectionParsed /\ ~file[cur].complete
    /\ SectionFails
    /\ UNCHANGED <<file, cur, pos, ObjectMap, sortedObjects, xrefType, prevList, loaded>>

SetXrefType == xrefType' = IF xrefType = "nil" THEN file[cur].kind ELSE xrefType

\* The section whose trailer is the document's: the one parsed first.
MainSection == IF file[Start].kind = "junk" THEN CHOOSE o \in LastTable : TRUE ELSE Start

\* The main trailer names a hybrid-reference stream.
FollowXRefStm ==
    /\ SectionParsed /\ file[cur].complete
    /\ phase = "main" /\ file[cur].xrefstm # None
    /\ phase' = "xrefstm" /\ cur' = file[cur].xrefstm /\ pos' = 0
    /\ SetXrefType
    /\ UNCHANGED <<file, ObjectMap, sortedObjects, prevList, loaded>>

\* The Prev of the main trailer: it may be absent or, for compatibility, invalid.
FollowFirstPrev ==
    /\ SectionParsed /\ file[cur].complete
    /\ phase = "xrefstm" \/ (phase = "main" /\ file[cur].xrefstm = None)
    /\ LET xx == file[MainSection].prev
       IN  IF xx \in Offsets
           THEN phase' = "prev" /\ cur' = xx /\ pos' = 0
           ELSE phase' = "done" /\ UNCHANGED <<cur, pos>>
    /\ SetXrefType
    /\ UNCHANGED <<file, ObjectMap, sortedObjects, prevList, loaded>>

\* Variants: the circularity check is missing or inverted; nothing is added to
\* the list it looks at.
Met_Never(xx) == FALSE
Met_Always(xx) == TRUE
Remember_Not(xx) == prevList

\* The circularity check over the list of Prev offsets.
Met(xx) == \E i \in DOMAIN prevList : prevList[i] = xx

Remember(xx) == Append(prevList, xx)

\* The Prev of an older trailer.  The type assertion on it is unchecked, so one
\* that is not an integer panics; one met before ends the loop.
FollowPrev ==
    /\ SectionParsed /\ file[cur].complete /\ phase = "prev"
    /\ LET xx == file[cur].prev
       IN  CASE xx = None   -> phase' = "done"  /\ UNCHANGED <<cur, pos, prevList>>
             [] xx = NotInt -> phase' = "panic" /\ UNCHANGED <<cur, pos, prevList>>
             [] OTHER ->
                  IF Met(xx)
                  THEN phase' = "done" /\ UNCHANGED <<cur, pos, prevList>>
                  ELSE /\ prevList' = Remember(xx)
                       /\ cur' = xx /\ pos' = 0 /\ UNCHANGED phase
    /\ SetXrefType
    /\ UNCHANGED <<file, ObjectMap, sortedObjects, loaded>>

Next == \/ OpenTable \/ OpenStream \/ RepairSeek \/ XRefStmMissing \/ ParseEntry
        \/ BadTrailer \/ FollowXRefStm \/ FollowFirstPrev \/ FollowPrev

Spec == Init /\ [][Next]_vars /\ WF_vars(Next)

-----------------------------------------------------------------------------
\* Whatever the sections and their order, the table holds for every object the
\* entry of highest generation among those met so far and, of several, the one
\* met first (the load conditions of parseXrefTable and parseXrefStream).
HighestGenerationWins ==
    \A n \in ObjNums :
        LET met == {i \in DOMAIN loaded : loaded[i].num = n}
        IN  /\ n \in DOMAIN ObjectMap <=> met # {}
            /\ n \in DOMAIN ObjectMap =>
                 \E i \in met :
                    /\ ObjectMap[n] = XrefOf(loaded[i])
                    /\ \A j \in met : \/ loaded[j].gen < loaded[i].gen
                                      \/ loaded[j].gen = loaded[i].gen /\ i <= j

\* The revisions of a file, newest first: m older sections reached by Prev.
IsChain(p, m) ==
    /\ p[0] = Start /\ file[p[m]].prev = None
    /\ \A k \in 0 .. m - 1 : file[p[k]].prev = p[k + 1]
    /\ \A k \in 0 .. m : file[p[k]].kind # "junk" /\ file[p[k]].complete
    /\ file[Start].xrefstm = None

\* The entry at i of the section at s offers object n, under the number it gets.
ListedAt(s, i, n) ==
    LET e == Numbered(s, file[s].ents[i]) IN e.num = n /\ InUse(file[s].kind, e)

Lists(s, n) == \E i \in DOMAIN file[s].ents : ListedAt(s, i, n)

AllGenerationsEqual ==
    \A s, t \in Offsets : \A i \in DOMAIN file[s].ents, j \in DOMAIN file[t].ents :
        file[s].ents[i].gen = file[t].ents[j].gen

\* When a well-formed chain of revisions has been loaded and generations do not
\* differ, every object listed in it is found where the first entry for it in the
\* newest section that lists it says, and no other object is found.
NewestRevisionWins ==
    (phase = "done" /\ AllGenerationsEqual) =>
        \A m \in 0 .. Cardinality(Offsets) - 1 : \A p \in [0 .. m -> Offsets] :
            IsChain(p, m) =>
                /\ \A n \in DOMAIN ObjectMap : \E k \in 0 .. m : Lists(p[k], n)
                /\ \A k \in 0 .. m, n \in ObjNums :
                     (Lists(p[k], n) /\ \A l \in 0 .. k - 1 : ~Lists(p[l], n)) =>
                        /\ n \in DOMAIN ObjectMap
                        /\ \E i \in DOMAIN file[p[k]].ents :
                             /\ ListedAt(p[k], i, n)
                             /\ \A j \in 1 .. i - 1 : ~ListedAt(p[k], j, n)
                             /\ ObjectMap[n] = XrefOf(Numbered(p[k], file[p[k]].ents[i]))

\* A circular chain of Prev offsets is cut: no offset is followed from an older
\* trailer twice, so that the number of sections parsed is bounded.
PrevListBounded ==
    /\ Len(prevList) <= Cardinality(Offsets)
    /\ \A i, j \in DOMAIN prevList : prevList[i] = prevList[j] => i = j

\* Opening a file ends, whatever its sections refer to.
LoadTerminates == <>(phase \in Terminal)
=============================================================================

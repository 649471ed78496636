------------------------------ MODULE XrefRules ------------------------------
(***************************************************************************)
(* Which entries of a cross-reference section are loaded, and which of two *)
(* entries for one object number stays: the conditions at the end of       *)
(* parseXrefTable and parseXrefStream of core/parser.go.  An entry has its *)
(* number num, its type t, its generation gen and its offset off.          *)
(***************************************************************************)
EXTENDS Integers

\* Is this an entry that the section offers for loading?  Free entries are
\* ignored, and a table's offsets 0 and 1 are taken for free.
InUse(kind, e) == e.t = "compressed" \/ (e.t = "inuse" /\ (kind = "table" => e.off > 1))

XrefOf(e) == [XType |-> e.t, Generation |-> e.gen,
              Offset |-> IF e.t = "compressed" THEN 0 ELSE e.off]

\* Variant: the generations are not compared.
Supersedes_Always(e, map) == e.num \notin DOMAIN map \/ e.t = "inuse"

\* Load if there is none yet or, for an uncompressed object, if its generation
\* is higher than that of the one already loaded.
Supersedes(e, map) == e.num \notin DOMAIN map
                      \/ (e.t = "inuse" /\ e.gen > map[e.num].Generation)

Load(e, map) ==
    IF Supersedes(e, map)
    THEN [n \in DOMAIN map \cup {e.num} |-> IF n = e.num THEN XrefOf(e) ELSE map[n]]
    ELSE map
=============================================================================

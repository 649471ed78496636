----------------------------- MODULE MCXrefLoad -----------------------------
(***************************************************************************)
(* Small instances of XrefLoad.  Three places for sections; every section  *)
(* may be a table, a stream or junk, complete or cut short, point back to  *)
(* any of the three or carry an invalid Prev.                              *)
(***************************************************************************)
EXTENDS XrefLoad, TLC

MCOffsets == {10, 20, 30}
MCObjNums == {1, 2}
MCGens == {0, 1}

\* The entry lists of a section at offset s: none, one object free, in use (in
\* two generations, or at the low offset that stands for free) or compressed,
\* and the record a stream holds of itself, followed by
\* another one for its number.
TableEnts(s) ==
    {<<>>} \cup {<<[num |-> 1, t |-> "inuse", gen |-> g, off |-> s - 5]>> : g \in MCGens}
           \cup {<<[num |-> 1, t |-> "free", gen |-> 0, off |-> 2]>>,
                 <<[num |-> 1, t |-> "inuse", gen |-> 0, off |-> 1]>>}
StreamEnts(s) ==
    {<<>>} \cup {<<[num |-> 1, t |-> "inuse", gen |-> g, off |-> s - 5]>> : g \in MCGens}
           \cup {<<[num |-> 1, t |-> "compressed", gen |-> 0, off |-> 2]>>,
                 <<[num |-> 1, t |-> "inuse", gen |-> 0, off |-> s], [num |-> 2, t |-> "inuse", gen |-> 0, off |-> s - 4]>>}

Sec(k, e, c, p, x) == [self |-> 2, kind |-> k, ents |-> e, complete |-> c, prev |-> p, xrefstm |-> x]

Sections(s, hybrids) ==
         {Sec("table", e, TRUE, p, x) : e \in TableEnts(s),
                                        p \in MCOffsets \cup {None, NotInt}, x \in hybrids}
    \cup {Sec("table", e, FALSE, None, None) : e \in TableEnts(s)}
    \cup {Sec("stream", e, TRUE, p, None) : e \in StreamEnts(s), p \in MCOffsets \cup {None, NotInt}}
    \cup {Sec("stream", <<>>, FALSE, None, None), Sec("junk", <<>>, FALSE, None, None)}

\* Every combination for the newest section, with and without a hybrid stream,
\* and for the two older ones.
MCFiles ==
    {30 :> a @@ 20 :> b @@ 10 :> c :
        a \in Sections(30, {None, 20}), b \in Sections(20, {None}), c \in Sections(10, {None})}
=============================================================================

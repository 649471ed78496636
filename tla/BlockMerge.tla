----------------------------- MODULE BlockMerge -----------------------------
(***************************************************************************)
(* The merging of blocks of content (creator/block.go, Creator.Draw and    *)
(* Finalize of creator/creator.go): blocks are drawn on pages, those of a  *)
(* page are merged into its page block, and this into the page.  A name    *)
(* that already stands for something else is replaced by another one, in   *)
(* the resources and in the operation.  Operations are shared by a block   *)
(* and its duplicates, and so are resources: both are kept on heaps here.  *)
(* Names are sequences of characters.                                      *)
(***************************************************************************)
EXTENDS Integers, Sequences, SequencesExt, FiniteSets, FiniteSetsExt

CONSTANTS
    Setups,   \* [blocks, pages]: what each has, as [ops, res]
    MaxDraws,
    Idle

VARIABLES
    setup,     \* the setup
    op,        \* heap of operations: [kind, name, stands, of]
    resources, \* heap of resources: functions from <<kind, name>>
    block,     \* block -> [ops, res]: references to both heaps
    pageBlock, \* page -> the page block, or Idle
    page,      \* page -> [ops, res], with operations as they are written
    drawn,     \* block -> how often it has been drawn
    renamed,   \* operations whose name has been replaced
    phase

vars == <<setup, op, resources, block, pageBlock, page, drawn, renamed, phase>>

Nothing == "nothing"
DigitSeq == <<"0", "1", "2", "3", "4", "5", "6", "7", "8", "9">>
Digits == Range(DigitSeq)
Digit(n) == DigitSeq[n + 1]

\* How many names are tried; there is always one among them, for MaxDraws drawings.
Tries == 0 .. 9

-----------------------------------------------------------------------------
(* Names.                                                                   *)

\* What the name stands for in a resource dictionary; entries that hold nothing are not
\* there when read.
Get(res, kind, name) == IF <<kind, name>> \in DOMAIN res THEN res[<<kind, name>>] ELSE Nothing

Set(res, kind, name, x) == [k \in DOMAIN res \cup {<<kind, name>>} |-> IF k = <<kind, name>> THEN x ELSE res[k]]

\* Whether a name may be used for x: it is free, or stands for x already.  Patterns and
\* shadings are read anew each time and are never found to be the same.
Usable(res, kind, name, x) ==
    Get(res, kind, name) = Nothing \/ (Get(res, kind, name) = x /\ kind \notin {"scn", "sh"})

\* "0" is added to the name, again and again.
WithZeros(name, n) == name \o [i \in 1 .. n |-> "0"]

ZerosName(res, kind, name, x) ==
    WithZeros(name, Min({n \in Tries : Usable(res, kind, WithZeros(name, n), x)}))

\* resourcesNextUnusedFontName: digits at the end of the name are replaced by a number.
Prefix(name) == SubSeq(name, 1, Max({0} \cup {i \in DOMAIN name : name[i] \notin Digits}))

FontName(name, n) == IF n = 0 THEN name ELSE (IF Prefix(name) = <<>> THEN <<"Font">> ELSE Prefix(name)) \o <<Digit(n)>>

resourcesNextUnusedFontName(res, name, x) ==
    FontName(name, Min({n \in Tries : Usable(res, "Tf", FontName(name, n), x)}))

\* Graphics states get a name of their own.
GSName(name, n) == IF n = 0 THEN name ELSE <<"GS", Digit(n)>>

UnusedGSName(res, name, x) == GSName(name, Min({n \in Tries : Usable(res, "gs", GSName(name, n), x)}))

\* The name under which x, called name where it comes from, goes into res.  What is not
\* there gets an empty name, but for fonts, colour spaces, patterns and shadings.
NewName(res, kind, name, x) ==
    CASE x = Nothing -> IF kind \in {"Do", "gs"} THEN <<>> ELSE name
      [] kind = "Tf" -> resourcesNextUnusedFontName(res, name, x)
      [] kind = "gs" -> UnusedGSName(res, name, x)
      [] OTHER -> ZerosName(res, kind, name, x)

-----------------------------------------------------------------------------
(* mergeContents.  The state of a merge is [names, res, to]: the names so   *)
(* far, the resources that are added to and the replacements.               *)

MergeOp(m, o, name, from) ==
    LET use == IF <<o.kind, name>> \in DOMAIN m.to THEN m.to[<<o.kind, name>>]
               ELSE NewName(m.res, o.kind, name, Get(from, o.kind, name))
    IN  [names |-> Append(m.names, use),
         res |-> IF <<o.kind, name>> \in DOMAIN m.to \/ Get(from, o.kind, name) = Nothing THEN m.res
                 ELSE Set(m.res, o.kind, use, Get(from, o.kind, name)),
         to |-> Set(m.to, o.kind, name, use)]

\* An operation may occur twice among ops: the second time it has its new name.
NameNow(m, ops, i) ==
    LET before == {j \in 1 .. i - 1 : ops[j] = ops[i]} IN IF before = {} THEN op[ops[i]].name ELSE m.names[Max(before)]

mergeContents(ops, res, from) ==
    LET merge[i \in 0 .. Len(ops)] ==
            IF i = 0 THEN [names |-> <<>>, res |-> res, to |-> <<>>]
            ELSE MergeOp(merge[i - 1], op[ops[i]], NameNow(merge[i - 1], ops, i), from)
    IN  merge[Len(ops)]

\* The operations with the names that a merge has given them.
Renamed(ops, m) ==
    [x \in DOMAIN op |-> LET at == {i \in DOMAIN ops : ops[i] = x}
                         IN  IF at = {} THEN op[x] ELSE [op[x] EXCEPT !.name = m.names[Max(at)]]]

Replaced(ops, m) == {ops[i] : i \in {j \in DOMAIN ops : m.names[j] # op[ops[j]].name}}

\* mergeResources: colour spaces that are missing.
mergeResources(src, dst) ==
    [k \in DOMAIN dst \cup {x \in DOMAIN src : x[1] = "cs"} |-> IF k \in DOMAIN dst THEN dst[k] ELSE src[k]]

-----------------------------------------------------------------------------

Init ==
    /\ setup = Idle /\ op = <<>> /\ resources = <<>> /\ block = <<>> /\ pageBlock = <<>> /\ page = <<>>
    /\ drawn = <<>> /\ renamed = {} /\ phase = "start"

Stands(c, i) == Get(c.res, c.ops[i].kind, c.ops[i].name)

\* The blocks and the pages: two of each.
Start(s) ==
    /\ phase = "start"
    /\ setup' = s /\ phase' = "draw"
    /\ op' = FlattenSeq([b \in DOMAIN s.blocks |->
                [i \in DOMAIN s.blocks[b].ops |-> [kind |-> s.blocks[b].ops[i].kind, name |-> s.blocks[b].ops[i].name,
                                                   stands |-> Stands(s.blocks[b], i), of |-> b]]])
    /\ resources' = [b \in DOMAIN s.blocks |-> s.blocks[b].res]
    /\ block' = [b \in DOMAIN s.blocks |->
                   [ops |-> SelectSeq([i \in DOMAIN op' |-> i], LAMBDA x : op'[x].of = b), res |-> b]]
    /\ pageBlock' = [p \in DOMAIN s.pages |-> Idle]
    /\ page' = [p \in DOMAIN s.pages |->
                  [ops |-> [i \in DOMAIN s.pages[p].ops |-> [kind |-> s.pages[p].ops[i].kind, name |-> s.pages[p].ops[i].name,
                                                             stands |-> Stands(s.pages[p], i), at |-> 0]],
                   res |-> s.pages[p].res]]
    /\ drawn' = [b \in DOMAIN s.blocks |-> 0]
    /\ UNCHANGED renamed

Total == drawn[1] + drawn[2]

\* Creator.Draw of a block: the first one of a page becomes its page block, and shares the
\* resources.
DrawFirst(b, p) ==
    /\ pageBlock[p] = Idle
    /\ pageBlock' = [pageBlock EXCEPT ![p] = block[b]]
    /\ UNCHANGED <<op, resources, renamed>>

DrawMore(b, p, m) ==
    /\ op' = Renamed(block[b].ops, m)
    /\ renamed' = renamed \cup Replaced(block[b].ops, m)
    /\ pageBlock' = [pageBlock EXCEPT ![p].ops = @ \o block[b].ops]
    /\ resources' = [resources EXCEPT ![pageBlock[p].res] = mergeResources(resources[block[b].res], m.res)]

Draw(b, p) ==
    /\ phase = "draw" /\ Total < MaxDraws
    /\ drawn' = [drawn EXCEPT ![b] = @ + 1]
    /\ \/ DrawFirst(b, p)
       \/ /\ pageBlock[p] # Idle
          /\ DrawMore(b, p, mergeContents(block[b].ops, resources[pageBlock[p].res], resources[block[b].res]))
    /\ UNCHANGED <<setup, block, page, phase>>

\* Finalize: drawToPage for each page in turn.
Rendered(p, pb, m) ==
    /\ page' = [page EXCEPT ![p] =
                  [ops |-> @.ops \o [i \in DOMAIN pb.ops |-> [kind |-> op[pb.ops[i]].kind, name |-> m.names[i],
                                                             stands |-> op[pb.ops[i]].stands, at |-> pb.ops[i]]],
                   res |-> mergeResources(resources[pb.res], m.res)]]
    /\ op' = Renamed(pb.ops, m)
    /\ renamed' = renamed \cup Replaced(pb.ops, m)

Finalize(p) ==
    /\ phase = IF p = 1 THEN "draw" ELSE "finalize"
    /\ phase' = IF p = Len(page) THEN "end" ELSE "finalize"
    /\ IF pageBlock[p] = Idle THEN UNCHANGED <<page, op, renamed>>
       ELSE Rendered(p, pageBlock[p], mergeContents(pageBlock[p].ops, page[p].res, resources[pageBlock[p].res]))
    /\ UNCHANGED <<setup, resources, block, pageBlock, drawn>>

Next ==
    \/ phase = "start" /\ \E s \in Setups : Start(s)
    \/ \E b \in DOMAIN block, p \in DOMAIN page : Draw(b, p)
    \/ \E p \in DOMAIN page : Finalize(p)

Spec == Init /\ [][Next]_vars

-----------------------------------------------------------------------------
(* Properties.                                                              *)

\* On a finished page every operation has a name that stands there for what it stood for
\* in the block or the page that it comes from; but for an operation of a block that was
\* drawn again after its name had been replaced, which all its duplicates share.
NamesStand ==
    phase = "end" =>
        \A p \in DOMAIN page : \A i \in DOMAIN page[p].ops :
            LET o == page[p].ops[i]
            IN  \/ o.at \in renamed /\ drawn[op[o.at].of] > 1
                \/ o.stands = Nothing
                \/ Get(page[p].res, o.kind, o.name) = o.stands

\* Each page has its own operations, then those of the blocks drawn on it, each as often
\* as the block has been.
OperationsKept ==
    phase = "end" =>
        \A p \in DOMAIN page :
            /\ IsPrefix([i \in DOMAIN setup.pages[p].ops |-> setup.pages[p].ops[i].name],
                        [i \in DOMAIN page[p].ops |-> page[p].ops[i].name])
            /\ \A b \in DOMAIN block :
                  Cardinality({i \in DOMAIN page[p].ops : page[p].ops[i].at \in Range(block[b].ops)}) % Len(block[b].ops) = 0

=============================================================================

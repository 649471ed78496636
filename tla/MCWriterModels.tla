--------------------------- MODULE MCWriterModels ---------------------------
(***************************************************************************)
(* What the writer and the appender do with a document before it is        *)
(* written, each part with the documents on which it is explored: the      *)
(* collection of objects (WriterCollect), the signing of a revision        *)
(* (AppenderSign), the list of pages (AppenderPages), the merging of pages *)
(* (PageMerge), what is added to pages (PageResources), interactive forms  *)
(* (FormFields); and what the creator makes pages of: blocks that are      *)
(* merged (BlockMerge), what is laid out on pages (PageLayout), tables     *)
(* (TableLayout) and wrapped text (TextWrap). A behaviour is one of one    *)
(* part; the variables of the others stay Idle, or as they are at first    *)
(* where a property of an extended module reads them.                      *)
(***************************************************************************)
EXTENDS WriterCollect, AppenderSign, AppenderPages, TLC

CONSTANT Idle

VARIABLES
    part,
    \* variables of several parts, with doc, outline, pc, calls, pages and ops
    page, last, drawn, phase,
    \* PageMerge
    Names, mayLack, srcResources, srcContent, content, renames, merged,
    \* PageResources
    file, heap, colours, texts, puts, boxed,
    \* FormFields
    dict, value, inst, annot, cache, Fields, cleared, given,
    \* BlockMerge
    setup, op, resources, block, pageBlock, renamed,
    \* PageLayout
    size, boxes, context, active, toc, job, genpages, log,
    \* TableLayout
    tb, gen, first,
    \* TextWrap
    text, width, chunk, pos, plain, styled, cut

collectvars == <<refs, parent, objects, pagesMap, pendingObjects, stack, copied, skipMap, visit,
    output>>
signvars == <<sigs, offset, written, stage, k, digestWriters, sigDicts, bufferData, byteRange,
    prevOffset, signed, sent>>
pagesvars == <<body, newObjects, tree, done>>
mergevars == <<Names, mayLack, srcResources, srcContent, content, renames, merged>>
resourcesvars == <<file, heap, colours, texts, puts, boxed>>
formvars == <<dict, value, inst, annot, cache, Fields, cleared, given>>
blocksvars == <<setup, op, resources, block, pageBlock, renamed>>
layoutvars == <<size, boxes, context, active, toc, job, genpages, log>>
tablevars == <<tb, gen, first>>
wrapvars == <<text, width, chunk, pos, plain, styled, cut>>
vars == <<part, doc, outline, pc, calls, pages, ops, page, last, drawn, phase,
    collectvars, signvars, pagesvars, mergevars, resourcesvars, formvars, blocksvars,
    layoutvars, tablevars, wrapvars>>

-----------------------------------------------------------------------------
Lists(S) == {<<>>} \cup {<<n>> : n \in S} \cup ({<<n, m>> : n \in S, m \in S} \ {<<n, n>> : n \in S})

\* Three pages with links among them, in any order, and one shared object.
LinkDocs ==
    {[page |-> {1, 2, 3}, refs |-> <<a, b, c, d>>, bare |-> {}, inherited |-> <<>>,
      parent |-> <<OldPages, OldPages, OldPages, Null>>] :
        a \in Lists({2, 3, 4}), b \in {<<>>, <<4>>}, c \in Lists({2, 4}), d \in {<<>>, <<2>>}}

\* Two pages and two other objects with parents of their own, which are referred
\* to, inherited or neither.
ParentDocs ==
    {[page |-> {1, 2}, refs |-> <<a, b, c, d>>, bare |-> {1}, inherited |-> h,
      parent |-> <<OldPages, OldPages, p, q>>] :
        a \in {<<>>, <<3>>, <<2>>, <<4, 3>>}, b \in {<<>>, <<3>>, <<4>>}, c \in {<<>>, <<4>>},
        d \in {<<>>, <<3>>}, h \in {<<>>, <<4>>}, p \in {4, OldPages}, q \in {Null, 2, 3}}

CollectDocs == LinkDocs \cup ParentDocs

-----------------------------------------------------------------------------
\* Names that are apart, and one that begins the other.
NameSets == {{<<"F">>, <<"G">>}, {<<"F">>, <<"F", "1">>}}

Merge == INSTANCE PageMerge WITH Categories <- {"Font", "XObject"}, MaxMerges <- 2, Itoa <- [i \in 1 .. 9 |-> <<ToString(i)>>]

-----------------------------------------------------------------------------
\* Two pages that share dictionaries, contents or colour spaces, or nothing.
PrN == [k |-> "nil", id |-> 0]
PrR(kind, to) == [k |-> kind, id |-> to]
PrD(f) == [t |-> "dict", e |-> f]
PrE(s, v) == [sub |-> s, v |-> v]
PrNone == [n \in {} |-> 0]
PrOne(n, v) == [m \in {n} |-> v]
PrX == PrD(PrOne(<<"Imw", 0>>, PrE("Image", <<"own">>)))
PrX2 == PrD(PrOne(<<"Imw", 0>>, PrE("Other", <<"own">>)))
PrG == PrD(PrOne(<<"GS", 0>>, PrE("dict", <<"g">>)))
PrC == PrD(PrOne(<<"A">>, PrE("cs", <<"a">>)))
PrS == [t |-> "stream", e |-> <<<<"text", "s">>>>]
PrBad == [t |-> "other", e |-> <<>>]
PrArr(e) == [t |-> "array", e |-> e]
PrH == <<PrX, PrG, PrC, PrS, PrArr(<<4>>), PrX2, PrBad, PrArr(<<7>>)>>
PrRes(x, g, f, c) == ("XObject" :> x @@ "ExtGState" :> g @@ "Font" :> f @@ "Pattern" :> PrR("ind", 1) @@ "Shading" :> PrN @@ "ColorSpace" :> c)
PrPg(c, r) == [media |-> TRUE, contents |-> c, has |-> TRUE, res |-> r]
PrDocs == {[heap |-> PrH, pages |-> ps] : ps \in {
   <<PrPg(PrR("direct", 4), PrRes(PrR("direct", 1), PrR("ind", 2), PrN, PrR("ind", 3))), PrPg(PrN, PrRes(PrR("direct", 1), PrN, PrR("ref", 2), PrR("ind", 3)))>>,
   <<PrPg(PrR("ind", 5), PrRes(PrR("direct", 6), PrR("direct", 2), PrN, PrR("direct", 3))), PrPg(PrR("ind", 5), PrRes(PrN, PrR("direct", 2), PrN, PrN))>>,
   <<PrPg(PrR("direct", 5), PrRes(PrR("ind", 1), PrR("direct", 7), PrN, PrR("ref", 3))), PrPg(PrR("direct", 8), PrRes(PrR("direct", 1), PrR("direct", 7), PrN, PrR("ref", 7)))>>,
   <<[media |-> FALSE, contents |-> PrN, has |-> FALSE, res |-> PrRes(PrN, PrN, PrN, PrN)], [media |-> TRUE, contents |-> PrN, has |-> FALSE, res |-> PrRes(PrN, PrN, PrN, PrN)]>>}}

Resources == INSTANCE PageResources WITH
    Docs <- PrDocs, Marks <- {<<"m">>}, Texts <- {"t"}, Names <- {<<"A">>, <<"B">>}, Values <- {<<"v">>}, MaxCalls <- 3,
    NotOpen <- Idle

-----------------------------------------------------------------------------
\* A text field and a field with two kids, one of them a merged field, and
\* widgets; fields may be missing from the form.
Form(k3, top, on, b) ==
    [fields |-> {1, 2, 3}, widgets |-> {4, 5}, merged |-> {1, 3}, buttons |-> b,
     kids |-> [f \in {1, 2, 3} |-> IF f = 2 THEN k3 ELSE <<>>], top |-> top, annots |-> on]
FormDocs == {Form(kids, t, a, b) :
    kids \in {<<3, 4>>, <<4, 3>>, <<4, 5>>, <<3>>}, t \in {<<3, 1>>, <<1, 2>>, <<2>>, <<1>>, <<>>},
    a \in {<<1, 3, 4>>, <<4, 1, 3, 5>>, <<3, 1>>}, b \in {{}, {3}, {1}}}

Forms == INSTANCE FormFields WITH Documents <- FormDocs, MaxOps <- 4

-----------------------------------------------------------------------------
\* Two blocks and two pages that use the same names for the same or for other things.
BmR(kind, f) == [x \in {<<kind, n>> : n \in DOMAIN f} |-> f[x[2]]]
BmC(kind, f, ns) == [ops |-> [i \in DOMAIN ns |-> [kind |-> kind, name |-> ns[i]]], res |-> BmR(kind, f)]
BmX == <<"X">>
BmSetups ==
    {[blocks |-> <<BmC(kind, (BmX :> a @@ n :> "b"), <<BmX, n>>), BmC(kind, (BmX :> c), <<BmX, BmX>>)>>,
      pages |-> <<BmC(kind, (BmX :> d), <<BmX>>), BmC(kind, (BmX :> "c" @@ n :> "b"), <<n>>)>>] :
        kind \in {"Do", "Tf", "cs", "gs", "scn", "sh"}, n \in {<<"X", "0">>, <<"X", "1">>}, a \in {"a", "b"},
        c \in {"a", "c"}, d \in {"a", "d"}}

Blocks == INSTANCE BlockMerge WITH Setups <- BmSetups, MaxDraws <- 3

-----------------------------------------------------------------------------
\* What is drawn with the creator: a paragraph, lines, an image, chapters, a block within
\* a chapter, a division, a page break, and something that fails.
PlI(kind, h, t, b) == [kind |-> kind, h |-> h, top |-> t, bottom |-> b, chapter |-> 0, lines |-> <<>>, started |-> FALSE]
PlP(h, b) == PlI("paragraph", h, 0, b)
PlS(ls, h) == [PlI("styled", h, 0, 0) EXCEPT !.lines = ls]
PlH(n) == [PlI("heading", 1, 0, 0) EXCEPT !.chapter = n]
PlDrawables ==
    << <<PlP(2, 1)>>, <<PlS(<<1, 2, 1>>, 4)>>, <<PlI("image", 2, 1, 0)>>,
       <<PlI("chapter", 0, 1, 0), PlH(1), PlP(2, 0), PlI("chapter", 0, 0, 0), PlH(2), PlS(<<2, 2>>, 4)>>,
       <<PlI("chapter", 0, 0, 0), PlH(3), PlI("block", 2, 0, 0), PlP(1, 0)>>,
       <<PlI("division", 0, 1, 1), PlP(1, 0), PlI("absolute", 1, 3, 0), PlS(<<1, 1>>, 2)>>,
       <<PlI("break", 0, 0, 0)>>, <<PlH(4), PlI("fail", 0, 0, 0)>> >>

Layout == INSTANCE PageLayout WITH
    PageHeight <- 6, Top <- 1, Bottom <- 1, OtherHeight <- 4, Drawables <- PlDrawables,
    FrontPages <- {<<>>, <<PlP(2, 0)>>, <<PlP(3, 0), PlP(2, 0)>>}, WidePage <- 4, MaxDraws <- 2, MaxPages <- 2

-----------------------------------------------------------------------------
\* Contents of cells, and a table of one cell to put into another.
TbC(kind, h, t, b, v) == [kind |-> kind, height |-> h, top |-> t, bottom |-> b, valign |-> v, sub |-> FALSE]
TbContents == {TbC("paragraph", 1, 0, 0, "top"), TbC("styled", 2, 0, 1, "bottom")}
TbSub ==
    [cells |-> <<[row |-> 1, col |-> 1, colspan |-> 2, content |-> [TbC("image", 1, 2, 0, "middle") EXCEPT !.sub = TRUE]]>>,
     rowHeights |-> <<2>>]

Table == INSTANCE TableLayout WITH
    Contents <- TbContents, Subtables <- {TbSub}, Places <- {<<1, 2>>, <<3, 1>>}, DefaultRowHeight <- 1, PageArea <- 6,
    Starts <- {0, 3}, Bottoms <- {0, 1}, MaxCells <- 3, MaxSkips <- 2, MaxPages <- 5

-----------------------------------------------------------------------------
\* Texts of narrow and wide runes, spaces and line feeds, in one chunk or in two.
TwWords(runes, n) == UNION {[1 .. m -> runes] : m \in 0 .. n}
TwTwo(w) == {<<SubSeq(w, 1, i), SubSeq(w, i + 1, Len(w))>> : i \in 1 .. Len(w) - 1}
TwTexts == {<<w>> : w \in TwWords({"a", "W", "_", "n"}, 4) \cup TwWords({"a", "W", "_"}, 5)} \cup UNION {TwTwo(w) : w \in TwWords({"a", "W", "_"}, 5)}
TwWidth == [r \in {"a", "W", "_", "n"} |-> IF r = "W" THEN 2 ELSE 1]

Wrap == INSTANCE TextWrap WITH Texts <- TwTexts, Widths <- {0, 2, 3}, RuneWidth <- TwWidth, Spacing <- 0, Space <- "_", LF <- "n"

-----------------------------------------------------------------------------
\* The variables of a part, while another one runs.
NoCollect ==
    /\ refs = Idle /\ parent = Idle /\ objects = Idle /\ pagesMap = Idle
    /\ pendingObjects = Idle /\ stack = <<>> /\ copied = Idle /\ skipMap = Idle
    /\ visit = Idle /\ output = Idle
NoSign ==
    /\ sigs = Idle /\ offset = Idle /\ written = FALSE /\ stage = Idle /\ k = Idle
    /\ digestWriters = Idle /\ sigDicts = Idle /\ bufferData = Idle /\ byteRange = Idle
    /\ prevOffset = Idle /\ signed = Idle /\ sent = Idle
NoList ==
    /\ body = [p \in {Ro(i) : i \in Source} |-> Plain(p[2])] /\ done = FALSE
    /\ newObjects = Idle /\ tree = Idle
NoMerge ==
    /\ Names = Idle /\ mayLack = Idle /\ srcResources = Idle /\ srcContent = Idle
    /\ content = Idle /\ renames = Idle /\ merged = Idle
NoResources ==
    /\ file = Idle /\ heap = Idle /\ colours = Idle /\ texts = Idle /\ puts = Idle
    /\ boxed = Idle
NoForms ==
    /\ dict = Idle /\ value = Idle /\ inst = Idle /\ annot = Idle /\ cache = Idle
    /\ Fields = Idle /\ cleared = Idle /\ given = Idle
NoBlocks ==
    /\ setup = Idle /\ op = Idle /\ resources = Idle /\ block = Idle /\ pageBlock = Idle
    /\ renamed = Idle
NoLayout ==
    /\ size = Idle /\ boxes = Idle /\ context = Idle /\ active = Idle /\ toc = Idle
    /\ job = Idle /\ genpages = Idle /\ log = Idle
NoTable ==
    /\ tb = Idle /\ gen = Idle /\ first = Idle
NoWrap ==
    /\ text = Idle /\ width = Idle /\ chunk = Idle /\ pos = Idle /\ plain = Idle
    /\ styled = Idle /\ cut = Idle

Init ==
    \/ part = "collect" /\ CollectInit
         /\ calls = Idle /\ pages = Idle /\ ops = Idle /\ page = Idle /\ last = Idle
         /\ drawn = Idle /\ phase = Idle /\ NoSign /\ NoList /\ NoMerge /\ NoResources
         /\ NoForms /\ NoBlocks /\ NoLayout /\ NoTable /\ NoWrap
    \/ part = "sign" /\ SignInit
         /\ doc = Idle /\ outline = Idle /\ pc = Idle /\ pages = Idle /\ ops = Idle /\ page = Idle
         /\ last = Idle /\ drawn = Idle /\ phase = Idle /\ NoCollect /\ NoList
         /\ NoMerge /\ NoResources /\ NoForms /\ NoBlocks /\ NoLayout /\ NoTable
         /\ NoWrap
    \/ part = "pages" /\ PagesInit
         /\ doc = Idle /\ outline = Idle /\ pc = Idle /\ calls = Idle
         /\ page = Idle /\ last = Idle /\ drawn = Idle /\ phase = Idle /\ NoCollect
         /\ NoSign /\ NoMerge /\ NoResources /\ NoForms /\ NoBlocks /\ NoLayout
         /\ NoTable /\ NoWrap
    \/ part = "merge" /\ Merge!Init
         /\ doc = Idle /\ outline = Idle /\ calls = Idle
         /\ pages = Idle /\ ops = Idle /\ last = Idle /\ drawn = Idle /\ phase = Idle
         /\ NoCollect /\ NoSign /\ NoList /\ NoResources /\ NoForms /\ NoBlocks
         /\ NoLayout /\ NoTable /\ NoWrap
    \/ part = "resources" /\ Resources!Init
         /\ doc = Idle /\ outline = Idle /\ pc = Idle /\ ops = Idle
         /\ page = Idle /\ drawn = Idle /\ phase = Idle /\ NoCollect /\ NoSign /\ NoList
         /\ NoMerge /\ NoForms /\ NoBlocks /\ NoLayout /\ NoTable /\ NoWrap
    \/ part = "form" /\ Forms!Init
         /\ outline = Idle /\ pc = Idle /\ calls = Idle /\ pages = Idle
         /\ drawn = Idle /\ phase = Idle /\ NoCollect /\ NoSign /\ NoList /\ NoMerge
         /\ NoResources /\ NoBlocks /\ NoLayout /\ NoTable /\ NoWrap
    \/ part = "blocks" /\ Blocks!Init
         /\ doc = Idle /\ outline = Idle /\ pc = Idle /\ calls = Idle
         /\ pages = Idle /\ ops = Idle /\ last = Idle /\ NoCollect /\ NoSign /\ NoList
         /\ NoMerge /\ NoResources /\ NoForms /\ NoLayout /\ NoTable /\ NoWrap
    \/ part = "layout" /\ Layout!Init
         /\ doc = Idle /\ pc = Idle /\ calls = Idle /\ ops = Idle
         /\ page = Idle /\ last = Idle /\ drawn = Idle /\ NoCollect /\ NoSign /\ NoList
         /\ NoMerge /\ NoResources /\ NoForms /\ NoBlocks /\ NoTable /\ NoWrap
    \/ part = "table" /\ Table!Init
         /\ doc = Idle /\ outline = Idle /\ pc = Idle /\ calls = Idle
         /\ pages = Idle /\ ops = Idle /\ page = Idle /\ last = Idle /\ phase = Idle
         /\ NoCollect /\ NoSign /\ NoList /\ NoMerge /\ NoResources /\ NoForms
         /\ NoBlocks /\ NoLayout /\ NoWrap
    \/ part = "wrap" /\ Wrap!Init
         /\ doc = Idle /\ outline = Idle /\ pc = Idle /\ calls = Idle
         /\ pages = Idle /\ ops = Idle /\ page = Idle /\ last = Idle /\ drawn = Idle
         /\ phase = Idle /\ NoCollect /\ NoSign /\ NoList /\ NoMerge /\ NoResources
         /\ NoForms /\ NoBlocks /\ NoLayout /\ NoTable

CollectStep ==
    /\ part = "collect" /\ CollectNext
    /\ UNCHANGED <<part, calls, pages, ops, page, last, drawn, phase, signvars, pagesvars,
        mergevars, resourcesvars, formvars, blocksvars, layoutvars, tablevars, wrapvars>>
SignStep ==
    /\ part = "sign" /\ SignNext
    /\ UNCHANGED <<part, doc, outline, pc, pages, ops, page, last, drawn, phase, collectvars, pagesvars,
        mergevars, resourcesvars, formvars, blocksvars, layoutvars, tablevars, wrapvars>>
ListStep ==
    /\ part = "pages" /\ PagesNext
    /\ UNCHANGED <<part, doc, outline, pc, calls, page, last, drawn, phase, collectvars,
        signvars, mergevars, resourcesvars, formvars, blocksvars, layoutvars, tablevars,
        wrapvars>>
MergeStep ==
    /\ part = "merge" /\ Merge!Next
    /\ UNCHANGED <<part, doc, outline, calls, pages, ops, last, drawn, phase, collectvars,
        signvars, pagesvars, resourcesvars, formvars, blocksvars, layoutvars, tablevars,
        wrapvars>>
ResourcesStep ==
    /\ part = "resources" /\ Resources!Next
    /\ UNCHANGED <<part, doc, outline, pc, ops, page, drawn, phase, collectvars, signvars,
        pagesvars, mergevars, formvars, blocksvars, layoutvars, tablevars, wrapvars>>
FormsStep ==
    /\ part = "form" /\ Forms!Next
    /\ UNCHANGED <<part, outline, pc, calls, pages, drawn, phase, collectvars, signvars,
        pagesvars, mergevars, resourcesvars, blocksvars, layoutvars, tablevars, wrapvars>>
BlocksStep ==
    /\ part = "blocks" /\ Blocks!Next
    /\ UNCHANGED <<part, doc, outline, pc, calls, pages, ops, last, collectvars, signvars,
        pagesvars, mergevars, resourcesvars, formvars, layoutvars, tablevars, wrapvars>>
LayoutStep ==
    /\ part = "layout" /\ Layout!Next
    /\ UNCHANGED <<part, doc, pc, calls, ops, page, last, drawn, collectvars, signvars,
        pagesvars, mergevars, resourcesvars, formvars, blocksvars, tablevars, wrapvars>>
TableStep ==
    /\ part = "table" /\ Table!Next
    /\ UNCHANGED <<part, doc, outline, pc, calls, pages, ops, page, last, phase,
        collectvars, signvars, pagesvars, mergevars, resourcesvars, formvars, blocksvars,
        layoutvars, wrapvars>>
WrapStep ==
    /\ part = "wrap" /\ Wrap!Next
    /\ UNCHANGED <<part, doc, outline, pc, calls, pages, ops, page, last, drawn, phase,
        collectvars, signvars, pagesvars, mergevars, resourcesvars, formvars, blocksvars,
        layoutvars, tablevars>>

Next == CollectStep \/ SignStep \/ ListStep \/ MergeStep \/ ResourcesStep \/ FormsStep \/ BlocksStep \/ LayoutStep \/ TableStep \/ WrapStep

Spec == Init /\ [][Next]_vars

-----------------------------------------------------------------------------
\* After MergePageWith, with the resources renamed and merged in the random
\* order of a map, every name in the content of both pages still stands for the
\* resource that it stood for before; and so does every name that a watermark
\* or a form was put under, on pages that share dictionaries too, while
\* contents stay in the order in which they were added; and so does every name
\* in the blocks that the creator merges into pages.
MergedContentKept ==
    /\ part = "merge" => Merge!SourceKept /\ Merge!MergedKept
    /\ part = "resources" => Resources!NamesStayOwn /\ Resources!ContentsInOrder /\ Resources!WatermarksDrawTheirImage /\ Resources!ColoursWritten
    /\ part = "blocks" => Blocks!NamesStand /\ Blocks!OperationsKept

\* Whatever is written first, the page or the form, a dictionary that a field
\* and its widget share has the entries of both, those of its type, and the
\* value that was filled in.
FieldsKept ==
    part = "form" => Forms!DictsWhole /\ Forms!TypeKeysBack /\ Forms!FilledWritten

\* Flattening leaves no widget that belongs to a field on a page, and a
\* repaired form needs no repair.
FormEditsSettle ==
    part = "form" => Forms!FlattenedGone /\ Forms!RepairSettles

\* What is drawn with the creator is on the pages whole, once, in its order,
\* without overlaps and within the margins, also when it goes over pages or is
\* a table, whose header is repeated; wrapping loses no text; and after
\* Finalize the contents, the outline and the headers name the right pages.
LaidOut ==
    /\ part = "layout" => Layout!FitsPage /\ Layout!InOrder /\ Layout!DrawnWhole /\ Layout!PagesNamed /\ Layout!Numbered
    /\ part = "table" => Table!CellsHavePlaces /\ Table!DrawnOnce /\ Table!RowsApart /\ Table!HeadersRepeated /\ Table!ContentsShown /\ Table!DrawnAgain
    /\ part = "wrap" => Wrap!TextKept /\ Wrap!LinesFit /\ Wrap!WrappedAlike
=============================================================================

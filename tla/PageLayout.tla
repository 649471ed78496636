----------------------------- MODULE PageLayout -----------------------------
(***************************************************************************)
(* The creator (creator/creator.go) and what is drawn with it: paragraphs, *)
(* styled paragraphs, images, blocks, page breaks, divisions, chapters.    *)
(* A Drawable turns itself into blocks, one for each page it goes over,    *)
(* and a new context; Draw gives the blocks to pages; Finalize puts a      *)
(* front page and the table of contents before them, corrects the page     *)
(* numbers and draws headers.                                              *)
(* Only the vertical dimension is kept.  A Drawable is a sequence of       *)
(* instructions: chapters and divisions hold others and merge the first    *)
(* block of each into the last one before it, which is one running list.   *)
(* Everything is done by one goroutine.                                    *)
(***************************************************************************)
EXTENDS Integers, Sequences, SequencesExt, FiniteSets, FiniteSetsExt

CONSTANTS
    PageHeight, Top, Bottom, \* of the pages that the creator makes
    OtherHeight,             \* of a page that is added
    Drawables,               \* sequences of instructions
    FrontPages,              \* what a front page function may draw; <<>>: there is none
    WidePage,                \* the page number that makes a line of the contents longer
    MaxDraws, MaxPages,
    Idle

VARIABLES
    pages,    \* the pages, by number
    size,     \* their heights
    boxes,    \* what is drawn on each: the page blocks
    context,  \* the drawing context; stale: its height does not go with its y
    active,   \* the active page, or 0
    toc,      \* lines of the table of contents
    outline,  \* chapter -> destination
    job,      \* the drawing that goes on
    phase,    \* "drawing", the steps of Finalize, "finalized"
    genpages, \* pages that Finalize counts on adding
    log       \* the drawings, and what has happened

vars == <<pages, size, boxes, context, active, toc, outline, job, phase, genpages, log>>

-----------------------------------------------------------------------------
(* Pages.                                                                   *)

\* initContext, which newPage calls.
initContext(c) ==
    [c EXCEPT !.y = Top, !.height = PageHeight - Bottom - Top, !.pageHeight = PageHeight, !.top = Top, !.bottom = Bottom,
              !.stale = FALSE]

\* NewPage, n times; page is the context's page number.
NewPages(c, n) == IF n = 0 THEN c ELSE [initContext(c) EXCEPT !.page = @ + n]

Ids(n) == [i \in 1 .. n |-> Len(size) + i]

-----------------------------------------------------------------------------
(* GeneratePageBlocks of the things that can be drawn.                      *)

Piece(i, c, y, h, n) ==
    [draw |-> n, kind |-> i.kind, top |-> c.pageHeight - y, h |-> h, of |-> c, low |-> i.bottom, margin |-> i.top,
     chapter |-> i.chapter, stale |-> c.stale]

Put(j, p) == [j EXCEPT !.blocks = Append(Front(@), Append(Last(@), p))]

NewBlock(j) == [j EXCEPT !.blocks = Append(@, <<>>)]

\* The top of a new page, within a drawing.
NextPage(c, low) ==
    [c EXCEPT !.page = @ + 1, !.y = c.top, !.height = c.pageHeight - c.top - c.bottom - low, !.stale = FALSE]

Moved(c, dy) == [c EXCEPT !.y = @ + dy, !.height = @ - dy]

WithMargins(c, i) == [c EXCEPT !.y = @ + i.top, !.height = @ - (i.top + i.bottom)]

\* A paragraph that does not fit goes to the next page as a whole.
ParagraphAt(j, i, c) == [Put(j, Piece(i, c, c.y, i.h, j.draw)) EXCEPT !.ctx = Moved(c, i.h + i.bottom)]

\* Variant: it stays on its page.
Paragraph_InPlace(j, i, c) == ParagraphAt(j, i, c)

Paragraph(j, i, c) ==
    IF i.h > c.height THEN ParagraphAt(NewBlock(j), i, NextPage(c, i.bottom)) ELSE ParagraphAt(j, i, c)

\* A styled paragraph is divided between lines.
LineHeights(lines) ==
    LET sum[k \in 0 .. Len(lines)] == IF k = 0 THEN 0 ELSE sum[k - 1] + lines[k] IN sum

FittingLines(sums, height) == Max({0} \cup {k \in DOMAIN sums : \A l \in 1 .. k : sums[l] <= height})

StyledOn(j, i, c, n, h) ==
    LET put == [(IF n = 0 THEN j ELSE Put(j, Piece(i, c, c.y, h, j.draw))) EXCEPT !.ctx = Moved(c, h + i.bottom)]
    IN  IF n = Len(i.lines) THEN put
        ELSE [NewBlock(put) EXCEPT !.ctx = NextPage(c, i.bottom),
                                   !.todo = <<[i EXCEPT !.lines = SubSeq(@, n + 1, Len(@)), !.started = TRUE]>> \o @]

StyledParagraph(j, i, c, sums) == StyledOn(j, i, c, FittingLines(sums, c.height), sums[FittingLines(sums, c.height)])

\* An image is measured without its margins; on a new page it has no top margin.
ImageAt(j, i, c) == [Put(j, Piece(i, c, c.y, i.h, j.draw)) EXCEPT !.ctx = Moved(c, i.h + i.bottom)]

Image(j, i, c) ==
    IF i.h > c.height THEN ImageAt(NewBlock(j), i, NextPage(c, i.bottom)) ELSE ImageAt(j, i, WithMargins(c, i))

\* A block is never divided or moved; the height that is left is not updated.
Block(j, i, c) ==
    [Put(j, Piece(i, c, c.y, i.h, j.draw)) EXCEPT !.ctx = [c EXCEPT !.y = @ + i.h, !.stale = TRUE]]

\* Anything with an absolute position leaves the context as it was.
Absolute(j, i, c) == Put(j, Piece(i, c, i.top, i.h, j.draw))

PageBreak(j, c) == [NewBlock(j) EXCEPT !.ctx = NextPage(c, 0)]

\* The margins of a chapter and of a division.
ChapterStart(j, i, c) == [j EXCEPT !.ctx = Moved(c, i.top)]
DivisionStart(j, i, c) == [j EXCEPT !.ctx = WithMargins(c, i)]

Generate(j, i) ==
    CASE i.kind \in {"paragraph", "heading"} -> Paragraph(j, i, WithMargins(j.ctx, i))
      [] i.kind = "styled" -> StyledParagraph(j, i, IF i.started THEN j.ctx ELSE WithMargins(j.ctx, i), LineHeights(i.lines))
      [] i.kind = "image" -> Image(j, i, j.ctx)
      [] i.kind = "block" -> Block(j, i, j.ctx)
      [] i.kind = "absolute" -> Absolute(j, i, j.ctx)
      [] i.kind = "break" -> PageBreak(j, j.ctx)
      [] i.kind = "chapter" -> ChapterStart(j, i, j.ctx)
      [] i.kind = "division" -> DivisionStart(j, i, j.ctx)

\* What stands for the table of contents in the outline.
TocChapter == -1

\* The table of contents: its heading, and a line for each entry.
TocLine(l) ==
    [kind |-> "styled", lines |-> IF l.text >= WidePage THEN <<1, 1>> ELSE <<1>>, h |-> 0, top |-> 0, bottom |-> 0,
     chapter |-> 0, started |-> FALSE]

TocHeading == [TocLine([text |-> 0]) EXCEPT !.chapter = TocChapter]

TocDrawable(lines) == <<TocHeading>> \o [i \in DOMAIN lines |-> TocLine(lines[i])]

-----------------------------------------------------------------------------
(* Drawing.                                                                 *)

Init ==
    /\ pages = <<>> /\ size = <<>> /\ boxes = <<>>
    /\ context = [page |-> 0, y |-> 0, height |-> 0, pageHeight |-> 0, top |-> 0, bottom |-> 0, stale |-> FALSE]
    /\ active = 0 /\ toc = <<>> /\ outline = <<>>
    /\ job = Idle /\ phase = "drawing" /\ genpages = 0
    /\ log = [draws |-> <<>>, front |-> <<>>, addTOC |-> FALSE, estimate |-> 0, actual |-> 0, over |-> 0, failed |-> FALSE, gaveUp |-> FALSE]

NewPage ==
    /\ phase = "drawing" /\ job = Idle /\ Len(pages) < MaxPages
    /\ pages' = pages \o Ids(1) /\ size' = Append(size, PageHeight) /\ boxes' = Append(boxes, <<>>)
    /\ context' = NewPages(context, 1)
    /\ UNCHANGED <<active, toc, outline, job, phase, genpages, log>>

\* AddPage: the height that is left, and the margins, stay what they were.
AddPage ==
    /\ phase = "drawing" /\ job = Idle /\ Len(pages) < MaxPages
    /\ pages' = pages \o Ids(1) /\ size' = Append(size, OtherHeight) /\ boxes' = Append(boxes, <<>>)
    /\ context' = [context EXCEPT !.y = Top, !.pageHeight = OtherHeight, !.page = @ + 1, !.stale = TRUE]
    /\ UNCHANGED <<active, toc, outline, job, phase, genpages, log>>

Job(d, c, n) == [todo |-> d, blocks |-> <<<<>>>>, ctx |-> c, draw |-> n]

Draw(d) ==
    /\ phase = "drawing" /\ job = Idle /\ Len(log.draws) < MaxDraws
    /\ IF pages = <<>>
       THEN /\ pages' = Ids(1) /\ size' = <<PageHeight>> /\ boxes' = <<<<>>>>
            /\ context' = NewPages(context, 1)
       ELSE UNCHANGED <<pages, size, boxes, context>>
    /\ job' = Job(Drawables[d], context', Len(log.draws) + 1)
    /\ log' = [log EXCEPT !.draws = Append(@, d)]
    /\ UNCHANGED <<active, toc, outline, phase, genpages>>

\* One instruction.  A chapter notes where its heading is: in the table of contents, each
\* time it is drawn, and in the outline.
Note(i, c) ==
    IF i.kind # "heading" THEN UNCHANGED <<toc, outline>>
    ELSE /\ toc' = Append(toc, [chapter |-> i.chapter, text |-> c.page, link |-> c.page, y |-> c.y - i.h])
         /\ outline' = [x \in DOMAIN outline \cup {i.chapter} |->
                          IF x = i.chapter THEN [page |-> c.page - 1, y |-> c.y - i.h] ELSE outline[x]]

GenerateStep ==
    /\ job # Idle /\ job.todo # <<>> /\ Head(job.todo).kind # "fail"
    /\ job' = Generate([job EXCEPT !.todo = Tail(@)], Head(job.todo))
    /\ Note(Head(job.todo), job'.ctx)
    /\ UNCHANGED <<pages, size, boxes, context, active, phase, genpages, log>>

\* Something cannot be drawn: Draw gives up, and what a chapter has noted stays.
GenerateFails ==
    /\ job # Idle /\ job.todo # <<>> /\ Head(job.todo).kind = "fail"
    /\ job' = Idle
    /\ log' = [log EXCEPT !.gaveUp = TRUE]
    /\ UNCHANGED <<pages, size, boxes, context, active, toc, outline, phase, genpages>>

\* The blocks go to the active page and to new pages after the last; but if a page has
\* been set as the active one, all of them go there.
getActivePage(k, new) == IF active # 0 THEN active ELSE IF k = 1 THEN Last(pages) ELSE new[k - 1]

PutOn(boxes0, blocks, new) ==
    [p \in DOMAIN boxes0 |-> boxes0[p] \o FlattenSeq([k \in DOMAIN blocks |-> IF getActivePage(k, new) = p THEN blocks[k] ELSE <<>>])]

Blocks(blocks, new) ==
    /\ pages' = pages \o new
    /\ size' = size \o [i \in DOMAIN new |-> PageHeight]
    /\ boxes' = PutOn(boxes \o [i \in DOMAIN new |-> <<>>], blocks, new)

After(c, ctx) == [c EXCEPT !.y = ctx.y, !.height = ctx.pageHeight - ctx.y - ctx.bottom, !.stale = FALSE]

FinishDraw ==
    /\ phase = "drawing" /\ job # Idle /\ job.todo = <<>>
    /\ Blocks(job.blocks, Ids(Len(job.blocks) - 1))
    /\ context' = After(NewPages(context, Len(job.blocks) - 1), job.ctx)
    /\ job' = Idle
    /\ UNCHANGED <<active, toc, outline, phase, genpages, log>>

-----------------------------------------------------------------------------
(* Finalize.                                                                *)

FrontPage == log.front

\* The front page function, if there is one, and AddTOC have been set before.
Finalize(front, addTOC) ==
    /\ phase = "drawing" /\ job = Idle /\ pages # <<>>
    /\ log.failed => front = log.front /\ addTOC
    /\ phase' = "estimate"
    /\ context' = IF addTOC THEN [initContext(context) EXCEPT !.page = (IF front = <<>> THEN 0 ELSE 1) + 1] ELSE context
    /\ job' = Job(IF addTOC THEN TocDrawable(toc) ELSE <<>>, context', 0)
    /\ log' = [log EXCEPT !.front = front, !.addTOC = addTOC]
    /\ UNCHANGED <<pages, size, boxes, active, toc, outline, genpages>>

\* The number of pages that will be added is estimated, the numbers in the table of
\* contents are raised, and the front page is put first and drawn.
Estimated ==
    /\ phase = "estimate" /\ job.todo = <<>>
    /\ genpages' = (IF FrontPage = <<>> THEN 0 ELSE 1) + (IF log.addTOC THEN Len(job.blocks) ELSE 0)
    /\ toc' = IF ~log.addTOC THEN toc ELSE [i \in DOMAIN toc |-> [toc[i] EXCEPT !.text = @ + genpages']]
    /\ log' = [log EXCEPT !.estimate = Len(job.blocks)]
    /\ phase' = "front"
    /\ IF FrontPage = <<>>
       THEN job' = Job(<<>>, context, 0) /\ UNCHANGED <<pages, size, boxes, context, active>>
       ELSE /\ pages' = Ids(1) \o pages /\ size' = Append(size, PageHeight) /\ boxes' = Append(boxes, <<>>)
            /\ active' = Len(size) + 1
            /\ context' = initContext(context)
            /\ job' = Job(FrontPage, context', 0)
    /\ UNCHANGED outline

FrontDrawn ==
    /\ phase = "front" /\ job.todo = <<>>
    /\ IF FrontPage = <<>> THEN UNCHANGED <<pages, size, boxes>> ELSE Blocks(job.blocks, Ids(Len(job.blocks) - 1))
    /\ log' = [log EXCEPT !.over = Len(job.blocks) - 1]
    /\ IF log.addTOC
       THEN /\ context' = initContext(context)
            /\ toc' = [i \in DOMAIN toc |-> [toc[i] EXCEPT !.link = @ + genpages]]
            /\ job' = Job(TocDrawable(toc), context', 0)
            /\ phase' = "toc"
       ELSE /\ context' = IF FrontPage = <<>> THEN context ELSE After(NewPages(context, Len(job.blocks) - 1), job.ctx)
            /\ job' = Idle
            /\ phase' = "headers"
            /\ UNCHANGED toc
    /\ UNCHANGED <<active, outline, genpages>>

\* The function that makes the table of contents, called for the second time, fails:
\* Finalize returns its error, and what has been done stays.
TocFails ==
    /\ phase = "front" /\ job.todo = <<>> /\ log.addTOC /\ ~log.failed
    /\ IF FrontPage = <<>> THEN UNCHANGED <<pages, size, boxes>> ELSE Blocks(job.blocks, Ids(Len(job.blocks) - 1))
    /\ log' = [log EXCEPT !.failed = TRUE]
    /\ context' = initContext(context)
    /\ job' = Idle
    /\ phase' = "drawing"
    /\ UNCHANGED <<active, toc, outline, genpages>>

\* The table of contents goes on pages after the front page.
TocDrawn ==
    /\ phase = "toc" /\ job.todo = <<>>
    /\ LET new == Ids(Len(job.blocks))
       IN  /\ pages' = IF FrontPage = <<>> THEN new \o pages ELSE <<Head(pages)>> \o new \o Tail(pages)
           /\ size' = size \o [i \in DOMAIN new |-> PageHeight]
           /\ boxes' = boxes \o job.blocks
           /\ active' = Last(new)
    /\ context' = initContext(context)
    /\ job' = Idle
    /\ phase' = "headers"
    /\ log' = [log EXCEPT !.actual = Len(job.blocks)]
    /\ UNCHANGED <<toc, outline, genpages>>

\* The number of pages that headers speak of: pages that a drawing of the front page has
\* added are not counted.
TotalPages == Len(pages) - log.over

Header(n) ==
    [draw |-> 0, kind |-> "header", top |-> PageHeight, h |-> 0, of |-> context, low |-> 0, margin |-> 0, chapter |-> 0,
     stale |-> FALSE, number |-> n, total |-> TotalPages]

\* The outline is corrected, and gets an item for the table of contents; each page gets
\* its header, and what is drawn is put into it.
Finalized ==
    /\ phase = "headers"
    /\ outline' = [x \in DOMAIN outline \cup (IF log.addTOC THEN {TocChapter} ELSE {}) |->
                      IF x = TocChapter THEN [page |-> IF FrontPage = <<>> THEN 0 ELSE 1, y |-> PageHeight]
                      ELSE [page |-> outline[x].page + genpages, y |-> PageHeight - outline[x].y]]
    /\ boxes' = [p \in DOMAIN boxes |-> Append(boxes[p], Header(CHOOSE n \in DOMAIN pages : pages[n] = p))]
    /\ active' = Last(pages)
    /\ phase' = "finalized"
    /\ UNCHANGED <<pages, size, context, toc, job, genpages, log>>

Next ==
    \/ NewPage \/ AddPage
    \/ \E d \in DOMAIN Drawables : Draw(d)
    \/ GenerateStep \/ GenerateFails \/ FinishDraw
    \/ (\E f \in FrontPages, a \in BOOLEAN : Finalize(f, a)) \/ Estimated \/ FrontDrawn \/ TocFails \/ TocDrawn \/ Finalized

Spec == Init /\ [][Next]_vars

-----------------------------------------------------------------------------
(* Properties.                                                              *)

Flowing(p) == p.kind \in {"paragraph", "heading", "styled", "image"}

\* Nothing that is put in the flow of a page goes over its bottom margin, unless it is
\* higher than a page; but for an image with a top margin, for what comes directly
\* after a block in a chapter or after AddPage, and for a drawing that has come from a
\* page of another height.
FitsPage ==
    \A n \in DOMAIN pages :
        \A k \in DOMAIN boxes[pages[n]] :
            LET p == boxes[pages[n]][k]
            IN  \/ ~Flowing(p) \/ p.stale \/ (p.kind = "image" /\ p.margin > 0)
                \/ p.of.pageHeight # size[pages[n]]
                \/ p.h > p.of.pageHeight - p.of.top - p.of.bottom - p.low
                \/ p.top - p.h >= p.of.bottom

\* What is drawn one after the other follows one below the other, on the same page or on
\* a later one, and never overlaps, unless Finalize has failed.
InOrder ==
    ~log.failed => \A n, m \in DOMAIN pages :
        \A k \in DOMAIN boxes[pages[n]], l \in DOMAIN boxes[pages[m]] :
            LET p == boxes[pages[n]][k]
                q == boxes[pages[m]][l]
            IN  (p.kind = "block" \/ Flowing(p)) /\ (q.kind = "block" \/ Flowing(q)) /\ p.draw > 0 /\ p.draw < q.draw =>
                    \/ n < m
                    \/ (n = m /\ k < l /\ p.top - p.h >= q.top)
                    \/ (n = m /\ p.of.pageHeight # size[pages[n]])

RECURSIVE HeightOf(_)
HeightOf(d) == IF d = <<>> THEN 0 ELSE Head(d).h + HeightOf(Tail(d))

RECURSIVE HeightOn(_, _)
HeightOn(box, n) == IF box = <<>> THEN 0 ELSE (IF Head(box).draw = n THEN Head(box).h ELSE 0) + HeightOn(Tail(box), n)

\* Everything that has been drawn is on the pages, once.
DrawnWhole ==
    (phase = "finalized" \/ (phase = "drawing" /\ job = Idle)) /\ ~log.failed /\ ~log.gaveUp =>
        \A n \in DOMAIN log.draws :
            HeightOf(Drawables[log.draws[n]]) = HeightOn(FlattenSeq([i \in DOMAIN pages |-> boxes[pages[i]]]), n)

\* In the finished document every line of the table of contents, its link and the outline
\* name the page where the heading is, if the table of contents takes as many pages as
\* estimated (its own numbers may make it longer), and the outline also names its place,
\* if it has been drawn for a page of the creator's height.
PagesNamed ==
    phase = "finalized" /\ ~log.failed /\ ~log.gaveUp /\ log.estimate = log.actual =>
        /\ log.addTOC => \A i \in DOMAIN toc :
              /\ toc[i].text = toc[i].link
              /\ \E k \in DOMAIN boxes[pages[toc[i].text]] : boxes[pages[toc[i].text]][k].chapter = toc[i].chapter
        /\ \A x \in DOMAIN outline :
              \E k \in DOMAIN boxes[pages[outline[x].page + 1]] :
                  LET p == boxes[pages[outline[x].page + 1]][k]
                  IN  p.chapter = x /\ (p.top = outline[x].y \/ x = TocChapter \/ p.of.pageHeight # PageHeight)

\* Every page has one header, with its own number and the number of all pages, if the
\* front page does not need another one.
Numbered ==
    phase = "finalized" /\ ~log.failed /\ log.over = 0 =>
        \A n \in DOMAIN pages :
            LET box == SelectSeq(boxes[pages[n]], LAMBDA p : p.kind = "header")
            IN  Len(box) = 1 /\ box[1].number = n /\ box[1].total = Len(pages)

=============================================================================

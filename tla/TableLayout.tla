----------------------------- MODULE TableLayout -----------------------------
(***************************************************************************)
(* Tables of the creator (creator/table.go): how cells get their places,   *)
(* how AddSubtable puts one table into another, and how                    *)
(* GeneratePageBlocks lays the rows out over pages, with header rows       *)
(* repeated at the top of each page.  Lists (creator/list.go) are drawn as *)
(* tables of two columns.                                                  *)
(* Heights are small numbers; widths, borders and colours are left out.    *)
(* The creator is used by one goroutine: a drawing is a sequence of steps, *)
(* one for every cell.                                                     *)
(***************************************************************************)
EXTENDS Integers, Sequences, SequencesExt, FiniteSets, FiniteSetsExt

CONSTANTS
    Contents,      \* what a cell may contain
    Subtables,     \* tables to put in
    Places,        \* rows and columns where they go
    DefaultRowHeight,
    PageArea,      \* height of a page between its margins
    Starts,        \* where on the first page a drawing starts
    Bottoms,       \* bottom margins of the table
    MaxCells, MaxSkips, MaxPages,
    Idle

VARIABLES
    tb,    \* the table; list: it is the one that a list makes
    gen,   \* the drawing that goes on
    drawn, \* what it has drawn
    first  \* what the drawing before it has drawn, and where it started

vars == <<tb, gen, drawn, first>>

\* The sum of the heights of rows from .. to.
Total(heights, from, to) ==
    LET sum[i \in from - 1 .. to] == IF i < from THEN 0 ELSE sum[i - 1] + heights[i]
    IN  IF to < from THEN 0 ELSE sum[to]

-----------------------------------------------------------------------------
(* Making the table.                                                        *)

newTable(n) == [cols |-> n, widths |-> n, rows |-> 0, curCell |-> 0, rowHeights |-> <<>>, cells |-> <<>>, header |-> <<>>,
                list |-> FALSE]

CurRow(t) == ((t.curCell - 1) \div t.cols) + 1
CurCol(t) == ((t.curCell - 1) % t.cols) + 1

Grown(heights, n) == heights \o [i \in 1 .. n - Len(heights) |-> DefaultRowHeight]

\* newCell, for t with curCell moved on; the content is set at once.
Cell(t, span, content) ==
    [row |-> CurRow(t), col |-> CurCol(t), content |-> content,
     colspan |-> Min({Max({span, 1}), t.cols - (CurCol(t) - 1)})]

newCell(t, cell) ==
    [t EXCEPT !.rows = Max({@, cell.row}), !.rowHeights = Grown(@, cell.row),
              !.cells = Append(@, cell), !.curCell = @ + cell.colspan - 1]

Skip(t, n) == IF n < 0 THEN t ELSE [t EXCEPT !.curCell = @ + n]
SkipCells(t, n) == Skip(t, n)
SkipRows(t, n) == Skip(t, n * t.cols - 1)
SkipOver(t, rows, cols) == Skip(t, rows * t.cols + cols - 1)

SetHeaderRows(t, from, to) == IF from <= 0 \/ to < from THEN t ELSE [t EXCEPT !.header = <<from, to>>]

SetRowHeight(t, row, h) == IF row \notin 1 .. Len(t.rowHeights) THEN t ELSE [t EXCEPT !.rowHeights[row] = h]

\* One cell of a subtable, moved to where it belongs.
SubtableCell(t, c, h) ==
    LET last == c.col + c.colspan - 1
    IN  [t EXCEPT !.cols = Max({@, last}), !.widths = Max({@, last}),
                  !.rows = Max({@, c.row}),
                  !.rowHeights = [Grown(@, c.row) EXCEPT ![c.row] = IF c.row > t.rows THEN h ELSE Max({@, h})],
                  !.cells = Append(@, c)]

\* List.GeneratePageBlocks: a new table of markers and items, each time it is drawn.
Marker == [kind |-> "styled", height |-> 1, top |-> 0, bottom |-> 0, valign |-> "top", sub |-> FALSE]

ListTable(items) ==
    LET Added(t, c) == newCell([t EXCEPT !.curCell = @ + 1], Cell([t EXCEPT !.curCell = @ + 1], 1, c))
        made[i \in 0 .. Len(items)] == IF i = 0 THEN newTable(2) ELSE Added(Added(made[i - 1], Marker), items[i])
    IN  [made[Len(items)] EXCEPT !.list = TRUE]

Before(c, d) == c.row < d.row \/ (c.row = d.row /\ c.col < d.col)

AddSubtable(t, row, col, sub) ==
    LET Moved(c) == [c EXCEPT !.row = @ + row - 1, !.col = @ + col - 1]
        added[i \in 0 .. Len(sub.cells)] ==
            IF i = 0 THEN t ELSE SubtableCell(added[i - 1], Moved(sub.cells[i]), sub.rowHeights[sub.cells[i].row])
    IN  [added[Len(sub.cells)] EXCEPT !.cells = SortSeq(@, Before)]

-----------------------------------------------------------------------------
(* Drawing it.                                                              *)

\* The height a cell asks for: a paragraph counts its bottom margin twice, and not the
\* top one; both kinds of paragraph get half a line more.
ContentHeight(c) ==
    CASE c.kind = "paragraph" -> c.height + c.bottom + c.bottom + 1
      [] c.kind = "styled" -> c.height + c.top + c.bottom + 1
      [] OTHER -> c.height + c.top + c.bottom

\* The first pass: rows are raised to what their cells ask for, once and for all.
RaisedRow(t, r) ==
    Max({t.rowHeights[r]} \cup {ContentHeight(t.cells[i].content) : i \in {j \in DOMAIN t.cells : t.cells[j].row = r}})

CalcHeights(t) == [t EXCEPT !.rowHeights = [r \in DOMAIN @ |-> RaisedRow(t, r)]]

HeaderCells(t) ==
    {i \in DOMAIN t.cells : t.header # <<>> /\ t.cells[i].row \in t.header[1] .. t.header[2]}

\* The content does not go on to another page: if it does not fit, it is not drawn at
\* all.  (An image is not measured with its margins.)
Shown(c, room) == IF c.kind = "image" THEN c.height <= room ELSE c.height + c.top + c.bottom <= room

Down(c, h) ==
    CASE c.valign = "middle" -> Max({0, (h - c.height) \div 2})
      [] c.valign = "bottom" -> Max({0, h - c.height})
      [] OTHER -> 0

Room(c, h, left) ==
    CASE c.valign = "middle" -> left - Max({0, (h - c.height) \div 2})
      [] c.valign = "bottom" -> IF h > c.height THEN h ELSE left
      [] OTHER -> left

Piece(g, c, y, h, left) ==
    [page |-> g.page, cell |-> g.at, row |-> c.row, y |-> y, h |-> h, header |-> g.drawingHeaders,
     shown |-> Shown(c.content, Room(c.content, h, left))]

\* The start of GeneratePageBlocks: y is how far down the page area the table begins.
Begin(y, bottom) ==
    [at |-> 1, page |-> 1, ulY |-> y, room |-> PageArea - y, startrow |-> 0, resume |-> 0, resumeStart |-> 0,
     drawingHeaders |-> FALSE, y |-> y, start |-> y, bottom |-> bottom, done |-> FALSE]

\* A cell that does not fit: the next page, at its top or with the header first.
NextPage(g, t, c) ==
    [g EXCEPT !.page = @ + 1, !.ulY = 0, !.room = PageArea,
              !.startrow = IF HeaderCells(t) = {} THEN c.row - 1 ELSE t.header[1] - 1,
              !.resume = IF HeaderCells(t) = {} THEN @ ELSE g.at,
              !.resumeStart = IF HeaderCells(t) = {} THEN @ ELSE c.row - 1,
              !.at = IF HeaderCells(t) = {} THEN @ ELSE Min(HeaderCells(t)),
              !.drawingHeaders = @ \/ HeaderCells(t) # {}]

\* After a cell: the one after it, or the one that has been put off for the header.
AfterCell(g, t, c, yrel, h) ==
    IF g.drawingHeaders /\ g.at + 1 > Max(HeaderCells(t))
    THEN [g EXCEPT !.ulY = @ + yrel + h, !.room = @ - h - yrel, !.startrow = g.resumeStart, !.at = g.resume,
                   !.drawingHeaders = FALSE, !.y = g.ulY + yrel + Down(c.content, h) + h]
    ELSE [g EXCEPT !.at = @ + 1, !.y = g.ulY + yrel + Down(c.content, h) + h]

-----------------------------------------------------------------------------

Init == tb = newTable(2) /\ gen = Idle /\ drawn = <<>> /\ first = Idle

Building == gen = Idle /\ first = Idle /\ ~tb.list

NewCell(span, content) ==
    /\ Building /\ Len(tb.cells) < MaxCells
    /\ LET t == [tb EXCEPT !.curCell = @ + 1] IN tb' = newCell(t, Cell(t, span, content))
    /\ UNCHANGED <<gen, drawn, first>>

\* List.Add takes paragraphs (and other lists, which are not nested here).
MakeList(items) ==
    /\ Building /\ tb = newTable(2)
    /\ \A i \in DOMAIN items : items[i].kind \in {"paragraph", "styled"}
    /\ tb' = ListTable(items)
    /\ UNCHANGED <<gen, drawn, first>>

Skipping(t) ==
    /\ Building /\ Len(tb.cells) < MaxCells /\ tb.curCell < MaxSkips
    /\ tb' = t
    /\ UNCHANGED <<gen, drawn, first>>

Subtable(row, col, sub) ==
    /\ Building /\ Len(tb.cells) + Len(sub.cells) <= MaxCells
    /\ tb' = AddSubtable(tb, row, col, sub)
    /\ UNCHANGED <<gen, drawn, first>>

Header(from, to) ==
    /\ Building /\ tb.header = <<>> /\ Len(tb.cells) = 1
    /\ tb' = SetHeaderRows(tb, from, to)
    /\ tb' # tb
    /\ UNCHANGED <<gen, drawn, first>>

Higher(row) ==
    /\ Building /\ Len(tb.cells) = 1
    /\ tb' = SetRowHeight(tb, row, DefaultRowHeight + 1)
    /\ tb' # tb
    /\ UNCHANGED <<gen, drawn, first>>

\* A drawing; a second one starts where the first did.
Draw(y, bottom) ==
    /\ gen = Idle /\ tb.cells # <<>> /\ (tb.list => bottom = 0)
    /\ IF first = Idle THEN TRUE ELSE first.start = y /\ first.bottom = bottom /\ ~first.again
    /\ tb' = CalcHeights(tb)
    /\ gen' = Begin(y, bottom)
    /\ drawn' = <<>>
    /\ UNCHANGED first

\* The y position and the height of the cell that is next.
Yrel(g, t, c) == Total(t.rowHeights, g.startrow + 1, c.row - 1)

DrawCell ==
    /\ gen # Idle /\ gen.at <= Len(tb.cells) /\ gen.page < MaxPages
    /\ LET c == tb.cells[gen.at]
           h == tb.rowHeights[c.row]
           yrel == Yrel(gen, tb, c)
           moved == NextPage(gen, tb, c)
       IN  IF h <= gen.room - yrel
           THEN /\ drawn' = Append(drawn, Piece(gen, c, gen.ulY + yrel, h, gen.room - yrel))
                /\ gen' = AfterCell(gen, tb, c, yrel, h)
           ELSE IF HeaderCells(tb) # {} THEN gen' = moved /\ UNCHANGED drawn
           ELSE /\ drawn' = Append(drawn, Piece(moved, c, 0, h, PageArea))
                /\ gen' = AfterCell(moved, tb, c, 0, h)
    /\ UNCHANGED <<tb, first>>

\* The end: the context goes on below the table.
Finish ==
    /\ gen # Idle /\ gen.at > Len(tb.cells)
    /\ gen' = Idle
    /\ first' = IF first = Idle
                THEN [start |-> gen.start, bottom |-> gen.bottom, drawn |-> drawn, y |-> gen.y + gen.bottom, again |-> FALSE]
                ELSE [first EXCEPT !.again = TRUE]
    /\ UNCHANGED <<tb, drawn>>

Next ==
    \/ \E span \in {1, 3}, c \in Contents : NewCell(span, c)
    \/ \E items \in [1 .. 2 -> Contents] : MakeList(items)
    \/ Skipping(SkipCells(tb, 1)) \/ Skipping(SkipRows(tb, 1)) \/ Skipping(SkipOver(tb, 1, 1))
    \/ \E at \in Places, sub \in Subtables : Subtable(at[1], at[2], sub)
    \/ \E h \in {<<1, 1>>, <<1, 2>>, <<2, 1>>} : Header(h[1], h[2])
    \/ \E row \in 1 .. 2 : Higher(row)
    \/ \E y \in Starts, b \in Bottoms : Draw(y, b)
    \/ DrawCell
    \/ Finish

Spec == Init /\ [][Next]_vars

-----------------------------------------------------------------------------
(* Properties.                                                              *)

\* Every cell is within the rows and the columns for which the table has heights and
\* widths, whatever has been skipped or put in: GeneratePageBlocks indexes both by the
\* cells.  Cells that were made one after the other never overlap.
CellsHavePlaces ==
    /\ tb.rows = Len(tb.rowHeights) /\ tb.widths = tb.cols
    /\ \A i \in DOMAIN tb.cells :
          LET c == tb.cells[i]
          IN  c.row \in 1 .. tb.rows /\ c.colspan >= 1 /\ c.col + c.colspan - 1 <= tb.widths
    /\ tb.cols = 2 =>
          \A i, j \in DOMAIN tb.cells :
             i < j /\ tb.cells[i].row = tb.cells[j].row /\ ~tb.cells[j].content.sub /\ ~tb.cells[i].content.sub
                => tb.cells[i].col + tb.cells[i].colspan <= tb.cells[j].col

HeaderHeight ==
    IF HeaderCells(tb) = {} THEN 0 ELSE Total(tb.rowHeights, tb.header[1], tb.cells[Max(HeaderCells(tb))].row)

\* Every row fits on a page, below the header, and the cells are in the order of their
\* rows, which a cell that is made after a subtable was put in may not be.
RowsFit ==
    /\ \A r \in DOMAIN tb.rowHeights : tb.rowHeights[r] + HeaderHeight <= PageArea
    /\ \A i \in 1 .. Len(tb.cells) - 1 : tb.cells[i].row <= tb.cells[i + 1].row

Body == SelectSeq(drawn, LAMBDA d : ~d.header)

\* A drawing goes forward: it draws the cells in their order, each of them once beside
\* the headers, and starts no more pages than there are rows.
DrawnOnce ==
    gen # Idle /\ RowsFit =>
        /\ \A i \in DOMAIN Body : Body[i].cell = i
        /\ gen.page <= tb.rows + 1

\* No row of a table is drawn over another one, over the edge of a page or over what was
\* there before.
RowsApart ==
    gen # Idle /\ RowsFit =>
        \A i \in DOMAIN drawn :
            /\ drawn[i].y + drawn[i].h <= PageArea
            /\ drawn[i].page = 1 => drawn[i].y >= gen.start
            /\ \A j \in 1 .. i - 1 :
                  drawn[j].page = drawn[i].page =>
                      \/ drawn[i].y >= drawn[j].y + drawn[j].h
                      \/ (drawn[j].row = drawn[i].row /\ drawn[i].y = drawn[j].y /\ drawn[i].h = drawn[j].h)

\* Each page that a table goes on to starts with all of the header.
HeadersRepeated ==
    gen # Idle /\ RowsFit /\ HeaderCells(tb) # {} =>
        \A p \in 2 .. gen.page :
            LET onPage == SelectSeq(drawn, LAMBDA d : d.page = p)
                n == Min({Len(onPage), Cardinality(HeaderCells(tb))})
            IN  \A k \in 1 .. n : onPage[k].header /\ onPage[k].cell = Min(HeaderCells(tb)) + k - 1

\* The content of a cell is drawn, not dropped, if its row fits: but for a paragraph whose
\* top margin is more than its bottom margin and half a line, and for content with margins
\* in the middle of its cell.
ContentsShown ==
    gen # Idle /\ RowsFit =>
        \A i \in DOMAIN drawn :
            LET c == tb.cells[drawn[i].cell].content
            IN  (c.kind = "paragraph" /\ c.top > c.bottom + 1) \/ (c.valign = "middle" /\ c.top + c.bottom > 0) \/ drawn[i].shown

\* Whoever draws next starts below the table, if its last cell is aligned to the top, and
\* drawing the same table again from the same place gives the same.
DrawnAgain ==
    /\ gen = Idle /\ first # Idle /\ RowsFit =>
          first.y - first.bottom >= Last(first.drawn).y + Last(first.drawn).h
    /\ gen = Idle /\ first # Idle /\ RowsFit /\ Last(tb.cells).content.valign = "top" =>
          first.y - first.bottom = Last(first.drawn).y + Last(first.drawn).h
    /\ gen # Idle /\ first # Idle => IsPrefix(drawn, first.drawn)

=============================================================================

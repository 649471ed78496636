------------------------------ MODULE TextWrap ------------------------------
(***************************************************************************)
(* The wrapping of text into lines: TextChunk.Wrap and Fit                 *)
(* (creator/text_chunk.go), which Paragraph uses, and                      *)
(* StyledParagraph.wrapText (creator/styled_paragraph.go), for text in     *)
(* chunks.  Both are greedy and go by the widths of the runes; here they   *)
(* read the same text side by side, a rune at a step.                      *)
(***************************************************************************)
EXTENDS Naturals, Sequences, SequencesExt, FiniteSetsExt

CONSTANTS
    Texts,     \* sequences of chunks, which are sequences of runes
    Widths,    \* widths of the paragraph; 0: it is not wrapped
    RuneWidth, \* the width of each rune
    Spacing,   \* character spacing
    Space, LF, \* the runes that break lines
    Idle       \* no text yet

VARIABLES
    text,   \* the chunks
    width,  \* the width
    chunk,  \* the chunk that is read
    pos,    \* the runes of it that have been read
    plain,  \* state of Wrap: [lines, line, lineWidth]
    styled, \* state of wrapText: [lines, line, part, lineWidth]
    cut     \* what Fit has left and cut off

vars == <<text, width, chunk, pos, plain, styled, cut>>

-----------------------------------------------------------------------------

\* Widths of a rune: alone, and within a line, with the character spacing.
CharWidth(r) == IF r = Space THEN RuneWidth[r] ELSE RuneWidth[r] + Spacing

Wide[s \in Seq(DOMAIN RuneWidth)] == IF s = <<>> THEN 0 ELSE CharWidth(Head(s)) + Wide[Tail(s)]

\* strings.TrimRightFunc with unicode.IsSpace.
TrimRight(s) ==
    LET keep == {i \in DOMAIN s : s[i] \notin {Space, LF}}
    IN  SubSeq(s, 1, IF keep = {} THEN 0 ELSE Max(keep))

LastSpace(s) == Max({0} \cup {i \in DOMAIN s : s[i] = Space})

\* A line that is full: it ends at its last space, if that is after the rune at from,
\* or else where it is; a space is dropped.  [text, rest]
Break(line, r, from) ==
    LET i == IF r = Space THEN 0 ELSE LastSpace(line)
    IN  IF i > from THEN [text |-> TrimRight(SubSeq(line, 1, i)), rest |-> Append(SubSeq(line, i + 1, Len(line)), r)]
        ELSE [text |-> TrimRight(line), rest |-> IF r = Space THEN <<>> ELSE <<r>>]

WrapFull(s, b) == [lines |-> Append(s.lines, b.text), line |-> b.rest, lineWidth |-> Wide[b.rest]]

\* One rune of TextChunk.Wrap; a line feed stays at the end of its line.
WrapRune(s, r, w) ==
    IF r = LF THEN [lines |-> Append(s.lines, Append(TrimRight(s.line), LF)), line |-> <<>>, lineWidth |-> 0]
    ELSE IF s.lineWidth + RuneWidth[r] > w THEN WrapFull(s, Break(s.line, r, 1))
    ELSE [s EXCEPT !.line = Append(@, r), !.lineWidth = @ + CharWidth(r)]

\* The end of Wrap.
WrapEnd(s) == IF s.line # <<>> THEN Append(s.lines, s.line) ELSE s.lines

StyledFull(s, b) ==
    [lines |-> Append(s.lines, Append(s.line, b.text)), line |-> <<>>, part |-> b.rest, lineWidth |-> Wide[b.rest]]

\* One rune of StyledParagraph.wrapText: only the part that is of this chunk is
\* searched for a space.
StyledRune(s, r, w) ==
    IF r = LF THEN [lines |-> Append(s.lines, Append(s.line, TrimRight(s.part))), line |-> <<>>, part |-> <<>>, lineWidth |-> 0]
    ELSE IF s.lineWidth + RuneWidth[r] > w THEN StyledFull(s, Break(s.part, r, 0))
    ELSE [s EXCEPT !.part = Append(@, r), !.lineWidth = @ + CharWidth(r)]

\* The end of a chunk, and of the paragraph.
ChunkEnd(s) == IF s.part # <<>> THEN [s EXCEPT !.line = Append(@, s.part), !.part = <<>>] ELSE s

StyledEnd(s) == IF s.line # <<>> THEN Append(s.lines, s.line) ELSE s.lines

\* TextChunk.Fit: the lines that fit, and the others, joined by spaces but after line
\* feeds.
Joined(lines) ==
    FlattenSeq([i \in DOMAIN lines |-> IF i = Len(lines) \/ (lines[i] # <<>> /\ Last(lines[i]) = LF) THEN lines[i]
                                       ELSE Append(lines[i], Space)])

Fit(all, lines, n) ==
    IF n >= Len(lines) THEN <<all, <<>>>>
    ELSE <<Joined(SubSeq(lines, 1, n)), Joined(SubSeq(lines, n + 1, Len(lines)))>>

-----------------------------------------------------------------------------

Init ==
    /\ text = Idle /\ width = Idle /\ chunk = 0 /\ pos = 0 /\ cut = Idle
    /\ plain = [lines |-> <<>>, line |-> <<>>, lineWidth |-> 0]
    /\ styled = [lines |-> <<>>, line |-> <<>>, part |-> <<>>, lineWidth |-> 0]

Start(t, w) ==
    /\ text' = t /\ width' = w
    /\ IF w > 0 THEN chunk' = 1 /\ UNCHANGED <<plain, styled>>
       ELSE /\ chunk' = Len(t) + 1
            /\ plain' = [plain EXCEPT !.lines = <<FlattenSeq(t)>>]
            /\ styled' = [styled EXCEPT !.lines = <<t>>]
    /\ UNCHANGED <<pos, cut>>

Reading == text # Idle /\ chunk <= Len(text)
Done == text # Idle /\ chunk > Len(text)

Rune ==
    /\ Reading /\ pos < Len(text[chunk])
    /\ pos' = pos + 1
    /\ plain' = WrapRune(plain, text[chunk][pos + 1], width)
    /\ styled' = StyledRune(styled, text[chunk][pos + 1], width)
    /\ UNCHANGED <<text, width, chunk, cut>>

EndChunk ==
    /\ Reading /\ pos = Len(text[chunk])
    /\ chunk' = chunk + 1 /\ pos' = 0
    /\ styled' = ChunkEnd(styled)
    /\ UNCHANGED <<text, width, plain, cut>>

\* Fit, for a height of n lines.
Cut(n) ==
    /\ Done /\ cut = Idle
    /\ cut' = Fit(FlattenSeq(text), WrapEnd(plain), n)
    /\ UNCHANGED <<text, width, chunk, pos, plain, styled>>

Next == (text = Idle /\ \E t \in Texts, w \in Widths : Start(t, w)) \/ Rune \/ EndChunk \/ \E n \in 0 .. 2 : Cut(n)

Spec == Init /\ [][Next]_vars

-----------------------------------------------------------------------------
(* Properties.                                                              *)

Visible(s) == SelectSeq(s, LAMBDA r : r \notin {Space, LF})

All == FlattenSeq(text)

StyledLines == [i \in DOMAIN StyledEnd(styled) |-> FlattenSeq(StyledEnd(styled)[i])]

\* Neither way of wrapping loses, doubles or reorders a visible rune, and Fit divides
\* the text between what fits and the rest.
TextKept ==
    Done =>
        /\ Visible(FlattenSeq(WrapEnd(plain))) = Visible(All)
        /\ Visible(FlattenSeq(StyledLines)) = Visible(All)
        /\ cut # Idle => Visible(cut[1] \o cut[2]) = Visible(All)

Fits(line) == Len(line) <= 1 \/ Wide[Front(line)] <= width + Spacing

Printed(line) == SelectSeq(line, LAMBDA r : r # LF)

\* In wrapped text, no line goes on beyond the rune with which it exceeds the width of the paragraph.  (It
\* may exceed it by that rune: what is left after the last space, with a rune wider than
\* the space, is not measured again.)
LinesFit ==
    Done /\ width > 0 =>
            /\ \A i \in DOMAIN WrapEnd(plain) : Fits(Printed(WrapEnd(plain)[i]))
            /\ \A i \in DOMAIN StyledLines : Fits(StyledLines[i])

\* Text in one chunk is wrapped in the same way by both, unless a line starts with a
\* space and goes on with a single word.
WrappedAlike ==
    Done /\ width > 0 /\ Len(text) = 1 /\ (\A i \in 1 .. Len(All) : All[i] = Space => i > 1 /\ All[i - 1] \notin {Space, LF}) =>
        [i \in DOMAIN WrapEnd(plain) |-> Printed(WrapEnd(plain)[i])] = StyledLines

=============================================================================

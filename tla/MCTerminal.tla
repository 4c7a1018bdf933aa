----------------------------- MODULE MCTerminal -----------------------------
(* Instances of Terminal for TLC. *)
EXTENDS Terminal

\* Rows of one cell, which scroll, and short rows of several, which are edited.  A
\* terminal of either kind is given the size of the other and its own again, and does
\* its own things when it has its own size.
TallBroad == {[columns |-> 1, rows |-> 4], [columns |-> 3, rows |-> 2]}

Scrolling ==
    /\ Screen.columns = 1 /\ dims.columns = 1
    /\ \/ \E glyph \in Glyphs : Put(glyph, 1)
       \/ LineFeed \/ NewLine \/ ReverseIndex \/ Reset
       \/ \E n \in Counts : NextLine(n)
       \/ \E row \in Places : GoTo(row, 1)
       \/ \E top, bottom \in Places : SetMargins(top, bottom)
       \/ Edit
    /\ Len(primary'.cells) <= 5

\* The short rows are followed no further than the step that fills a second one.
OneRow  == \E r \in 1 .. dims.rows : \A k \in 1 .. dims.rows : k = r \/ Rows(primary)[k] = BlankRow

Editing ==
    /\ Screen.columns = 3 /\ dims.columns = 3 /\ OneRow /\ limit = Default /\ ~compact
    /\ \/ \E glyph \in Glyphs, w \in 1 .. 2 : Put(glyph, w)
       \/ \E row \in 1 .. dims.rows, column \in 1 .. dims.columns : GoTo(row, column)
       \/ \E n \in Counts : InsertCells(n) \/ DeleteCells(n) \/ EraseCells(n)
       \/ EraseLine
       \/ SetModes /\ ~modes'.origin
    /\ scrollback' = << >>

LinesSpec == Init /\ [][Scrolling \/ Editing \/ Setting]_vars

TallWide  == {[columns |-> 0, rows |-> 2], [columns |-> 3, rows |-> 1]}
=============================================================================

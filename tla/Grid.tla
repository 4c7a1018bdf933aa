-------------------------------- MODULE Grid --------------------------------
(***************************************************************************)
(* The grid of cells of a terminal (crates/screen-terminal/src/lib.rs): one *)
(* flat vector, row after row, and the operations that move cells in it by  *)
(* index.  A cell keeps its glyph, "" when it has none, and its width: 2 at *)
(* the start of a wide character, 0 behind it.  Styles are left out.        *)
(*                                                                         *)
(* Nothing ties the length of the vector to the columns and rows but the    *)
(* operations themselves.  Where a range they compute leaves the vector,    *)
(* Vec::drain and Vec::insert panic: ...Fits says that they do not.         *)
(*                                                                         *)
(* An operator named Slip... is its neighbour with one likely slip in it,  *)
(* kept to see which property notices; no specification uses one.          *)
(***************************************************************************)
EXTENDS Basics

CONSTANT Glyphs  \* what the terminal is sent, nothing of it empty

ASSUME GlyphsAssumption == "" \notin Glyphs

Cell == [glyph : Glyphs \cup {""}, width : 0 .. 2]
Dimensions == [columns : Nat \ {0}, rows : Nat \ {0}]
GridType == [cells : Seq(Cell), columns : Nat \ {0}, rows : Nat \ {0}]

Blank        == [glyph |-> "", width |-> 1]
Continuation == [glyph |-> "", width |-> 0]

NewGrid(d) ==
    [cells |-> [p \in 1 .. d.columns * d.rows |-> Blank], columns |-> d.columns, rows |-> d.rows]

Position(g, c, r) == r * g.columns + c

InGrid(g, c, r) == c < g.columns /\ r < g.rows /\ Position(g, c, r) < Len(g.cells)

\* cell(), a blank where there is none.
CellAt(g, c, r) == IF InGrid(g, c, r) THEN g.cells[Position(g, c, r) + 1] ELSE Blank

\* set_cell: what matters is that the index is inside, not that the column is.
WithCell(g, p, cell) == IF p < Len(g.cells) THEN [g EXCEPT !.cells[p + 1] = cell] ELSE g

\* clear_range: the positions from a up to b, b excluded.
Cleared(g, a, b) ==
    [g EXCEPT !.cells = [p \in DOMAIN g.cells |-> IF a < p /\ p <= b THEN Blank ELSE g.cells[p]]]

-----------------------------------------------------------------------------
(* scroll_up and scroll_down: rows leave at one end of the region by        *)
(* Vec::drain, blanks come in at the other by Vec::insert.                  *)

SlipBlanksAt(s, at, n) == SubSeq(s, 1, at) \o [p \in 1 .. n - 1 |-> Blank] \o SubSeq(s, at + 1, Len(s))
SlipEnd(g, bottom)     == Lesser((bottom + 2) * g.columns, Len(g.cells))

Drained(s, a, b)   == SubSeq(s, 1, a) \o SubSeq(s, b + 1, Len(s))
BlanksAt(s, at, n) == SubSeq(s, 1, at) \o [p \in 1 .. n |-> Blank] \o SubSeq(s, at + 1, Len(s))

SlipHeight(top, bottom)     == SatSub(bottom, top)
Height(top, bottom)         == SatSub(bottom, top) + 1
Moved(g, top, bottom, n)    == Lesser(n, Height(top, bottom)) * g.columns
Start(g, top)               == top * g.columns
End(g, bottom)              == (bottom + 1) * g.columns

UpTo(g, top, bottom, n)     == Lesser(Start(g, top) + Moved(g, top, bottom, n), End(g, bottom))
DownFrom(g, top, bottom, n) == SatSub(End(g, bottom), Moved(g, top, bottom, n))
DownTo(g, bottom)           == Lesser(End(g, bottom), Len(g.cells))

UpFits(g, top, bottom, n) ==
    /\ Start(g, top) <= UpTo(g, top, bottom, n)
    /\ UpTo(g, top, bottom, n) <= Len(g.cells)

DownFits(g, top, bottom, n) ==
    /\ DownFrom(g, top, bottom, n) <= DownTo(g, bottom)
    /\ Start(g, top) <= Len(g.cells) - (DownTo(g, bottom) - DownFrom(g, top, bottom, n))

ScrolledUp(g, top, bottom, n) ==
    LET left == Drained(g.cells, Start(g, top), UpTo(g, top, bottom, n))
        at   == Lesser(SatSub(End(g, bottom), Moved(g, top, bottom, n)), Len(left))
    IN  [g EXCEPT !.cells = BlanksAt(left, at, Moved(g, top, bottom, n))]

ScrolledDown(g, top, bottom, n) ==
    LET left == Drained(g.cells, DownFrom(g, top, bottom, n), DownTo(g, bottom))
    IN  [g EXCEPT !.cells = BlanksAt(left, Start(g, top), Moved(g, top, bottom, n))]

-----------------------------------------------------------------------------
(* insert_cells and delete_cells subtract the column from the grid's columns *)
(* unchecked.  Beyond the grid the difference overflows: a build with        *)
(* overflow checks panics, one without goes on with a huge number, and the   *)
(* loops that shift cells then run over nothing.                             *)

Within(g, c) == c <= g.columns
Room(g, c, n) == IF Within(g, c) THEN Lesser(n, g.columns - c) ELSE n

WithInserted(g, c, r, n) ==
    LET k     == Room(g, c, n)
        from  == Position(g, c, r)
        shift == {p \in DOMAIN g.cells :
                     from + k < p /\ p <= Position(g, g.columns, r) /\ r < g.rows}
    IN  [g EXCEPT !.cells =
            [p \in DOMAIN g.cells |->
                IF from < p /\ p <= from + k THEN Blank
                ELSE IF p \in shift THEN g.cells[p - k] ELSE g.cells[p]]]

WithDeleted(g, c, r, n) ==
    LET k     == Room(g, c, n)
        from  == Position(g, c, r)
        end   == Position(g, g.columns, r)
        shift == {p \in DOMAIN g.cells : from < p /\ p <= end - k /\ r < g.rows}
    IN  [g EXCEPT !.cells =
            [p \in DOMAIN g.cells |->
                IF k <= g.columns /\ end - k < p /\ p <= end THEN Blank
                ELSE IF p \in shift /\ p + k <= Len(g.cells) THEN g.cells[p + k] ELSE g.cells[p]]]
=============================================================================

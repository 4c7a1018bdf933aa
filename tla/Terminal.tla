------------------------------ MODULE Terminal ------------------------------
(***************************************************************************)
(* The terminal behind a window (TerminalState in                          *)
(* crates/screen-terminal/src/lib.rs): two grids, the cursor, the scrolling *)
(* region, the modes that steer them, and the scrollback.  An action is a   *)
(* control character, a completed escape sequence, or a call of the daemon. *)
(* What a step leaves of a terminal that panics is of no consequence: the   *)
(* daemon ends with it.                                                     *)
(*                                                                          *)
(* An operator named Slip... is its neighbour with one likely slip in it,   *)
(* kept to see which property notices; no specification uses one.           *)
(***************************************************************************)
EXTENDS Grid

CONSTANTS
    Sizes,     \* the sizes, as requested, that the terminal is made with or resized to
    Counts,    \* parameters of the sequences that count
    Places,    \* parameters of the sequences that name a place, from 1; 0 means 1
    Limits,    \* limits of the scrollback
    Default,   \* the limit of a new terminal
    MaxCells,  \* bound: the cells a grid may grow to when lines go astray
    Features   \* the optional parts of the interface this instance uses

ASSUME TerminalAssumption ==
    /\ Sizes \subseteq [columns : Nat, rows : Nat]
    /\ Counts \subseteq Nat
    /\ Places \subseteq Nat
    /\ Limits \subseteq Nat
    /\ Default \in Nat
    /\ MaxCells \in Nat
    /\ Features \subseteq {"cells", "wide", "lines", "modes", "saving", "alternate", "history"}

VARIABLES
    dims,        \* TerminalState.dimensions
    cursor,      \* TerminalState.cursor
    saved,       \* TerminalState.saved_cursor
    margins,     \* TerminalState.margins
    modes,       \* the modes the others depend on: origin, insert, auto_wrap
    primary,     \* TerminalState.primary
    alternate,   \* TerminalState.alternate while using_alternate: {} or {the grid}
    scrollback,  \* TerminalState.scrollback, oldest line first
    limit,       \* TerminalState.scrollback_max
    compact,     \* TerminalState.compact_history
    panicked     \* an index has left its range

vars == <<dims, cursor, saved, margins, modes, primary, alternate,
          scrollback, limit, compact, panicked>>

Cursor == [column : Nat, row : Nat]
Home   == [column |-> 0, row |-> 0]
Modes  == [origin : BOOLEAN, insert : BOOLEAN, wrap : BOOLEAN]

Normalized(d) == [columns |-> Greater(d.columns, 1), rows |-> Greater(d.rows, 1)]
FullMargins(d) == [top |-> 0, bottom |-> d.rows - 1]

\* grid() and grid_mut().
Screen == IF alternate = {} THEN primary ELSE CHOOSE g \in alternate : TRUE

Show(g) ==
    IF alternate = {} THEN primary' = g /\ UNCHANGED alternate
                      ELSE alternate' = {g} /\ UNCHANGED primary

Clamped(place, d) ==
    [column |-> Lesser(place.column, d.columns - 1), row |-> Lesser(place.row, d.rows - 1)]

-----------------------------------------------------------------------------
(* The scrollback. *)

\* A line of the grid as capture_scrollback copies it, as wide as the terminal.
Line(g, r) == [c \in 1 .. dims.columns |-> CellAt(g, c - 1, r)]

Empty(line) == \A c \in DOMAIN line : line[c].glyph = ""

\* compact_history drops an empty line that follows an empty line.
Kept(back, lines) ==
    LET all  == back \o lines
        keep == {k \in DOMAIN lines :
                    compact /\ Len(back) + k > 1 /\ Empty(lines[k])
                    => ~Empty(all[Len(back) + k - 1])}
        f    == CHOOSE f \in Orders(keep) : TRUE
    IN  [k \in DOMAIN f |-> lines[f[k]]]

\* push_scrollback_line for each of the lines.
Pushed(back, lines) ==
    IF limit = 0 THEN back ELSE LastOnes(back \o Kept(back, lines), limit)

SlipCaptured(g, back, n) ==
    LET end == Lesser(margins.top + n, dims.rows)
    IN  Pushed(back, [k \in 1 .. SatSub(end, margins.top) |-> Line(g, margins.top + k - 1)])

\* capture_scrollback: n rows from the top margin, whatever the bottom margin is.
Captured(g, back, n) ==
    LET end == Lesser(margins.top + n, dims.rows)
    IN  IF alternate # {} THEN back
        ELSE Pushed(back, [k \in 1 .. SatSub(end, margins.top) |-> Line(g, margins.top + k - 1)])

\* rewrap_scrollback: short lines are padded, long ones cut.
Rewrapped(back, columns) ==
    [k \in DOMAIN back |->
        [c \in 1 .. columns |-> IF c <= Len(back[k]) THEN back[k][c] ELSE Blank]]

-----------------------------------------------------------------------------
(* The effect of a sequence on the grid, the row and the scrollback, until   *)
(* it panics.                                                                *)

Now == [grid |-> Screen, row |-> cursor.row, back |-> scrollback, fine |-> TRUE]

ScrollUp(s, top, n) ==
    IF UpFits(s.grid, top, margins.bottom, n)
    THEN [s EXCEPT !.grid = ScrolledUp(s.grid, top, margins.bottom, n)]
    ELSE [s EXCEPT !.fine = FALSE]

ScrollDown(s, top, n) ==
    IF DownFits(s.grid, top, margins.bottom, n)
    THEN [s EXCEPT !.grid = ScrolledDown(s.grid, top, margins.bottom, n)]
    ELSE [s EXCEPT !.fine = FALSE]

SlipCapturing(s, n) ==
    LET up == ScrollUp(s, margins.top, n)
    IN  [up EXCEPT !.back = Captured(up.grid, s.back, n)]

\* scroll_up_csi, and line_feed at the margin.
Capturing(s, n) ==
    ScrollUp([s EXCEPT !.back = Captured(s.grid, s.back, n)], margins.top, n)

\* line_feed: anywhere but above the bottom margin, the region scrolls.
Fed(s) ==
    IF s.row < margins.bottom THEN [s EXCEPT !.row = s.row + 1] ELSE Capturing(s, 1)

SlipFill(g, cell, w) ==
    LET at == Position(g, cursor.column, cursor.row)
        g1 == IF modes.insert THEN WithInserted(g, cursor.column, cursor.row, w) ELSE g
        g2 == WithCell(g1, at, cell)
    IN  IF w = 2 THEN WithCell(g2, at + 1, Continuation) ELSE g2

Fill(g, cell, w) ==
    LET at == Position(g, cursor.column, cursor.row)
        g1 == IF modes.insert THEN WithInserted(g, cursor.column, cursor.row, w) ELSE g
        g2 == WithCell(g1, at, cell)
    IN  IF w = 2 /\ cursor.column + 1 < dims.columns
        THEN WithCell(g2, at + 1, Continuation) ELSE g2

\* A sequence has done s, and leaves the cursor in the column.
Land(s, column) ==
    /\ ~panicked
    /\ Len(s.grid.cells) <= MaxCells
    /\ panicked' = ~s.fine
    /\ cursor' = [column |-> column, row |-> s.row]
    /\ Show(s.grid)
    /\ scrollback' = s.back
    /\ UNCHANGED <<dims, saved, margins, modes, limit, compact>>

\* A build that checks for overflow panics where insert_cells and delete_cells
\* subtract a column beyond the grid.
Overflows ==
    /\ ~panicked
    /\ ~Within(Screen, cursor.column)
    /\ panicked' = TRUE
    /\ UNCHANGED <<dims, cursor, saved, margins, modes, primary, alternate, scrollback, limit, compact>>

MoveTo(column, row) ==
    /\ ~panicked
    /\ cursor' = [column |-> column, row |-> row]
    /\ UNCHANGED <<dims, saved, margins, modes, primary, alternate, scrollback, limit, compact, panicked>>

-----------------------------------------------------------------------------
Init ==
    /\ \E d \in Sizes : dims = Normalized(d)
    /\ cursor = Home
    /\ saved = Home
    /\ margins = FullMargins(dims)
    /\ modes = [origin |-> FALSE, insert |-> FALSE, wrap |-> TRUE]
    /\ primary = NewGrid(dims)
    /\ alternate = {}
    /\ scrollback = <<>>
    /\ limit = Default
    /\ compact = FALSE
    /\ panicked = FALSE

\* put_byte and put_utf8: a character of width w.  The cursor leaves the last
\* column only by wrapping.
Put(glyph, w) ==
    /\ w = 1 \/ "wide" \in Features
    /\ LET s == [Now EXCEPT !.grid = Fill(Screen, [glyph |-> glyph, width |-> w], w)]
       IN  IF cursor.column + w < dims.columns THEN Land(s, cursor.column + w)
           ELSE IF modes.wrap THEN Land(Fed(s), 0)
           ELSE Land(s, cursor.column)

\* LF, VT, FF and IND; NEL with a carriage return.
LineFeed    == Land(Fed(Now), cursor.column)
NewLine     == Land(Fed(Now), 0)

CarriageReturn == MoveTo(0, cursor.row)
Backspace      == MoveTo(SatSub(cursor.column, 1), cursor.row)
Tab            == MoveTo(Lesser((cursor.column \div 8 + 1) * 8, dims.columns - 1), cursor.row)

ReverseIndex ==
    IF cursor.row > margins.top THEN MoveTo(cursor.column, cursor.row - 1)
    ELSE Land(ScrollDown(Now, margins.top, 1), cursor.column)

\* DECSC, SCOSC and mode 1048.
SaveCursor ==
    /\ ~panicked
    /\ saved' = cursor
    /\ UNCHANGED <<dims, cursor, margins, modes, primary, alternate, scrollback, limit, compact, panicked>>

\* The terminal may have been resized since.
RestoreCursor == LET c == Clamped(saved, dims) IN MoveTo(c.column, c.row)

\* RIS: TerminalState::new, the limit of the scrollback included.
Reset ==
    /\ ~panicked
    /\ cursor' = Home
    /\ saved' = Home
    /\ margins' = FullMargins(dims)
    /\ modes' = [origin |-> FALSE, insert |-> FALSE, wrap |-> TRUE]
    /\ primary' = NewGrid(dims)
    /\ alternate' = {}
    /\ scrollback' = <<>>
    /\ limit' = Default
    /\ compact' = FALSE
    /\ UNCHANGED <<dims, panicked>>

-----------------------------------------------------------------------------
(* CSI: moving the cursor. *)

UpperBound == IF modes.origin THEN margins.top ELSE 0
LowerBound == IF modes.origin THEN margins.bottom ELSE dims.rows - 1

\* move_vertical minds one bound only, that of the sign of the offset.
RowAbove(n) == IF n = 0 THEN Lesser(cursor.row, LowerBound)
                        ELSE Greater(SatSub(cursor.row, n), UpperBound)

Up(n)       == MoveTo(cursor.column, RowAbove(n))
PrevLine(n) == MoveTo(0, RowAbove(n))
Down(n)     == MoveTo(cursor.column, Lesser(cursor.row + n, LowerBound))
Right(n)    == MoveTo(Lesser(cursor.column + n, dims.columns - 1), cursor.row)
Left(n)     == MoveTo(SatSub(cursor.column, n), cursor.row)

\* CNL: that many line feeds.
Feeds(s, n) ==
    LET f[k \in 0 .. n] == IF k = 0 THEN s ELSE Fed(f[k - 1])
    IN  f[n]

NextLine(n) == Land(Feeds(Now, n), 0)

\* CUP: relative to the margins in origin mode, but bounded by the screen.
FromZero(p) == SatSub(p, 1)
GoTo(p, q) ==
    LET row == FromZero(p) + (IF modes.origin THEN margins.top ELSE 0)
        c   == Clamped([column |-> FromZero(q), row |-> row], dims)
    IN  MoveTo(c.column, c.row)

Column(q) == MoveTo(Lesser(FromZero(q), dims.columns - 1), cursor.row)

Row(p) ==
    MoveTo(cursor.column,
           IF modes.origin THEN Lesser(margins.top + FromZero(p), margins.bottom)
                           ELSE Lesser(FromZero(p), dims.rows - 1))

SlipSetMargins(p, q) ==
    LET top    == FromZero(p)
        bottom == IF q = 0 THEN dims.rows - 1 ELSE q
    IN  /\ ~panicked
        /\ top < bottom
        /\ margins' = [top |-> top, bottom |-> bottom]
        /\ cursor' = [column |-> 0, row |-> IF modes.origin THEN top ELSE 0]
        /\ UNCHANGED <<dims, saved, modes, primary, alternate, scrollback, limit, compact, panicked>>

\* DECSTBM, which also homes the cursor; 0 stands for the last row.
SetMargins(p, q) ==
    LET top    == FromZero(p)
        bottom == IF q = 0 THEN dims.rows - 1 ELSE q - 1
    IN  /\ ~panicked
        /\ top < bottom
        /\ bottom < dims.rows
        /\ margins' = [top |-> top, bottom |-> bottom]
        /\ cursor' = [column |-> 0, row |-> IF modes.origin THEN top ELSE 0]
        /\ UNCHANGED <<dims, saved, modes, primary, alternate, scrollback, limit, compact, panicked>>

-----------------------------------------------------------------------------
(* CSI: changing the grid.  A count of 0 is taken for 1. *)

AtLeast1(n) == Greater(n, 1)
Shown(g)    == Land([Now EXCEPT !.grid = g], cursor.column)

InsertCells(n) ==
    Shown(WithInserted(Screen, cursor.column, cursor.row, AtLeast1(n)))

DeleteCells(n) ==
    Shown(WithDeleted(Screen, cursor.column, cursor.row, AtLeast1(n)))

EraseCells(n) ==
    Shown(Cleared(Screen, Position(Screen, cursor.column, cursor.row),
                  Position(Screen, Lesser(cursor.column + AtLeast1(n), dims.columns), cursor.row)))

InsertLines(n) == Land(ScrollDown(Now, cursor.row, AtLeast1(n)), cursor.column)
DeleteLines(n) == Land(ScrollUp(Now, cursor.row, AtLeast1(n)), cursor.column)
ScrollLinesUp(n)   == Land(Capturing(Now, AtLeast1(n)), cursor.column)
ScrollLinesDown(n) == Land(ScrollDown(Now, margins.top, AtLeast1(n)), cursor.column)

Here == Position(Screen, cursor.column, cursor.row)

EraseDisplay ==
    \E range \in {<<Here, Len(Screen.cells)>>, <<0, Here + 1>>, <<0, Len(Screen.cells)>>} :
        Shown(Cleared(Screen, range[1], range[2]))

\* The line starts where the grid has it and is as long as the terminal is wide.
EraseLine ==
    LET start == Position(Screen, 0, cursor.row)
        end   == start + dims.columns
    IN  \E range \in {<<Here, end>>, <<start, Here + 1>>, <<start, end>>} :
            Shown(Cleared(Screen, range[1], range[2]))

-----------------------------------------------------------------------------
(* Modes, the alternate screen, and the calls of the daemon. *)

SetModes ==
    /\ ~panicked
    /\ \E m \in DOMAIN modes, on \in BOOLEAN : modes' = [modes EXCEPT ![m] = on]
    /\ UNCHANGED <<dims, cursor, saved, margins, primary, alternate, scrollback, limit, compact, panicked>>

\* Modes 47 and 1047, and 1049, which saves the cursor first, entered before or not.
EnterAlternate(saving) ==
    /\ ~panicked
    /\ saved' = IF saving THEN cursor ELSE saved
    /\ IF alternate = {} THEN alternate' = {NewGrid(dims)} /\ cursor' = Home
                         ELSE UNCHANGED <<alternate, cursor>>
    /\ UNCHANGED <<dims, margins, modes, primary, scrollback, limit, compact, panicked>>

\* The cursor stays where the alternate screen had it.
LeaveAlternate ==
    /\ ~panicked
    /\ alternate' = {}
    /\ UNCHANGED <<dims, cursor, saved, margins, modes, primary, scrollback, limit, compact, panicked>>

\* resize: the dimensions change, the grids do not.
Resize(d) ==
    /\ ~panicked
    /\ dims' = Normalized(d)
    /\ margins' = FullMargins(dims')
    /\ cursor' = Clamped(cursor, dims')
    /\ scrollback' = LastOnes(Rewrapped(scrollback, dims'.columns), limit)
    /\ UNCHANGED <<saved, modes, primary, alternate, limit, compact, panicked>>

SetLimit(n) ==
    /\ ~panicked
    /\ limit' = n
    /\ scrollback' = LastOnes(scrollback, n)
    /\ UNCHANGED <<dims, cursor, saved, margins, modes, primary, alternate, compact, panicked>>

SetCompact ==
    /\ ~panicked
    /\ compact' \in BOOLEAN
    /\ UNCHANGED <<dims, cursor, saved, margins, modes, primary, alternate, scrollback, limit, panicked>>

-----------------------------------------------------------------------------
Text ==
    \/ \E glyph \in Glyphs, w \in 1 .. 2 : Put(glyph, w)
    \/ modes.insert /\ Overflows
    \/ LineFeed \/ NewLine \/ ReverseIndex
    \/ CarriageReturn \/ Backspace \/ Tab
    \/ "saving" \in Features /\ SaveCursor
    \/ RestoreCursor \/ Reset

Motion ==
    \/ \E n \in Counts : Up(n) \/ PrevLine(n) \/ Down(n) \/ Right(n) \/ Left(n) \/ NextLine(n)
    \/ \E p \in Places : Column(p) \/ Row(p)
    \/ \E p, q \in Places : GoTo(p, q) \/ SetMargins(p, q)

Edit ==
    \/ /\ "cells" \in Features
       /\ \/ \E n \in Counts : InsertCells(n) \/ DeleteCells(n) \/ EraseCells(n)
          \/ Overflows
          \/ EraseDisplay \/ EraseLine
    \/ /\ "lines" \in Features
       /\ \E n \in Counts :
             InsertLines(n) \/ DeleteLines(n) \/ ScrollLinesUp(n) \/ ScrollLinesDown(n)

Setting ==
    \/ "modes" \in Features /\ SetModes
    \/ /\ "alternate" \in Features
       /\ \/ \E saving \in BOOLEAN : EnterAlternate(saving)
          \/ LeaveAlternate
    \/ \E d \in Sizes : Resize(d)
    \/ /\ "history" \in Features
       /\ SetCompact \/ \E n \in Limits : SetLimit(n)

Next == Text \/ Motion \/ Edit \/ Setting

Spec == Init /\ [][Next]_vars

-----------------------------------------------------------------------------
(* Properties *)

TypeOK ==
    /\ dims \in Dimensions
    /\ cursor \in Cursor /\ saved \in Cursor
    /\ margins \in [top : Nat, bottom : Nat]
    /\ modes \in Modes
    /\ primary \in GridType
    /\ alternate \in {{}, {Screen}} /\ Screen \in GridType
    /\ scrollback \in Seq(Seq(Cell))
    /\ limit \in Nat
    /\ compact \in BOOLEAN /\ panicked \in BOOLEAN

\* The cursor is always on the screen: no motion, wrap, restored position, margin
\* or resize takes it off, whatever they were computed from.
CursorOnScreen == cursor.column < dims.columns /\ cursor.row < dims.rows

\* The scrolling region is never empty and never leaves the screen, although the
\* screen may be resized under it.
MarginsInside == margins.top <= margins.bottom /\ margins.bottom < dims.rows

\* The scrollback keeps its limit, and its lines are as wide as the terminal:
\* whatever was captured before a resize has been rewrapped.
HistoryHolds ==
    /\ Len(scrollback) <= limit
    /\ \A k \in DOMAIN scrollback : Len(scrollback[k]) = dims.columns

\* line_bytes and dump_screen_rows index the cells of a grid by its columns and
\* rows, unchecked: the cells never become fewer, whatever is drained from them.
GridCovered ==
    \A g \in {primary} \cup alternate : g.columns * g.rows <= Len(g.cells)

\* A grid as the terminal makes it; resizing the terminal undoes that.
Shaped(g) ==
    /\ g.columns = dims.columns /\ g.rows = dims.rows
    /\ Len(g.cells) = g.columns * g.rows

RowOf(g, r)  == SubSeq(g.cells, Position(g, 0, r) + 1, Position(g, 0, r + 1))
BlankRow     == [c \in 1 .. dims.columns |-> Blank]
Rows(g)      == [k \in 1 .. dims.rows |-> RowOf(g, k - 1)]

\* Scrolling by draining and inserting cells of the flat vector is what it should
\* be on rows, from the top margin or from the cursor: those down to the bottom
\* margin move by n, blank ones come in, and the rest stay.
ScrollsByRows ==
    LET bottom == margins.bottom
    IN  Shaped(Screen) =>
        \A top \in {margins.top, cursor.row} \cap (0 .. bottom), n \in 1 .. dims.rows :
            /\ UpFits(Screen, top, bottom, n) /\ DownFits(Screen, top, bottom, n)
            /\ LET up   == ScrolledUp(Screen, top, bottom, n)
                   down == ScrolledDown(Screen, top, bottom, n)
               IN  \A r \in 0 .. dims.rows - 1 :
                     /\ RowOf(up, r) = IF r \notin top .. bottom THEN RowOf(Screen, r)
                                       ELSE IF r + n <= bottom THEN RowOf(Screen, r + n) ELSE BlankRow
                     /\ RowOf(down, r) = IF r \notin top .. bottom THEN RowOf(Screen, r)
                                         ELSE IF r - n >= top THEN RowOf(Screen, r - n) ELSE BlankRow

\* A terminal panics only on a grid that a resize or an earlier mishap has left
\* out of shape, or with the cursor below the scrolling region.
PanicsOnlyAstray ==
    [][ panicked' /\ ~panicked => ~Shaped(Screen) \/ cursor.row > margins.bottom ]_vars

\* While the alternate screen is up, nothing but a reset touches the primary one,
\* and nothing enters the scrollback.
PrimaryKept ==
    [][ alternate # {} /\ ~Reset =>
          primary' = primary /\ Len(scrollback') <= Len(scrollback) ]_vars

Scrolls ==
    \/ LineFeed \/ NewLine \/ ReverseIndex
    \/ \E n \in Counts : InsertLines(n) \/ DeleteLines(n) \/ ScrollLinesUp(n) \/ ScrollLinesDown(n)

\* With the cursor in the scrolling region, whatever scrolls leaves the rows above
\* and below the region as they are.
RegionKept ==
    [][ Scrolls /\ Shaped(Screen) /\ cursor.row \in margins.top .. margins.bottom =>
          \A r \in 0 .. dims.rows - 1 :
              r \notin margins.top .. margins.bottom => RowOf(Screen', r) = RowOf(Screen, r) ]_vars

Tape == scrollback \o Rows(Screen)

\* The scrollback and the screen are one tape: without margins, line feeds lose,
\* repeat and reorder no line of it, but for the oldest beyond the limit; each
\* that does not move the cursor appends an empty line.
TapeContinues ==
    [][ \A n \in Counts \cup {1} :
          /\ NextLine(n) \/ (n = 1 /\ LineFeed)
          /\ Shaped(Screen) /\ margins = FullMargins(dims) /\ alternate = {} /\ ~compact
          => Tape' = LastOnes(Tape \o [k \in 1 .. n - (cursor'.row - cursor.row) |-> BlankRow],
                              limit + dims.rows) ]_vars

EditsRow ==
    \/ EraseLine
    \/ \E n \in Counts : InsertCells(n) \/ DeleteCells(n) \/ EraseCells(n)
    \/ /\ cursor'.column > 0 \/ cursor.row < margins.bottom
       /\ \E glyph \in Glyphs, w \in 1 .. 2 : Put(glyph, w)

\* What edits a line, or writes to it without scrolling, leaves the other lines as
\* they are: no shift and no half of a wide character gets past the last column,
\* in insert mode or not, whether the cursor then wraps or stays there.
RowEditsStay ==
    [][ EditsRow /\ Shaped(Screen) =>
          \A r \in 0 .. dims.rows - 1 : r # cursor.row => RowOf(Screen', r) = RowOf(Screen, r) ]_vars
=============================================================================

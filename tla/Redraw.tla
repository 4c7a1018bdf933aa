------------------------------- MODULE Redraw -------------------------------
(***************************************************************************)
(* What a client that attaches gets to see: the daemon writes the grid of  *)
(* the window again as text and SGR sequences (grid_redraw), and the       *)
(* terminal of the client reads them.                                      *)
(*                                                                         *)
(* Each row starts from a reset, so one row stands for all.  It is filled  *)
(* here in any way at all: the properties hold of every row, whatever the  *)
(* program did to get there.                                               *)
(***************************************************************************)
EXTENDS Rendition, FiniteSets

CONSTANTS Columns,  \* of the window
          Styles    \* the styles in use

ASSUME RedrawAssumption ==
  /\ Columns \in Nat \ {0}
  /\ DefaultStyle \in Styles /\ Styles \subseteq Renditions

VARIABLE row    \* the cells of a row of the window

(* A cell: its text ("" for a blank), its style and its width, which is 2  *)
(* for the first half of a wide character and 0 for the second.            *)
Cell(text, style, width) == [text |-> text, style |-> style, width |-> width]
Blank(style)             == Cell("", style, 1)
Texts == {"a", " "}

-----------------------------------------------------------------------------
(* line_bytes_with_sgr and grid_redraw: what is written, as a sequence of  *)
(* texts and of SGR sequences.                                             *)

TextToken(cell) == [sgr |-> FALSE, text |-> IF cell.text = "" THEN " " ELSE cell.text,
                    width |-> IF cell.width = 2 THEN 2 ELSE 1]
SgrToken(params) == [sgr |-> TRUE, params |-> params]

DrawCell(line, cell) ==
  CASE cell.width = 0 -> line
    [] cell.width # 0 /\ cell.style = line.active ->
         [line EXCEPT !.tokens = Append(@, TextToken(cell))]
    [] OTHER -> [tokens |-> line.tokens \o << SgrToken(SgrDiff(line.active, cell.style)),
                                              TextToken(cell) >>,
                 active |-> cell.style]

(* The spaces at the end are trimmed, as far as no sequence follows them.  *)
IsSpace(token)  == ~token.sgr /\ token.text = " "
Trimmed(tokens) ==
  LET kept == {i \in DOMAIN tokens : ~IsSpace(tokens[i])}
  IN  SubSeq(tokens, 1, IF kept = {} THEN 0 ELSE CHOOSE i \in kept : \A k \in kept : k <= i)

DrawLine(cells) ==
  Trimmed(FoldLeft(DrawCell, [tokens |-> << >>, active |-> DefaultStyle], cells).tokens)

(* grid_redraw: a reset before the row.                                    *)
Drawing(cells) == << SgrToken(<< 0 >>) >> \o DrawLine(cells)

-----------------------------------------------------------------------------
(* The terminal of the client: it shows a text where its cursor is, in the *)
(* style that the sequences before have set.                               *)

Read(line, token) ==
  IF token.sgr THEN [line EXCEPT !.style = AppliedSgr(token.params, @, FALSE)]
  ELSE [line EXCEPT !.cells = @ \o (IF token.width = 2
                                    THEN << Cell(token.text, line.style, 2), Cell("", line.style, 0) >>
                                    ELSE << Cell(token.text, line.style, 1) >>)]

(* A row starts in the first column of a cleared line.                     *)
Shown(tokens) == FoldLeft(Read, [cells |-> << >>, style |-> DefaultStyle], tokens).cells

-----------------------------------------------------------------------------
RowInit == row = [c \in 1 .. Columns |-> Blank(DefaultStyle)]

(* put_byte: a character in place of what was there.                       *)
Write(c, text, style) == row' = [row EXCEPT ![c] = Cell(text, style, 1)]

(* put_utf8: a wide character; its second half is lost beyond the edge.    *)
WriteWide(c, style) ==
  row' = [k \in 1 .. Columns |-> CASE k = c -> Cell("W", style, 2)
                                   [] k = c + 1 -> Cell("", style, 0)
                                   [] OTHER -> row[k]]

(* Erasing keeps the style in force.                                       *)
Erase(c, style) == row' = [row EXCEPT ![c] = Blank(style)]

RowNext == \/ \E c \in 1 .. Columns, text \in Texts, style \in Styles : Write(c, text, style)
           \/ \E c \in 1 .. Columns, style \in Styles : WriteWide(c, style)
           \/ \E c \in 1 .. Columns, style \in Styles : Erase(c, style)

RowSpec == RowInit /\ [][RowNext]_row

-----------------------------------------------------------------------------
(* Properties.                                                             *)

(* Neither half of a wide character stands alone.                          *)
Intact == \A c \in 1 .. Columns :
            /\ row[c].width = 2 => c < Columns /\ row[c + 1].width = 0
            /\ row[c].width = 0 => c > 1 /\ row[c - 1].width = 2

IsBright(color) == color # DefaultColor /\ color[1] = "basic" /\ color[2] >= 8
HasBright       == \E c \in 1 .. Columns : IsBright(row[c].style.fg) \/ IsBright(row[c].style.bg)

(* The spaces of one style at the end of the row.                          *)
AtEnd(c) == \A k \in c .. Columns : row[k].text \in {"", " "} /\ row[k].width = 1
                                   /\ row[k].style = row[c].style

Space(cell)  == IF cell.text = "" /\ cell.width = 1 THEN [cell EXCEPT !.text = " "] ELSE cell
SeenAt(c)    == LET cells == Shown(Drawing(row))
                IN  IF c \in DOMAIN cells THEN cells[c] ELSE Cell(" ", DefaultStyle, 1)

\* Who attaches sees the window: each cell with its text, its width and its style, however
\* the styles follow each other, except for the style of the spaces at the end of a row.
\* (A row that holds half a wide character is drawn shifted, a bright colour is drawn as
\* another: bright red is written as 39, the default colour.  Those rows are left out.)
RedrawShows ==
  Intact /\ ~HasBright =>
    /\ Len(Shown(Drawing(row))) <= Columns
    /\ \A c \in 1 .. Columns :
         \/ SeenAt(c) = Space(row[c])
         \/ AtEnd(c) /\ SeenAt(c) = Cell(" ", DefaultStyle, 1)
=============================================================================

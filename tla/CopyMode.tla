------------------------------ MODULE CopyMode ------------------------------
(***************************************************************************)
(* The client's copy mode (copy_mode_navigate): what its keys do to the    *)
(* view of a window's history.  The client runs it to the end in one       *)
(* call; module Client says when.                                          *)
(*                                                                         *)
(* A line is what the keys can tell of it: how often each query is found   *)
(* in it, and whether the display's width falls inside a character of it.  *)
(* The column is left out: it is only shown, and no selection uses it.     *)
(***************************************************************************)
EXTENDS Basics, SequencesExt

CONSTANTS Histories,   \* what a window's history may be: sequences of lines
          Pages,       \* the lines a terminal shows, its height less two
          Queries      \* what is searched for

Lines == [found : [Queries -> 0 .. 2], splits : BOOLEAN]

ASSUME CopyModeAssumption == Histories \subseteq Seq(Lines) /\ Pages \subseteq Nat

NoMark == -1

(* A view: lines count from 0, hits are the lines of the search's matches  *)
(* in order, hit the place in them, query whether a query is being typed   *)
(* and how much of it is there (none, or some).                            *)
View(lines, page) ==
  [lines |-> lines, page |-> page, cursor |-> SatSub(Len(lines), 1), mark |-> NoMark,
   hits |-> << >>, hit |-> 0, query |-> "closed"]

\* The lines shown are First(v) .. Beyond(v) - 1.
First(v) == Lesser(SatSub(v.cursor, v.page \div 2),
                   SatSub(Len(v.lines), Lesser(v.page, Len(v.lines))))
Beyond(v) == Lesser(First(v) + v.page, Len(v.lines))

\* Cutting a line at the width panics if that is inside a character.
Unshowable(v) == \E i \in First(v) .. Beyond(v) - 1 : v.lines[i + 1].splits

Moves == {"j", "k", "g", "G", "C-f", "C-b", "C-u", "C-d"}
Moved(v, key) ==
  LET Down(n) == Lesser(v.cursor + n, Len(v.lines) - 1) IN
  CASE key = "j"   -> Down(1)
    [] key = "k"   -> SatSub(v.cursor, 1)
    [] key = "g"   -> 0
    [] key = "G"   -> Len(v.lines) - 1
    [] key = "C-f" -> Down(v.page)
    [] key = "C-b" -> SatSub(v.cursor, v.page)
    [] key = "C-u" -> SatSub(v.cursor, v.page \div 2)
    [] key = "C-d" -> Down(v.page \div 2)

\* find_matches: the matches by line, in order.
Matches(lines, q) ==
  FlattenSeq([i \in DOMAIN lines |-> [k \in 1 .. lines[i].found[q] |-> i - 1]])

AtHit(v, n) == [v EXCEPT !.hit = n, !.cursor = v.hits[n + 1]]

SlipSearched(v, q) ==
  LET found == [v EXCEPT !.hits = Matches(v.lines, q), !.query = "closed"]
  IN  IF found.hits = << >> THEN found ELSE [found EXCEPT !.cursor = found.hits[1]]

Searched(v, q) ==
  LET found == [v EXCEPT !.hits = Matches(v.lines, q), !.hit = 0, !.query = "closed"]
  IN  IF found.hits = << >> THEN found ELSE AtHit(found, 0)

NextHit(v) == (v.hit + 1) % Len(v.hits)
PrevHit(v) == IF v.hit = 0 THEN Len(v.hits) - 1 ELSE v.hit - 1

(* The keys that stay in copy mode, while no query is being typed.  The    *)
(* keys of columns and every other key only redraw.                        *)
Stepped(v, key) ==
  CASE key \in Moves -> [v EXCEPT !.cursor = Moved(v, key)]
    [] key \in {"v", "space"} -> [v EXCEPT !.mark = v.cursor]
    [] key = "/" -> [v EXCEPT !.query = "empty"]
    [] key = "n" /\ v.hits # << >> -> AtHit(v, NextHit(v))
    [] key = "N" /\ v.hits # << >> -> AtHit(v, PrevHit(v))
    [] OTHER -> v

(* The keys while a query is being typed: at the end it may be any.  A     *)
(* deletion may empty it.                                                  *)
QueryStepped(v, key) ==
  CASE key = "enter" -> IF v.query = "some" THEN {Searched(v, q) : q \in Queries}
                                            ELSE {[v EXCEPT !.query = "closed"]}
    [] key = "quit"  -> {[v EXCEPT !.query = "closed"]}
    [] key = "erase" -> {v, [v EXCEPT !.query = "empty"]}
    [] key \in {"j", "k"} -> {[v EXCEPT !.query = "some"]}
    [] OTHER -> {v}

Yanks(v, key) == \/ key \in {"y", "enter"}
                 \/ key = "space" /\ v.mark # NoMark

\* collect_selection: the lines from the mark to the cursor, either way round.
Selection(v) ==
  LET from == IF v.mark = NoMark THEN v.cursor ELSE v.mark
  IN  SubSeq(v.lines, Lesser(from, v.cursor) + 1, Greater(from, v.cursor) + 1)

CopyKeys == Moves \union {"v", "space", "/", "n", "N", "y", "enter", "erase", "quit", "column"}
=============================================================================

------------------------------ MODULE Viewing -------------------------------
(***************************************************************************)
(* What the clients of a daemon look at: the one copy mode that all of     *)
(* them share, with its keys, its search and its yanks, and the output of  *)
(* the windows, which moves the history under it and rings bells that wait *)
(* for somebody.  Windows and selections are as module ScreenSession     *)
(* leaves them; here they only exist.                                      *)
(*                                                                         *)
(* A line of a window is its number, counted from the window's first; a    *)
(* history is an interval of them, which grows at the end and, at its      *)
(* limit, loses its oldest.  The column is left out: it is only shown, and *)
(* no selection uses it.                                                   *)
(***************************************************************************)
EXTENDS Basics

CONSTANTS Clients, Windows,
          Rows,        \* the height of a window
          Limit,       \* the most lines a history may hold, the screen's included
          Found,       \* the lines in which the query is found
          Users,       \* bounds the doings: sets of kinds of events, one of which happens
          MaxLines,    \* bounds the lines a window outputs
          MaxCursor    \* bounds the cursor, which j moves past the last line

ASSUME ViewingAssumption ==
  /\ Rows \in Nat \ {0} /\ Limit \in Nat /\ Limit >= Rows
  /\ Found \subseteq Nat /\ MaxLines \in Nat /\ MaxCursor \in Nat /\ MaxCursor >= Limit

VARIABLES user,
          clients,    \* the attached clients: the window each selects, and whether it
                      \* still reads (one that hung up stays until a write finds out)
          selected,   \* the session's selected window
          history,    \* of each window: its oldest line and how many there are
          copy,       \* the session's copy mode
          paste,      \* the newest of the paste buffers: the lines in it
          mark,       \* of the session: the position marked, or NoMark
          pending,    \* the windows whose bell waits for a client
          unheard,    \* those whose bell has rung, and no client that reads was told since
          vain,       \* those whose last bell went to clients of which none could hear it
          marked      \* what was under the mark: a window and a line, while they keep place

vars == <<user, clients, selected, history, copy, paste, mark, pending, unheard, vain, marked>>

NoMark  == -1
Nowhere == [window |-> "none", line |-> 0]

TypeOK ==
  /\ user \in Users
  /\ DOMAIN clients \subseteq Clients
  /\ \A c \in DOMAIN clients : clients[c] \in [window : Windows, reads : BOOLEAN]
  /\ selected \in Windows
  /\ \A w \in Windows : history[w].oldest \in Nat /\ history[w].count \in Rows .. Limit
  /\ copy.active \in BOOLEAN /\ copy.cursor \in Nat /\ copy.query \in {"closed", "empty", "some"}
  /\ mark \in Nat \union {NoMark}

Init ==
  /\ user \in Users /\ selected \in Windows
  /\ clients = [c \in Clients |-> [window |-> selected, reads |-> TRUE]]
  /\ history = [w \in Windows |-> [oldest |-> 0, count |-> Rows]]
  /\ copy = [active |-> FALSE, cursor |-> 0, query |-> "closed", matches |-> << >>, match |-> 0]
  /\ paste = {} /\ mark = NoMark
  /\ pending = {} /\ unheard = {} /\ vain = {} /\ marked = Nowhere

Attached == DOMAIN clients
Kept(S)  == [c \in S |-> clients[c]]
Reading  == {c \in Attached : clients[c].reads}

-----------------------------------------------------------------------------
(* Copy mode.                                                              *)

\* The line at a position of a window's history, counted from 0.
LineAt(h, position) == h.oldest + position
Positions(h) == 0 .. h.count - 1

\* Positions of the lines that match: the empty query is in every line.
Hits(h, query) == {p \in Positions(h) : query = "empty" \/ LineAt(h, p) \in Found}
InOrder(S) == CHOOSE f \in Orders(S) : TRUE

\* The lines from the mark to the cursor, either way round, that there are.
SlipRegion(h, from, to) == {LineAt(h, p) : p \in Positions(h) \intersect (from .. to)}
Region(h, from, to) ==
  {LineAt(h, p) : p \in Positions(h) \intersect (Lesser(from, to) .. Greater(from, to))}

SlipSearch(h) ==
  LET hits == InOrder(Hits(h, copy.query))
      done == [copy EXCEPT !.query = "closed"]
  IN  IF hits = << >> THEN done ELSE [done EXCEPT !.cursor = hits[1], !.matches = hits]
Search(h) ==
  LET hits == InOrder(Hits(h, copy.query))
      done == [copy EXCEPT !.query = "closed"]
  IN  IF hits = << >> THEN done
      ELSE [done EXCEPT !.cursor = hits[1], !.matches = hits, !.match = 0]

(* The keys while a query is typed; deleting may leave nothing of it.      *)
Query(h, key) ==
  CASE key = "enter" -> {Search(h)}
    [] key = "quit"  -> {[copy EXCEPT !.query = "closed"]}
    [] key = "erase" -> {copy, [copy EXCEPT !.query = "empty"]}
    [] key \in {"C-f", "C-b", "C-u", "C-d"} -> {copy}
    [] OTHER         -> {[copy EXCEPT !.query = "some"]}

\* Where a key puts the cursor; only the jumps by pages stop at the last line.
Moves == {"j", "k", "g", "G", "C-f", "C-b", "C-u", "C-d"}
Cursor(h, key) ==
  LET Down(n) == Lesser(copy.cursor + n, SatSub(h.count, 1)) IN
  CASE key = "j"   -> copy.cursor + 1
    [] key = "k"   -> SatSub(copy.cursor, 1)
    [] key = "g"   -> 0
    [] key = "G"   -> SatSub(h.count, 1)
    [] key = "C-f" -> Down(Rows)
    [] key = "C-b" -> SatSub(copy.cursor, Rows)
    [] key = "C-u" -> SatSub(copy.cursor, Rows \div 2)
    [] key = "C-d" -> Down(Rows \div 2)

AtMatch(n) == [copy EXCEPT !.match = n, !.cursor = copy.matches[n + 1]]
Following(n) == (n + 1) % Len(copy.matches)
Preceding(n) == IF n = 0 THEN Len(copy.matches) - 1 ELSE n - 1

SetMark(c, h) ==
  /\ mark' = copy.cursor
  /\ marked' = IF copy.cursor \in Positions(h)
               THEN [window |-> clients[c].window, line |-> LineAt(h, copy.cursor)]
               ELSE Nowhere
  /\ UNCHANGED paste

Yank(h) ==
  /\ paste' = Region(h, IF mark = NoMark THEN copy.cursor ELSE mark, copy.cursor)
  /\ mark' = NoMark /\ marked' = Nowhere

Unmark == mark' = NoMark /\ marked' = Nowhere /\ UNCHANGED paste
Unmarked == UNCHANGED <<mark, marked, paste>>

\* The keys that leave copy mode or use the mark.
Marking(c, h, key) ==
  \/ key = "quit"  /\ copy' = [copy EXCEPT !.active = FALSE] /\ Unmark
  \/ key = "enter" /\ copy' = [copy EXCEPT !.active = FALSE] /\ Yank(h)
  \/ key = "y"     /\ UNCHANGED copy /\ Yank(h)
  \/ key = "space" /\ UNCHANGED copy
                   /\ IF mark = NoMark THEN SetMark(c, h) ELSE Yank(h)

Looking(h, key) ==
  /\ Unmarked
  /\ \/ key \in Moves /\ copy' = [copy EXCEPT !.cursor = Cursor(h, key)]
     \/ key = "/" /\ copy' = [copy EXCEPT !.query = "empty"]
     \/ key = "n" /\ copy.matches # << >> /\ copy' = AtMatch(Following(copy.match))
     \/ key = "N" /\ copy.matches # << >> /\ copy' = AtMatch(Preceding(copy.match))
     \/ key \notin Moves \union {"/", "n", "N"} /\ UNCHANGED copy

CopyKeys == Moves \union {"/", "n", "N", "space", "y", "enter", "quit", "erase", "column"}

(* Input of any client, while copy mode is on, is a key of copy mode, and  *)
(* means the window which that client selects.                             *)
Key(c, key) ==
  /\ "keys" \in user /\ c \in Attached /\ copy.active
  /\ LET h == history[clients[c].window] IN
       \/ copy.query # "closed" /\ copy' \in Query(h, key) /\ Unmarked
       \/ copy.query = "closed" /\ key \in {"quit", "enter", "y", "space"} /\ Marking(c, h, key)
       \/ copy.query = "closed" /\ key \notin {"quit", "enter", "y", "space"} /\ Looking(h, key)
  /\ UNCHANGED <<user, clients, selected, history, pending, unheard, vain>>

(* The messages about copy mode may have been left in the channel by a     *)
(* client that is gone: then there is no window to take lines from.        *)
HistoryOf(c) == history[clients[c].window]

(* Turned on or off, copy mode starts at the top without a mark; a query   *)
(* being typed and the matches of the last one stay.                       *)
CopyModeRequest(c) ==
  /\ user \intersect {"keys", "messages"} # {}
  /\ copy' = [copy EXCEPT !.active = ~copy.active, !.cursor = 0]
  /\ Unmark
  /\ UNCHANGED <<user, clients, selected, history, pending, unheard, vain>>

CopyModeMove(c, delta) ==
  /\ "messages" \in user /\ copy.active
  /\ LET to == Greater(copy.cursor + delta, 0) IN
       copy' = [copy EXCEPT !.cursor =
                  IF c \in Attached THEN Lesser(to, SatSub(HistoryOf(c).count, 1)) ELSE to]
  /\ Unmarked
  /\ UNCHANGED <<user, clients, selected, history, pending, unheard, vain>>

(* The first mark sets it, the second yanks and leaves.                    *)
CopyModeMark(c) ==
  /\ "messages" \in user /\ copy.active
  /\ \/ /\ mark = NoMark /\ UNCHANGED <<copy, paste>>
        /\ mark' = copy.cursor
        /\ marked' = IF c \in Attached /\ copy.cursor \in Positions(HistoryOf(c))
                     THEN [window |-> clients[c].window,
                           line |-> LineAt(HistoryOf(c), copy.cursor)]
                     ELSE Nowhere
     \/ /\ mark # NoMark /\ copy' = [copy EXCEPT !.active = FALSE]
        /\ IF c \in Attached THEN Yank(HistoryOf(c)) ELSE Unmark
  /\ UNCHANGED <<user, clients, selected, history, pending, unheard, vain>>

(* Copies, and keeps both the mark and the mode.                           *)
CopyModeCopy(c) ==
  /\ "messages" \in user /\ copy.active /\ c \in Attached
  /\ paste' = Region(HistoryOf(c), IF mark = NoMark THEN copy.cursor ELSE mark, copy.cursor)
  /\ UNCHANGED <<user, clients, selected, history, copy, mark, marked, pending, unheard, vain>>

-----------------------------------------------------------------------------
(* Output, bells and clients.                                              *)

(* A line goes off the screen; the history at its limit loses its oldest.  *)
Scrolled(h) == IF h.count < Limit THEN [h EXCEPT !.count = h.count + 1]
                                  ELSE [h EXCEPT !.oldest = h.oldest + 1]

\* The mark keeps its line until the window's oldest line is lost.
Displaces(w, h) == marked.window = w /\ h.oldest # history[w].oldest

(* A bell that rang is sent to the clients the daemon has, or kept.        *)
SlipTells(w, rang, listeners) == w \in rang
Tells(w, rang, listeners)     == w \in rang /\ listeners # {}

(* A write to a client that has hung up takes it off.  A new title is      *)
(* written to all, then the bell (unless it is the visible one, whose      *)
(* failures are ignored), then the output to those who select the window.  *)
(* Who hears a bell is a client that still reads; the visible one is raw   *)
(* octets where the client waits for a message, and is no bell to it.      *)
Output(w, scrolls, bell, title, vbell) ==
  /\ user \intersect {"output", "bells"} # {}
  /\ scrolls => "output" \in user
  /\ bell \/ title \/ vbell => "bells" \in user
  /\ LET h         == IF scrolls THEN Scrolled(history[w]) ELSE history[w]
         new       == IF bell THEN {w} ELSE {}
         listeners == IF title THEN Reading ELSE Attached
         tells     == Tells(w, pending \union new, listeners)
         toAll     == title \/ (tells /\ ~vbell)
         hearers   == IF vbell THEN {} ELSE listeners \intersect Reading
     IN  /\ scrolls => h.oldest + h.count <= Rows + MaxLines
         /\ history' = [history EXCEPT ![w] = h]
         /\ marked' = IF Displaces(w, h) THEN Nowhere ELSE marked
         /\ pending' = (pending \union new) \ (IF tells THEN {w} ELSE {})
         /\ unheard' = (unheard \union new) \ (IF tells /\ hearers # {} THEN {w} ELSE {})
         /\ vain' = (vain \ new) \union
                      (IF tells /\ listeners # {} /\ hearers = {} THEN {w} ELSE {})
         /\ clients' = Kept({c \in Attached :
                               clients[c].reads \/ ~(toAll \/ clients[c].window = w)})
  /\ UNCHANGED <<user, selected, copy, paste, mark>>

(* A smaller limit on the history (which then grows to the old one again,  *)
(* as a larger one is set) drops the oldest lines.                         *)
Shorten(w, n) ==
  /\ "output" \in user /\ n < history[w].count
  /\ LET h == [oldest |-> history[w].oldest + history[w].count - n, count |-> n] IN
       /\ history' = [history EXCEPT ![w] = h]
       /\ marked' = IF Displaces(w, h) THEN Nowhere ELSE marked
  /\ UNCHANGED <<user, clients, selected, copy, paste, mark, pending, unheard, vain>>

(* A client that attaches sees the session's window and hears the bell     *)
(* that waits for it; one for itself displaces the others.                 *)
BellAtAttach == pending \ {selected}
Attach(c, multi_display) ==
  /\ "clients" \in user /\ c \notin Attached
  /\ LET others == IF multi_display THEN Attached ELSE {} IN
       clients' = [d \in others \union {c} |->
                     IF d = c THEN [window |-> selected, reads |-> TRUE] ELSE clients[d]]
  /\ pending' = BellAtAttach
  /\ unheard' = unheard \ (pending \intersect {selected})
  /\ UNCHANGED <<user, selected, history, copy, paste, mark, marked, vain>>

\* SelectWindow and its like.
Select(c, w) ==
  /\ "select" \in user /\ c \in Attached
  /\ clients' = [clients EXCEPT ![c].window = w] /\ selected' = w
  /\ UNCHANGED <<user, history, copy, paste, mark, marked, pending, unheard, vain>>

Leave(c) ==
  /\ "clients" \in user /\ c \in Attached
  /\ \/ clients[c].reads /\ clients' = [clients EXCEPT ![c].reads = FALSE]
     \/ clients' = Kept(Attached \ {c})
  /\ UNCHANGED <<user, selected, history, copy, paste, mark, marked, pending, unheard, vain>>

Next ==
  \/ \E c \in Clients, key \in CopyKeys : (key = "j" => copy.cursor < MaxCursor) /\ Key(c, key)
  \/ \E c \in Clients : CopyModeRequest(c)
  \/ \E c \in Clients, delta \in {-1, 1} : copy.cursor + delta <= MaxCursor /\ CopyModeMove(c, delta)
  \/ \E c \in Clients : CopyModeMark(c)
  \/ \E c \in Clients : CopyModeCopy(c)
  \/ \E w \in Windows, scrolls, bell, title, vbell \in BOOLEAN :
       Output(w, scrolls, bell, title, vbell)
  \/ \E w \in Windows, n \in Rows .. Limit : Shorten(w, n)
  \/ \E c \in Clients, multi_display \in BOOLEAN : Attach(c, multi_display)
  \/ \E c \in Clients, w \in Windows : Select(c, w)
  \/ \E c \in Clients : Leave(c)

Spec == Init /\ [][Next]_vars

-----------------------------------------------------------------------------
(* Properties.                                                             *)

(* The place among the matches is one: `n` and `N` index the vector with   *)
(* it, after any later search, through copy modes left and entered again   *)
(* by other clients, which keep both.                                      *)
MatchExists == copy.matches # << >> => copy.match \in 0 .. Len(copy.matches) - 1

(* No mark is left behind for the next copy mode, whichever client ends    *)
(* this one by whichever of the ways out.                                  *)
MarkOnlyInCopyMode == mark # NoMark => copy.active

(* A bell that waits has been heard by nobody, so none is told a second    *)
(* time by the next output or to the next client; and one that neither     *)
(* waits nor was heard was spent on clients that could not hear it, each   *)
(* of which had hung up or was sent the visible bell: none is lost while   *)
(* nobody is attached.  That these last are lost is against the comment in *)
(* the code, by which bells are kept until a client can observe them.      *)
BellKept == pending \subseteq unheard /\ unheard \ pending \subseteq vain

Yanks(c) ==
  \/ copy.query = "closed" /\ \E key \in {"y", "enter", "space"} : Key(c, key)
  \/ mark # NoMark /\ (CopyModeMark(c) \/ CopyModeCopy(c))

(* What a client yanks of the window that was marked holds the line that   *)
(* was under the mark when it was set, wherever the cursor, moved by every *)
(* client, is by now; unless that window has lost lines since, which moves *)
(* its lines under the mark.                                               *)
YankHoldsMark ==
  [][\A c \in Attached :
       marked # Nowhere /\ clients[c].window = marked.window /\ Yanks(c)
         => marked.line \in paste']_vars
=============================================================================

--------------------------- MODULE ViewingProofs ----------------------------
(***************************************************************************)
(* What holds of copy mode and of bells for any clients, windows, limits   *)
(* and text: the inductive invariant of Viewing and what follows from it.  *)
(***************************************************************************)
EXTENDS Viewing, BasicsProofs

Copies == [active : BOOLEAN, cursor : Nat, query : {"closed", "empty", "some"},
           matches : Seq(Nat), match : Nat]
Histories == [oldest : Nat, count : Nat]

ViewInv ==
  /\ history \in [Windows -> Histories]
  /\ \A c \in Attached : clients[c].window \in Windows
  /\ selected \in Windows

\* What was under the mark is there, as long as its window keeps its lines in place.
MarkInv ==
  /\ mark \in Nat \union {NoMark}
  /\ marked # Nowhere =>
       /\ marked.window \in Windows
       /\ mark \in Positions(history[marked.window])
       /\ marked.line = LineAt(history[marked.window], mark)

IInv ==
  /\ copy \in Copies /\ ViewInv /\ MarkInv
  /\ MatchExists /\ MarkOnlyInCopyMode /\ BellKept

-----------------------------------------------------------------------------
(* The search.                                                             *)

LEMMA HitsInOrder ==
  ASSUME NEW h \in Histories, NEW query
  PROVE  InOrder(Hits(h, query)) \in Seq(Nat)
<1>. DEFINE S == Hits(h, query)
            f == InOrder(S)
<1>1. S \in SUBSET (0 .. h.count) /\ S \in SUBSET Nat /\ h.count \in Nat
  BY DEF Hits, Positions, Histories
<1>. HIDE DEF S
<1>2. f \in Orders(S)
  BY <1>1, OrdersExist DEF InOrder
<1>3. IsFiniteSet(S) /\ Cardinality(S) \in Nat
  <2>1. IsFiniteSet(0 .. h.count)
    BY <1>1, FS_Interval
  <2>. QED  BY <1>1, <2>1, FS_Subset, FS_CardinalityType
<1>4. f \in [1 .. Cardinality(S) -> Nat]
  BY <1>1, <1>2 DEF Orders
<1>5. f \in Seq(Nat)
  <2>. HIDE DEF f
  <2>. QED  BY <1>3, <1>4
<1>. QED  BY <1>5 DEF S

LEMMA SearchStays ==
  ASSUME copy \in Copies, MatchExists, NEW h \in Histories
  PROVE  /\ Search(h) \in Copies /\ Search(h).active = copy.active
         /\ Search(h).matches # << >> => Search(h).match \in 0 .. Len(Search(h).matches) - 1
<1>. DEFINE hits == InOrder(Hits(h, copy.query))
            done == [copy EXCEPT !.query = "closed"]
<1>1. hits \in Seq(Nat)
  BY HitsInOrder
<1>2. Search(h) = IF hits = << >> THEN done
                  ELSE [done EXCEPT !.cursor = hits[1], !.matches = hits, !.match = 0]
  BY DEF Search
<1>. HIDE DEF hits
<1>3. hits # << >> => hits[1] \in Nat /\ Len(hits) \in Nat /\ Len(hits) > 0
  BY <1>1
<1>4. done \in Copies /\ done.active = copy.active /\ done.matches = copy.matches
      /\ done.match = copy.match
  BY DEF Copies
<1>. HIDE DEF done
<1>5. CASE hits = << >>
  BY <1>2, <1>4, <1>5 DEF MatchExists
<1>6. CASE hits # << >>
  <2>. DEFINE n == [done EXCEPT !.cursor = hits[1], !.matches = hits, !.match = 0]
  <2>1. n \in Copies /\ n.active = copy.active /\ n.matches = hits /\ n.match = 0
    BY <1>1, <1>3, <1>4, <1>6 DEF Copies
  <2>. QED  BY <1>2, <1>3, <1>6, <2>1
<1>. QED  BY <1>5, <1>6

-----------------------------------------------------------------------------
(* The keys.                                                               *)

LEMMA QueryStays ==
  ASSUME copy \in Copies, MatchExists, NEW h \in Histories, NEW key, copy' \in Query(h, key)
  PROVE  copy' \in Copies /\ copy'.active = copy.active /\ MatchExists'
<1>1. CASE copy' = Search(h)
  BY <1>1, SearchStays DEF MatchExists
<1>2. CASE copy' = copy
  BY <1>2 DEF MatchExists
<1>3. ASSUME NEW q \in {"closed", "empty", "some"}, copy' = [copy EXCEPT !.query = q]
      PROVE  copy' \in Copies /\ copy'.active = copy.active /\ MatchExists'
  <2>1. copy' \in Copies /\ copy'.active = copy.active /\ copy'.matches = copy.matches
        /\ copy'.match = copy.match
    BY <1>3 DEF Copies
  <2>. QED  BY <2>1 DEF MatchExists
<1>. QED  BY <1>1, <1>2, <1>3 DEF Query

LEMMA CursorStays ==
  ASSUME copy \in Copies, NEW h \in Histories, NEW key \in Moves
  PROVE  Cursor(h, key) \in Nat
<1>. DEFINE half == Rows \div 2
<1>1. copy.cursor \in Nat /\ h.count \in Nat /\ Rows \in Nat /\ half \in Nat
  <2>1. Rows \in Nat
    BY ViewingAssumption
  <2>2. Rows \div 2 \in Nat
    BY <2>1
  <2>. QED  BY <2>1, <2>2 DEF Copies, Histories
<1>. HIDE DEF half
<1>2. \A m, n \in Nat : SatSub(m, n) \in Nat /\ Lesser(m, n) \in Nat /\ m + n \in Nat
  BY DEF SatSub, Lesser
<1>. DEFINE Down(n) == Lesser(copy.cursor + n, SatSub(h.count, 1))
<1>3. Cursor(h, key) \in {copy.cursor + 1, SatSub(copy.cursor, 1), 0, SatSub(h.count, 1),
                         Down(Rows), SatSub(copy.cursor, Rows), Down(half),
                         SatSub(copy.cursor, half)}
  BY DEF Cursor, Moves, half
<1>4. /\ copy.cursor + 1 \in Nat /\ copy.cursor + Rows \in Nat /\ copy.cursor + half \in Nat
      /\ SatSub(copy.cursor, 1) \in Nat /\ SatSub(h.count, 1) \in Nat
      /\ SatSub(copy.cursor, Rows) \in Nat /\ SatSub(copy.cursor, half) \in Nat
  BY <1>1, <1>2
<1>5. Down(Rows) \in Nat /\ Down(half) \in Nat
  BY <1>2, <1>4
<1>. HIDE DEF Down
<1>. QED  BY <1>3, <1>4, <1>5

LEMMA AtMatchStays ==
  ASSUME copy \in Copies, MatchExists, copy.matches # << >>,
         NEW n, n \in {Following(copy.match), Preceding(copy.match)}, copy' = AtMatch(n)
  PROVE  copy' \in Copies /\ copy'.active = copy.active /\ MatchExists'
<1>. DEFINE m == copy.matches
<1>1. m \in Seq(Nat) /\ Len(m) \in Nat /\ Len(m) > 0 /\ copy.match \in 0 .. Len(m) - 1
  BY DEF Copies, MatchExists
<1>2. n \in 0 .. Len(m) - 1
  <2>1. Following(copy.match) \in 0 .. Len(m) - 1
    BY <1>1 DEF Following
  <2>2. Preceding(copy.match) \in 0 .. Len(m) - 1
    BY <1>1 DEF Preceding
  <2>. QED  BY <2>1, <2>2
<1>3. m[n + 1] \in Nat
  BY <1>1, <1>2
<1>4. copy' \in Copies /\ copy'.active = copy.active /\ copy'.matches = m /\ copy'.match = n
  <2>. HIDE DEF m
  <2>1. n \in Nat /\ copy' = [copy EXCEPT !.match = n, !.cursor = m[n + 1]]
    BY <1>1, <1>2 DEF AtMatch, m
  <2>2. copy.matches = m
    BY DEF m
  <2>. QED  BY <1>3, <2>1, <2>2 DEF Copies
<1>. QED  BY <1>2, <1>4 DEF MatchExists
-----------------------------------------------------------------------------
(* Marks and yanks.                                                        *)

\* A region holds the line at either end of it, if it is there.
LEMMA RegionHolds ==
  ASSUME NEW h \in Histories, NEW m \in Positions(h), NEW n \in Nat
  PROVE  LineAt(h, m) \in Region(h, m, n)
<1>1. m \in Nat
  BY DEF Positions, Histories
<1>2. m \in Lesser(m, n) .. Greater(m, n)
  BY <1>1 DEF Lesser, Greater
<1>. QED  BY <1>2 DEF Region

\* What is marked is under the mark.
LEMMA SetMarkStays ==
  ASSUME IInv, NEW c \in Attached,
         mark' = copy.cursor, UNCHANGED history,
         marked' = IF copy.cursor \in Positions(HistoryOf(c))
                   THEN [window |-> clients[c].window, line |-> LineAt(HistoryOf(c), copy.cursor)]
                   ELSE Nowhere
  PROVE  MarkInv'
<1>1. copy.cursor \in Nat
  BY DEF IInv, Copies
<1>2. clients[c].window \in Windows
  BY DEF IInv, ViewInv
<1>3. CASE copy.cursor \in Positions(HistoryOf(c))
  <2>1. marked'.window = clients[c].window /\ marked'.line = LineAt(HistoryOf(c), copy.cursor)
    BY <1>3
  <2>. QED  BY <1>1, <1>2, <1>3, <2>1 DEF MarkInv, HistoryOf, Positions, LineAt
<1>4. CASE copy.cursor \notin Positions(HistoryOf(c))
  BY <1>1, <1>4 DEF MarkInv
<1>. QED  BY <1>3, <1>4

LEMMA UnmarkStays ==
  ASSUME mark' = NoMark, marked' = Nowhere
  PROVE  MarkInv' /\ MarkOnlyInCopyMode'
BY DEF MarkInv, MarkOnlyInCopyMode

LEMMA UnmarkedStays ==
  ASSUME MarkInv, MarkOnlyInCopyMode, UNCHANGED <<mark, marked, history>>,
         copy'.active = copy.active
  PROVE  MarkInv' /\ MarkOnlyInCopyMode'
BY DEF MarkInv, MarkOnlyInCopyMode, Positions, LineAt

LEMMA KeyStep == ASSUME IInv, NEW c \in Clients, NEW key \in CopyKeys, Key(c, key) PROVE IInv'
<1>. DEFINE h == history[clients[c].window]
<1>1. /\ c \in Attached /\ copy.active
      /\ UNCHANGED <<user, clients, selected, history, pending, unheard, vain>>
  BY DEF Key
<1>2. h \in Histories /\ h = HistoryOf(c)
  BY <1>1 DEF IInv, ViewInv, HistoryOf
<1>3. ViewInv' /\ BellKept'
  BY <1>1 DEF IInv, ViewInv, BellKept, Attached
<1>4. copy \in Copies /\ MatchExists /\ MarkInv /\ MarkOnlyInCopyMode
  BY DEF IInv
<1>. HIDE DEF h
<1>5. CASE copy' \in Query(h, key) /\ Unmarked
  <2>1. copy' \in Copies /\ copy'.active = copy.active /\ MatchExists'
    BY <1>2, <1>4, <1>5, QueryStays
  <2>2. MarkInv' /\ MarkOnlyInCopyMode'
    BY <1>1, <1>4, <1>5, <2>1, UnmarkedStays DEF Unmarked
  <2>. QED  BY <1>3, <2>1, <2>2 DEF IInv
<1>6. ASSUME NEW on \in BOOLEAN, copy' = [copy EXCEPT !.active = on] PROVE copy' \in Copies /\ MatchExists'
  BY <1>4, <1>6 DEF Copies, MatchExists
<1>7. UNCHANGED copy => copy' \in Copies /\ MatchExists'
  BY <1>4 DEF MatchExists
<1>8. CASE Marking(c, h, key)
  <2>1. copy' \in Copies /\ MatchExists'
    BY <1>6, <1>7, <1>8 DEF Marking
  <2>2. CASE Unmark \/ Yank(h)
    BY <1>3, <2>1, <2>2, UnmarkStays DEF Unmark, Yank, IInv
  <2>3. CASE SetMark(c, h) /\ UNCHANGED copy
    <3>1. MarkInv'
      BY <1>1, <1>2, <2>3, SetMarkStays DEF SetMark, HistoryOf
    <3>2. MarkOnlyInCopyMode'
      BY <1>1, <2>3 DEF MarkOnlyInCopyMode
    <3>. QED  BY <1>3, <2>1, <3>1, <3>2 DEF IInv
  <2>. QED  BY <1>8, <2>2, <2>3 DEF Marking
<1>9. CASE Looking(h, key)
  <2>1. copy' \in Copies /\ copy'.active = copy.active /\ MatchExists'
    <3>1. CASE key \in Moves /\ copy' = [copy EXCEPT !.cursor = Cursor(h, key)]
      BY <1>2, <1>4, <3>1, CursorStays DEF Copies, MatchExists
    <3>2. CASE copy' = [copy EXCEPT !.query = "empty"]
      BY <1>4, <3>2 DEF Copies, MatchExists
    <3>3. CASE copy.matches # << >> /\ copy' \in {AtMatch(Following(copy.match)), AtMatch(Preceding(copy.match))}
      BY <1>4, <3>3, AtMatchStays
    <3>4. CASE UNCHANGED copy
      BY <1>7, <3>4
    <3>. QED  BY <1>9, <3>1, <3>2, <3>3, <3>4 DEF Looking
  <2>2. MarkInv' /\ MarkOnlyInCopyMode'
    BY <1>1, <1>4, <1>9, <2>1, UnmarkedStays DEF Looking, Unmarked
  <2>. QED  BY <1>3, <2>1, <2>2 DEF IInv
<1>. QED  BY <1>5, <1>8, <1>9 DEF Key, h
\* The messages do what some of the keys do.
LEMMA MessageStep ==
  ASSUME IInv, NEW c \in Clients,
         \/ CopyModeRequest(c) \/ CopyModeMark(c) \/ CopyModeCopy(c)
         \/ \E delta \in {-1, 1} : CopyModeMove(c, delta)
  PROVE  IInv'
<1>1. UNCHANGED <<user, clients, selected, history, pending, unheard, vain>>
  BY DEF CopyModeRequest, CopyModeMark, CopyModeCopy, CopyModeMove
<1>2. ViewInv' /\ BellKept'
  BY <1>1 DEF IInv, ViewInv, BellKept, Attached
<1>3. copy \in Copies /\ MatchExists /\ MarkInv /\ MarkOnlyInCopyMode
  BY DEF IInv
<1>4. ASSUME NEW on \in BOOLEAN, NEW n \in Nat,
             copy' \in {copy, [copy EXCEPT !.active = on], [copy EXCEPT !.cursor = n],
                        [copy EXCEPT !.active = on, !.cursor = n]}
      PROVE  copy' \in Copies /\ MatchExists'
  BY <1>3, <1>4 DEF Copies, MatchExists
<1>5. CASE CopyModeRequest(c)
  <2>1. (~copy.active) \in BOOLEAN
    BY ZenonT(20)
  <2>2. copy' \in Copies /\ MatchExists'
    BY <1>4, <1>5, <2>1 DEF CopyModeRequest
  <2>. QED  BY <1>2, <1>5, <2>2, UnmarkStays DEF CopyModeRequest, Unmark, IInv
<1>6. CASE \E delta \in {-1, 1} : CopyModeMove(c, delta)
  <2>1. PICK delta \in {-1, 1} : CopyModeMove(c, delta)
    BY <1>6
  <2>. DEFINE n == IF c \in Attached
                   THEN Lesser(Greater(copy.cursor + delta, 0), SatSub(HistoryOf(c).count, 1))
                   ELSE Greater(copy.cursor + delta, 0)
  <2>2. n \in Nat
    <3>1. copy.cursor \in Nat /\ (c \in Attached => HistoryOf(c).count \in Nat)
      BY <1>3 DEF Copies, IInv, ViewInv, Histories, HistoryOf
    <3>2. Greater(copy.cursor + delta, 0) \in Nat
      BY <3>1 DEF Greater
    <3>. QED  BY <3>1, <3>2 DEF Lesser, SatSub
  <2>3. copy' = [copy EXCEPT !.cursor = n] /\ Unmarked
    BY <2>1 DEF CopyModeMove
  <2>. HIDE DEF n
  <2>4. copy'.active = copy.active
    BY <1>3, <2>3 DEF Copies
  <2>. QED  BY <1>1, <1>2, <1>3, <1>4, <2>2, <2>3, <2>4, UnmarkedStays DEF Unmarked, IInv
<1>7. CASE CopyModeMark(c)
  <2>1. copy' \in Copies /\ MatchExists'
    BY <1>3, <1>4, <1>7 DEF CopyModeMark
  <2>2. CASE mark = NoMark /\ UNCHANGED copy
    <3>1. /\ copy.active /\ mark' = copy.cursor
          /\ marked' = IF c \in Attached /\ copy.cursor \in Positions(HistoryOf(c))
                       THEN [window |-> clients[c].window,
                             line |-> LineAt(HistoryOf(c), copy.cursor)]
                       ELSE Nowhere
      BY <1>7, <2>2 DEF CopyModeMark
    <3>2. MarkInv'
      <4>1. CASE c \in Attached
        BY <1>1, <3>1, <4>1, SetMarkStays
      <4>2. CASE c \notin Attached
        BY <1>3, <3>1, <4>2 DEF MarkInv, Copies
      <4>. QED  BY <4>1, <4>2
    <3>. QED  BY <1>2, <2>1, <2>2, <3>1, <3>2 DEF MarkOnlyInCopyMode, IInv
  <2>3. CASE mark # NoMark
    <3>1. mark' = NoMark /\ marked' = Nowhere
      BY <1>7, <2>3 DEF CopyModeMark, Yank, Unmark
    <3>. QED  BY <1>2, <2>1, <3>1, UnmarkStays DEF IInv
  <2>. QED  BY <1>7, <2>2, <2>3 DEF CopyModeMark
<1>8. CASE CopyModeCopy(c)
  <2>1. UNCHANGED <<copy, mark, marked>>
    BY <1>8 DEF CopyModeCopy
  <2>. QED  BY <1>1, <1>2, <1>3, <2>1, UnmarkedStays DEF MatchExists, IInv
<1>. QED  BY <1>5, <1>6, <1>7, <1>8

-----------------------------------------------------------------------------
(* Output and clients.                                                     *)

\* The lines of a window may come to lie elsewhere; then its mark is none.
LEMMA HistoryMoves ==
  ASSUME IInv, NEW w \in Windows, NEW h \in Histories,
         history' = [history EXCEPT ![w] = h],
         h.oldest = history[w].oldest => h.count >= history[w].count,
         marked' = IF Displaces(w, h) THEN Nowhere ELSE marked,
         UNCHANGED <<copy, mark>>
  PROVE  history' \in [Windows -> Histories] /\ MarkInv' /\ MarkOnlyInCopyMode'
<1>1. /\ history' \in [Windows -> Histories] /\ history'[w] = h
      /\ \A v \in Windows \ {w} : history'[v] = history[v]
  BY DEF IInv, ViewInv
<1>2. MarkInv'
  <2>1. CASE marked' = Nowhere
    BY <2>1 DEF IInv, MarkInv
  <2>2. CASE marked' = marked /\ marked # Nowhere /\ ~Displaces(w, h)
    <3>1. /\ marked.window \in Windows /\ mark \in Positions(history[marked.window])
          /\ marked.line = LineAt(history[marked.window], mark) /\ mark' = mark
      BY <2>2 DEF IInv, MarkInv
    <3>2. CASE marked.window # w
      BY <1>1, <2>2, <3>1, <3>2 DEF MarkInv, IInv
    <3>3. CASE marked.window = w
      <4>1. h.oldest = history[w].oldest /\ h.count >= history[w].count
        BY <2>2, <3>3 DEF Displaces
      <4>2. mark \in Positions(h) /\ LineAt(h, mark) = LineAt(history[w], mark)
        <5>1. h.count \in Nat /\ history[w].count \in Nat
          BY DEF IInv, ViewInv, Histories
        <5>. QED  BY <3>1, <3>3, <4>1, <5>1 DEF Positions, LineAt
      <4>. QED  BY <1>1, <2>2, <3>1, <3>3, <4>2 DEF MarkInv, IInv
    <3>. QED  BY <3>2, <3>3
  <2>. QED  BY <2>1, <2>2
<1>. QED  BY <1>1, <1>2 DEF IInv, MarkOnlyInCopyMode

LEMMA OutputStep ==
  ASSUME IInv, NEW w \in Windows, NEW scrolls \in BOOLEAN, NEW bell \in BOOLEAN,
         NEW title \in BOOLEAN, NEW vbell \in BOOLEAN, Output(w, scrolls, bell, title, vbell)
  PROVE  IInv'
<1>. DEFINE h == IF scrolls THEN Scrolled(history[w]) ELSE history[w]
<1>1. history[w] \in Histories
  BY DEF IInv, ViewInv
<1>2. h \in Histories /\ (h.oldest = history[w].oldest => h.count >= history[w].count)
  <2>1. CASE scrolls /\ history[w].count < Limit
    BY <1>1, <2>1 DEF Scrolled, Histories
  <2>2. CASE scrolls /\ ~(history[w].count < Limit)
    BY <1>1, <2>2 DEF Scrolled, Histories
  <2>3. CASE ~scrolls
    BY <1>1, <2>3 DEF Histories
  <2>. QED  BY <2>1, <2>2, <2>3
<1>3. /\ history' = [history EXCEPT ![w] = h]
      /\ marked' = IF Displaces(w, h) THEN Nowhere ELSE marked
      /\ UNCHANGED <<selected, copy, mark>>
  BY DEF Output
<1>. HIDE DEF h
<1>4. history' \in [Windows -> Histories] /\ MarkInv' /\ MarkOnlyInCopyMode'
  BY <1>2, <1>3, HistoryMoves
<1>5. \A c \in DOMAIN clients' : c \in Attached /\ clients'[c] = clients[c]
  BY DEF Output, Kept
<1>6. ViewInv'
  BY <1>3, <1>4, <1>5 DEF IInv, ViewInv, Attached
<1>7. BellKept'
  BY DEF Output, IInv, BellKept, Tells
<1>. QED  BY <1>3, <1>4, <1>6, <1>7 DEF IInv, MatchExists

LEMMA ShortenStep ==
  ASSUME IInv, NEW w \in Windows, NEW n \in Rows .. Limit, Shorten(w, n)
  PROVE  IInv'
<1>. DEFINE h == [oldest |-> history[w].oldest + history[w].count - n, count |-> n]
<1>1. history[w].oldest \in Nat /\ history[w].count \in Nat /\ n \in Nat /\ n < history[w].count
  BY ViewingAssumption DEF IInv, ViewInv, Histories, Shorten
<1>2. h \in Histories /\ h.oldest # history[w].oldest
  BY <1>1 DEF Histories
<1>3. /\ history' = [history EXCEPT ![w] = h]
      /\ marked' = IF Displaces(w, h) THEN Nowhere ELSE marked
      /\ UNCHANGED <<clients, selected, copy, mark, pending, unheard, vain>>
  BY DEF Shorten
<1>. HIDE DEF h
<1>4. history' \in [Windows -> Histories] /\ MarkInv' /\ MarkOnlyInCopyMode'
  BY <1>2, <1>3, HistoryMoves
<1>. QED  BY <1>3, <1>4 DEF IInv, ViewInv, Attached, MatchExists, BellKept

LEMMA ClientStep ==
  ASSUME IInv, NEW c \in Clients,
         \/ \E multi_display \in BOOLEAN : Attach(c, multi_display)
         \/ \E w \in Windows : Select(c, w)
         \/ Leave(c)
  PROVE  IInv'
<1>1. UNCHANGED <<history, copy, mark, marked>>
  BY DEF Attach, Select, Leave
<1>2. selected' \in Windows /\ \A d \in DOMAIN clients' : clients'[d].window \in Windows
  <2>1. selected \in Windows /\ \A d \in Attached : clients[d].window \in Windows
    BY DEF IInv, ViewInv
  <2>2. ASSUME NEW multi_display \in BOOLEAN, Attach(c, multi_display)
        PROVE  selected' \in Windows /\ \A d \in DOMAIN clients' : clients'[d].window \in Windows
    BY <2>1, <2>2 DEF Attach, Attached
  <2>3. ASSUME NEW w \in Windows, Select(c, w)
        PROVE  selected' \in Windows /\ \A d \in DOMAIN clients' : clients'[d].window \in Windows
    BY <2>1, <2>3 DEF Select, Attached
  <2>4. ASSUME Leave(c), clients[c].reads, clients' = [clients EXCEPT ![c].reads = FALSE]
        PROVE  selected' \in Windows /\ \A d \in DOMAIN clients' : clients'[d].window \in Windows
    <3>1. selected' = selected /\ DOMAIN clients' = DOMAIN clients
      BY <2>4 DEF Leave
    <3>2. \A d \in Attached : clients'[d].window = clients[d].window
      BY <2>4 DEF Leave, Attached
    <3>. QED  BY <2>1, <3>1, <3>2 DEF Attached
  <2>5. ASSUME Leave(c), clients' = Kept(Attached \ {c})
        PROVE  selected' \in Windows /\ \A d \in DOMAIN clients' : clients'[d].window \in Windows
    BY <2>1, <2>5 DEF Leave, Attached, Kept
  <2>. QED  BY <2>2, <2>3, <2>4, <2>5 DEF Leave
<1>3. BellKept'
  BY DEF IInv, BellKept, Attach, Select, Leave, BellAtAttach
<1>. QED  BY <1>1, <1>2, <1>3 DEF IInv, ViewInv, Attached, MatchExists, MarkInv, MarkOnlyInCopyMode,
                                  Positions, LineAt

-----------------------------------------------------------------------------
(* The theorems.                                                           *)

LEMMA Start == Init => IInv
<1>. SUFFICES ASSUME Init PROVE IInv
  OBVIOUS
<1>1. copy \in Copies /\ MatchExists
  <2>1. << >> \in Seq(Nat)
    OBVIOUS
  <2>. QED  BY <2>1 DEF Init, Copies, MatchExists
<1>2. ViewInv
  BY ViewingAssumption DEF Init, ViewInv, Histories, Attached
<1>. QED  BY <1>1, <1>2 DEF Init, IInv, MarkInv, MarkOnlyInCopyMode, BellKept

LEMMA Step == IInv /\ [Next]_vars => IInv'
<1>. SUFFICES ASSUME IInv, [Next]_vars PROVE IInv'
  OBVIOUS
<1>1. CASE UNCHANGED vars
  BY <1>1 DEF vars, IInv, ViewInv, Attached, MatchExists, MarkInv, MarkOnlyInCopyMode, BellKept,
              Positions, LineAt
<1>. QED  BY <1>1, KeyStep, MessageStep, OutputStep, ShortenStep, ClientStep DEF Next

LEMMA AlwaysIInv == Spec => []IInv
BY Start, Step, PTL DEF Spec

(* The place among the matches stays one of them, through every search and *)
(* every copy mode of whichever client.                                    *)
THEOREM MatchStays == Spec => []MatchExists
<1>1. IInv => MatchExists
  BY DEF IInv
<1>. QED  BY <1>1, AlwaysIInv, PTL

(* No way out of copy mode leaves a mark for the next.                     *)
THEOREM MarksEndWithTheMode == Spec => []MarkOnlyInCopyMode
<1>1. IInv => MarkOnlyInCopyMode
  BY DEF IInv
<1>. QED  BY <1>1, AlwaysIInv, PTL

(* A bell that waits was heard by nobody, and one that was neither heard   *)
(* nor waits was spent on clients that could not hear it.                  *)
THEOREM BellsAreKept == Spec => []BellKept
<1>1. IInv => BellKept
  BY DEF IInv
<1>. QED  BY <1>1, AlwaysIInv, PTL

(* What is yanked of the window that was marked holds the line marked,     *)
(* whatever the limits and however far the window has scrolled.            *)
THEOREM YanksHoldTheMark == Spec => YankHoldsMark
<1>. DEFINE Holds == \A c \in Attached :
       marked # Nowhere /\ clients[c].window = marked.window /\ Yanks(c)
         => marked.line \in paste'
<1>1. ASSUME IInv, NEW c \in Attached, marked # Nowhere, clients[c].window = marked.window, Yanks(c)
      PROVE  marked.line \in paste'
  <2>. DEFINE h == HistoryOf(c)
  <2>1. h \in Histories /\ mark \in Positions(h) /\ marked.line = LineAt(h, mark)
    BY <1>1 DEF IInv, ViewInv, MarkInv, HistoryOf
  <2>2. mark # NoMark /\ copy.cursor \in Nat
    BY <1>1, <2>1 DEF Positions, NoMark, IInv, Copies, Histories
  <2>3. paste' = Region(h, mark, copy.cursor)
    <3>1. CASE copy.query = "closed" /\ \E key \in {"y", "enter", "space"} : Key(c, key)
      BY <2>2, <3>1 DEF Key, Marking, Yank, HistoryOf
    <3>2. CASE CopyModeMark(c) \/ CopyModeCopy(c)
      BY <1>1, <2>2, <3>2 DEF CopyModeMark, CopyModeCopy, Yank
    <3>. QED  BY <1>1, <3>1, <3>2 DEF Yanks
  <2>. HIDE DEF h
  <2>. QED  BY <2>1, <2>2, <2>3, RegionHolds
<1>2. IInv => Holds
  BY <1>1
<1>3. YankHoldsMark <=> [][Holds]_vars
  BY DEF YankHoldsMark
<1>. HIDE DEF Holds
<1>. QED  BY <1>2, <1>3, AlwaysIInv, PTL DEF Spec
=============================================================================

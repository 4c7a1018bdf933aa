---------------------------- MODULE ClientProofs ----------------------------
(***************************************************************************)
(* Proofs about the attached client: whatever the two threads, the session *)
(* and the user do, copy mode has its cursor on a line it shows, and each  *)
(* way out of copy mode gives the terminal its own screen back.  And about *)
(* the connection it reads with a timeout: what arrives was sent, in its   *)
(* order, since every message that a sender does not refuse is what the    *)
(* receiver makes of its octets; however the reads are cut, if no payload  *)
(* can be taken for a frame.                                               *)
(***************************************************************************)
EXTENDS Client, Wire, BasicsProofs

-----------------------------------------------------------------------------
(* The invariant.                                                          *)

(* What the session sends.  A history is one that a window may have.       *)
SaidByDaemon ==
  [kind : {"HelloAck", "PasswordChallenge", "Error", "PtyOutput", "Bell", "ChildExited",
           "Detach"}]
  \union [kind : {"BindingsUpdate"}, map : Runtime]
  \union [kind : {"CopyModeData"}, lines : Histories]

Rows(v) == 0 .. Len(v.lines) - 1

(* What the keys of copy mode make of a view.  Every match is on a line    *)
(* of the history, which is why going to one keeps the cursor there.       *)
GoodView(v) ==
  /\ v \in [lines : Seq(Lines), page : Nat, cursor : Nat, mark : Int, hits : Seq(Nat),
            hit : Nat, query : {"closed", "empty", "some"}]
  /\ v.cursor \in Rows(v)
  /\ v.mark \in {NoMark} \union Rows(v)
  /\ v.hits \in Seq(Rows(v))
  /\ v.hits # << >> => v.hit \in 0 .. Len(v.hits) - 1

MessagesInv == toClient \in Seq(SaidByDaemon)
ScreenInv == alternate => main \in {"opening", "browsing", "panicked"}
ViewInv == main \in {"opening", "browsing"} => GoodView(view)
IInv == MessagesInv /\ ScreenInv /\ ViewInv

-----------------------------------------------------------------------------
(* Copy mode.                                                              *)

\* The lines shown have the cursor among them, if any are shown.
LEMMA CursorIsShown ==
    ASSUME NEW v, GoodView(v), v.page > 0
    PROVE  v.cursor \in First(v) .. Beyond(v) - 1
<1>. DEFINE n == Len(v.lines)
            c == v.cursor
            p == v.page
            h == p \div 2
<1>1. n \in Nat /\ c \in 0 .. n - 1 /\ p \in Nat /\ p > 0
  BY DEF GoodView, Rows
<1>2. h \in Nat /\ h < p
  BY <1>1
<1>3. /\ First(v) = Lesser(SatSub(c, h), SatSub(n, Lesser(p, n)))
      /\ Beyond(v) = Lesser(First(v) + p, n)
  BY DEF First, Beyond
<1>. HIDE DEF n, c, p, h
<1>4. c \in First(v) .. Beyond(v) - 1
  BY <1>1, <1>2, <1>3 DEF Lesser, SatSub
<1>. QED  BY <1>4 DEF c

\* A view opens on the last line of its history.
LEMMA ViewOpens ==
    ASSUME NEW h \in Seq(Lines), h # << >>, NEW page \in Nat
    PROVE  GoodView(View(h, page))
<1>1. Len(h) \in Nat /\ Len(h) > 0
  OBVIOUS
<1>2. << >> \in Seq(Nat) /\ << >> \in Seq(0 .. Len(h) - 1)
  OBVIOUS
<1>3. SatSub(Len(h), 1) = Len(h) - 1
  BY <1>1 DEF SatSub
<1>. QED  BY <1>1, <1>2, <1>3 DEF GoodView, View, Rows, NoMark

\* The moves stay on the lines.
LEMMA MovesStay ==
    ASSUME NEW v, GoodView(v), NEW key \in Moves
    PROVE  Moved(v, key) \in Rows(v)
<1>. DEFINE n == Len(v.lines)
            c == v.cursor
            p == v.page
            h == p \div 2
<1>1. n \in Nat /\ c \in 0 .. n - 1 /\ p \in Nat
  BY DEF GoodView, Rows
<1>2. h \in Nat
  BY <1>1
<1>3. Moved(v, key) \in {Lesser(c + 1, n - 1), SatSub(c, 1), 0, n - 1, Lesser(c + p, n - 1),
                         SatSub(c, p), SatSub(c, h), Lesser(c + h, n - 1)}
  BY DEF Moved, Moves
<1>4. Rows(v) = 0 .. n - 1
  BY DEF Rows
<1>. HIDE DEF n, c, p, h
<1>. QED  BY <1>1, <1>2, <1>3, <1>4 DEF Lesser, SatSub

\* Every match is on a line.
LEMMA MatchesOnLines ==
    ASSUME NEW lines \in Seq(Lines), NEW q \in Queries
    PROVE  Matches(lines, q) \in Seq(0 .. Len(lines) - 1)
<1>. DEFINE S == 0 .. Len(lines) - 1
            ss == [i \in DOMAIN lines |-> [k \in 1 .. lines[i].found[q] |-> i - 1]]
<1>1. DOMAIN lines = 1 .. Len(lines) /\ Len(lines) \in Nat
  OBVIOUS
<1>2. ASSUME NEW i \in 1 .. Len(lines)
      PROVE  [k \in 1 .. lines[i].found[q] |-> i - 1] \in Seq(S)
  <2>1. lines[i].found[q] \in Nat
    <3>1. lines[i] \in Lines
      BY ElementOfSeq
    <3>. QED  BY <3>1 DEF Lines
  <2>2. i - 1 \in S
    BY <1>1
  <2>3. \A k \in 1 .. lines[i].found[q] : i - 1 \in S
    BY <2>2
  <2>. HIDE DEF S
  <2>. QED  BY <2>1, <2>3, IsASeq
<1>3. ss \in Seq(Seq(S))
  <2>. DEFINE e(i) == [k \in 1 .. lines[i].found[q] |-> i - 1]
  <2>1. \A i \in 1 .. Len(lines) : e(i) \in Seq(S)
    BY <1>2
  <2>2. ss = [i \in 1 .. Len(lines) |-> e(i)]
    BY <1>1
  <2>. HIDE DEF e, S, ss
  <2>. QED  BY <1>1, <2>1, <2>2, IsASeq
<1>4. FlattenSeq(ss) \in Seq(S)
  <2>. HIDE DEF ss, S
  <2>. QED  BY <1>3, FlattenType
<1>. QED  BY <1>4 DEF Matches

\* Going to a match stays on the lines.
LEMMA HitStays ==
    ASSUME NEW v, GoodView(v), NEW n \in 0 .. Len(v.hits) - 1
    PROVE  GoodView(AtHit(v, n))
<1>1. v.hits[n + 1] \in Rows(v) /\ n \in Nat
  BY DEF GoodView
<1>2. Rows(v) \subseteq Nat
  BY DEF Rows, GoodView
<1>3. Rows(AtHit(v, n)) = Rows(v)
  BY DEF AtHit, Rows, GoodView
<1>. QED  BY <1>1, <1>2, <1>3 DEF GoodView, AtHit

\* A search leaves the place in its matches at the first one.
LEMMA SearchStays ==
    ASSUME NEW v, GoodView(v), NEW q \in Queries
    PROVE  GoodView(Searched(v, q))
<1>. DEFINE m == Matches(v.lines, q)
            w == [v EXCEPT !.hits = m, !.hit = 0, !.query = "closed"]
<1>1. v.lines \in Seq(Lines)
  BY DEF GoodView
<1>2. m \in Seq(Rows(v))
  BY <1>1, MatchesOnLines DEF Rows
<1>3. m \in Seq(Nat)
  <2>1. Rows(v) \subseteq Nat
    BY <1>1 DEF Rows
  <2>. HIDE DEF m
  <2>. QED  BY <1>2, <2>1
<1>. HIDE DEF m
<1>4. Rows(w) = Rows(v) /\ w.hits = m
  BY DEF Rows, GoodView
<1>5. GoodView(w)
  <2>1. m # << >> => 0 \in 0 .. Len(m) - 1
    BY <1>2
  <2>. QED  BY <1>2, <1>3, <1>4, <2>1 DEF GoodView
<1>6. m # << >> => 0 \in 0 .. Len(w.hits) - 1
  BY <1>2, <1>4
<1>7. Searched(v, q) = IF w.hits = << >> THEN w ELSE AtHit(w, 0)
  BY DEF Searched, m
<1>. HIDE DEF w
<1>. QED  BY <1>4, <1>5, <1>6, <1>7, HitStays

\* The next and the previous match, around the end, exist.
LEMMA PlacesInMatches ==
    ASSUME NEW v, GoodView(v), v.hits # << >>
    PROVE  NextHit(v) \in 0 .. Len(v.hits) - 1 /\ PrevHit(v) \in 0 .. Len(v.hits) - 1
<1>. DEFINE n == Len(v.hits)
            k == v.hit
<1>1. n \in Nat /\ n > 0 /\ k \in 0 .. n - 1
  BY DEF GoodView
<1>2. NextHit(v) = (k + 1) % n /\ PrevHit(v) = IF k = 0 THEN n - 1 ELSE k - 1
  BY DEF NextHit, PrevHit
<1>. HIDE DEF n, k
<1>3. (k + 1) % n \in 0 .. n - 1
  BY <1>1
<1>4. NextHit(v) \in 0 .. n - 1 /\ PrevHit(v) \in 0 .. n - 1
  BY <1>1, <1>2, <1>3
<1>. QED  BY <1>4 DEF n

\* The keys that stay in copy mode.
LEMMA StepStays ==
    ASSUME NEW v, GoodView(v), NEW key \in CopyKeys
    PROVE  GoodView(Stepped(v, key))
<1>1. CASE key \in Moves
  <2>1. Moved(v, key) \in Rows(v) /\ Rows(v) \subseteq Nat
    BY <1>1, MovesStay DEF Rows
  <2>2. Stepped(v, key) = [v EXCEPT !.cursor = Moved(v, key)]
    BY <1>1 DEF Stepped, Moves
  <2>. QED  BY <2>1, <2>2 DEF GoodView, Rows
<1>2. CASE key \in {"v", "space"}
  <2>1. Stepped(v, key) = [v EXCEPT !.mark = v.cursor]
    BY <1>2 DEF Stepped, Moves
  <2>. QED  BY <2>1 DEF GoodView, Rows
<1>3. CASE key = "/"
  <2>1. Stepped(v, key) = [v EXCEPT !.query = "empty"]
    BY <1>3 DEF Stepped, Moves
  <2>. QED  BY <2>1 DEF GoodView, Rows
<1>4. CASE key = "n" /\ v.hits # << >>
  <2>1. Stepped(v, key) = AtHit(v, NextHit(v))
    BY <1>4 DEF Stepped, Moves
  <2>. QED  BY <1>4, <2>1, PlacesInMatches, HitStays
<1>5. CASE key = "N" /\ v.hits # << >>
  <2>1. Stepped(v, key) = AtHit(v, PrevHit(v))
    BY <1>5 DEF Stepped, Moves
  <2>. QED  BY <1>5, <2>1, PlacesInMatches, HitStays
<1>6. CASE /\ key \notin Moves \union {"v", "space", "/"}
           /\ ~(key = "n" /\ v.hits # << >>) /\ ~(key = "N" /\ v.hits # << >>)
  <2>1. Stepped(v, key) = v
    BY <1>6 DEF Stepped
  <2>. QED  BY <2>1
<1>. QED  BY <1>1, <1>2, <1>3, <1>4, <1>5, <1>6

\* The keys of a query.
LEMMA QueryStays ==
    ASSUME NEW v, GoodView(v), NEW key \in CopyKeys, NEW w \in QueryStepped(v, key)
    PROVE  GoodView(w)
<1>1. w \in {Searched(v, q) : q \in Queries} \union {v}
             \union {[v EXCEPT !.query = c] : c \in {"closed", "empty", "some"}}
  BY DEF QueryStepped
<1>2. ASSUME NEW q \in {"closed", "empty", "some"} PROVE GoodView([v EXCEPT !.query = q])
  BY DEF GoodView, Rows
<1>. QED  BY <1>1, <1>2, SearchStays

-----------------------------------------------------------------------------
(* The steps.                                                              *)

Quiet == UNCHANGED <<main, toClient, view, alternate>>

\* Nothing that the keyboard thread does reaches the main thread's state.
LEMMA KeyboardIsQuiet ==
    \/ Resized \/ Read \/ BufferDone \/ InputEnds \/ Unlock \/ Collect \/ Escape \/ PlainByte
    \/ GetStdout \/ (\E b \in user : KeyPress(b))
    => Quiet
<1>. USE DEF Quiet, streams, keys, shared, screens
<1>1. Resized \/ Read \/ BufferDone \/ InputEnds \/ Unlock => Quiet
  BY DEF Resized, Read, BufferDone, InputEnds, Unlock
<1>2. Collect \/ Escape \/ PlainByte \/ GetStdout => Quiet
  BY DEF Collect, Escape, PlainByte, GetStdout
<1>3. ASSUME NEW b, KeyPress(b) PROVE Quiet
  <2>1. ConfigBound(b) \/ RuntimeBound(b) \/ Ask(b) \/ Detach(b) \/ Paste(b) => Quiet
    BY DEF ConfigBound, RuntimeBound, Ask, Detach, Paste
  <2>2. Load(b) \/ WantStdout(b) \/ Flash(b) \/ StartDigraph(b) => Quiet
    BY DEF Load, WantStdout, Flash, StartDigraph
  <2>3. Nothing(b) \/ Through(b) => Quiet
    BY DEF Nothing, Through
  <2>. QED  BY <1>3, <2>1, <2>2, <2>3 DEF KeyPress
<1>. QED  BY <1>1, <1>2, <1>3

\* What is told is a message, and is told whole or not at all.
LEMMA Told ==
    ASSUME MessagesInv, NEW m \in SaidByDaemon, Tell(<<m>>)
    PROVE  MessagesInv'
<1>1. <<m>> \in Seq(SaidByDaemon)
  OBVIOUS
<1>2. toClient \o <<m>> \in Seq(SaidByDaemon)
  BY <1>1, ConcatProperties DEF MessagesInv
<1>. QED  BY <1>2 DEF Tell, MessagesInv

Notes == {"HelloAck", "PasswordChallenge", "Error", "PtyOutput", "Bell", "ChildExited",
          "Detach"}

LEMMA MessagesAre ==
    /\ \A k \in Notes : Note(k) \in SaidByDaemon
    /\ \A r \in Runtime : Binds(r) \in SaidByDaemon
    /\ \A h \in Histories : History(h) \in SaidByDaemon
    BY DEF Notes, SaidByDaemon, Note, Binds, History

\* The session changes only what the client has yet to read.
LEMMA SessionOnlyTells ==
    ASSUME MessagesInv, SessionRuns \/ OthersAct
    PROVE  MessagesInv' /\ UNCHANGED <<main, view, alternate>>
<1>. USE DEF keys, shared, screens
<1>1. UNCHANGED toClient => MessagesInv'
  BY DEF MessagesInv
<1>2. ASSUME Welcome \/ Challenge \/ Refuse
      PROVE  MessagesInv' /\ UNCHANGED <<main, view, alternate>>
  <2>1. \E k \in Notes : Tell(<<Note(k)>>)
    BY <1>2 DEF Welcome, Challenge, Refuse, Notes
  <2>2. UNCHANGED <<main, view, alternate>>
    BY <1>2 DEF Welcome, Challenge, Refuse
  <2>. QED  BY <2>1, <2>2, Told, MessagesAre
<1>3. ASSUME Admit
      PROVE  MessagesInv' /\ UNCHANGED <<main, view, alternate>>
  <2>1. PICK redraw \in Optional({Note("PtyOutput")}), bell \in Optional({Note("Bell")}),
             bound \in Optional({Binds(r) : r \in Runtime}) :
             toClient' = redraw \o bell \o bound
    BY <1>3 DEF Admit
  <2>2. ASSUME NEW ms \in SUBSET SaidByDaemon, NEW s \in Optional(ms)
        PROVE  s \in Seq(SaidByDaemon)
    <3>1. << >> \in Seq(SaidByDaemon) /\ \A m \in ms : <<m>> \in Seq(SaidByDaemon)
      OBVIOUS
    <3>2. s = << >> \/ \E m \in ms : s = <<m>>
      BY DEF Optional
    <3>. QED  BY <3>1, <3>2
  <2>3. redraw \in Seq(SaidByDaemon) /\ bell \in Seq(SaidByDaemon) /\ bound \in Seq(SaidByDaemon)
    <3>1. /\ {Note("PtyOutput")} \in SUBSET SaidByDaemon /\ {Note("Bell")} \in SUBSET SaidByDaemon
          /\ {Binds(r) : r \in Runtime} \in SUBSET SaidByDaemon
      BY MessagesAre DEF Notes
    <3>. QED  BY <2>2, <3>1
  <2>4. redraw \o bell \o bound \in Seq(SaidByDaemon)
    BY <2>3, ConcatProperties
  <2>5. UNCHANGED <<main, view, alternate>>
    BY <1>3 DEF Admit
  <2>. QED  BY <2>1, <2>4, <2>5 DEF MessagesInv
<1>4. ASSUME Mislead \/ ShutDown \/ Heard
      PROVE  MessagesInv' /\ UNCHANGED <<main, view, alternate>>
  <2>1. UNCHANGED <<toClient, main, view, alternate>>
    BY <1>4 DEF Mislead, ShutDown, Heard
  <2>. QED  BY <2>1, <1>1
<1>5. ASSUME Detached
      PROVE  MessagesInv' /\ UNCHANGED <<main, view, alternate>>
  <2>1. Tell(<<Note("Detach")>>) \/ UNCHANGED toClient
    BY <1>5 DEF Detached
  <2>2. UNCHANGED <<main, view, alternate>>
    BY <1>5 DEF Detached
  <2>. QED  BY <1>1, <2>1, <2>2, Told, MessagesAre DEF Notes
<1>6. ASSUME CopyRequested
      PROVE  MessagesInv' /\ UNCHANGED <<main, view, alternate>>
  <2>1. \/ UNCHANGED toClient \/ Tell(<<Note("PtyOutput")>>)
        \/ \E h \in Histories : Tell(<<History(h)>>)
    BY <1>6 DEF CopyRequested
  <2>2. UNCHANGED <<main, view, alternate>>
    BY <1>6 DEF CopyRequested
  <2>. QED  BY <1>1, <2>1, <2>2, Told, MessagesAre DEF Notes
<1>7. ASSUME NEW m \in {Note("PtyOutput"), Note("Error")} \union {Binds(r) : r \in Runtime},
             News(m)
      PROVE  MessagesInv' /\ UNCHANGED <<main, view, alternate>>
  <2>1. m \in SaidByDaemon
    BY MessagesAre DEF Notes
  <2>2. Tell(<<m>>) \/ UNCHANGED toClient
    BY <1>7 DEF News
  <2>3. UNCHANGED <<main, view, alternate>>
    BY <1>7 DEF News
  <2>. QED  BY <1>1, <2>1, <2>2, <2>3, Told
<1>8. ASSUME Displaced \/ SessionEnds
      PROVE  MessagesInv' /\ UNCHANGED <<main, view, alternate>>
  <2>1. \/ Tell(<<Note("Detach")>>) \/ Tell(<<Note("ChildExited")>>)
        \/ Tell(<<Note("Error")>>) \/ UNCHANGED toClient
    BY <1>8 DEF Displaced, SessionEnds
  <2>2. UNCHANGED <<main, view, alternate>>
    BY <1>8 DEF Displaced, SessionEnds
  <2>. QED  BY <1>1, <2>1, <2>2, Told, MessagesAre DEF Notes
<1>. QED  BY <1>2, <1>3, <1>4, <1>5, <1>6, <1>7, <1>8 DEF SessionRuns, OthersAct

\* Reading a message leaves messages.
LEMMA ReadingLeaves ==
    ASSUME MessagesInv, NEW where, NEW kinds, Receive(where, kinds)
    PROVE  MessagesInv' /\ Received \in SaidByDaemon
<1>1. Tail(toClient) \in Seq(SaidByDaemon) /\ Head(toClient) \in SaidByDaemon
  BY HeadTailProperties DEF MessagesInv, Receive
<1>. QED  BY <1>1 DEF MessagesInv, Receive, Received

\* Until the loop runs, and in what only it does, no copy mode is on the terminal.
LEMMA OutsideCopyMode ==
    ASSUME IInv,
           \/ Greeted \/ Challenged \/ Prompted \/ Refused
           \/ (\E tty \in BOOLEAN : Admitted(tty)) \/ (TerminalCloses /\ ~Copying)
           \/ Snapshot \/ Start \/ Show \/ Dismissed \/ Rebind \/ Timeout \/ HungUp
    PROVE  IInv'
<1>. USE DEF streams, keys, shared, screens
<1>1. ~Copying /\ main # "panicked"
  BY DEF Greeted, Challenged, Prompted, Refused, Admitted, Snapshot, Start, Show, Dismissed,
         Rebind, Timeout, HungUp, TerminalCloses, Receive, Copying, Running, Ended
<1>2. UNCHANGED <<view, alternate>>
  BY DEF Greeted, Challenged, Prompted, Refused, Admitted, Snapshot, Start, Show, Dismissed,
         Rebind, Timeout, HungUp, TerminalCloses
<1>3. main' \notin {"opening", "browsing"}
  <2>1. ASSUME NEW k PROVE Outcome(k) \in {"left", "failed", "loop"}
    BY DEF Outcome
  <2>2. CASE \/ Greeted \/ Challenged \/ Prompted \/ Refused
             \/ (\E tty \in BOOLEAN : Admitted(tty)) \/ TerminalCloses
    BY <2>2, <1>1 DEF Greeted, Challenged, Prompted, Refused, Admitted, Attaching,
                      TerminalCloses, Copying
  <2>3. CASE Snapshot
    BY <2>1, <2>3 DEF Snapshot, SnapshotOf, Output
  <2>4. CASE Start \/ Dismissed
    BY <2>1, <2>4 DEF Start, Dismissed, Output
  <2>5. CASE Show \/ Rebind \/ Timeout \/ HungUp
    BY <1>1, <2>5 DEF Show, Rebind, Timeout, HungUp, Output, Copying
  <2>. QED  BY <2>2, <2>3, <2>4, <2>5
<1>4. (\E where, kinds : Receive(where, kinds)) \/ UNCHANGED toClient
  BY DEF Greeted, Challenged, Prompted, Refused, Admitted, Snapshot, Start, Show, Dismissed,
         Rebind, Timeout, HungUp, TerminalCloses
<1>5. MessagesInv'
  BY <1>4, ReadingLeaves DEF IInv, MessagesInv
<1>6. ~alternate
  BY <1>1 DEF IInv, ScreenInv, Copying
<1>. QED  BY <1>2, <1>3, <1>5, <1>6 DEF IInv, ScreenInv, ViewInv

\* Copy mode opens on the history that came.
LEMMA CopyModeOpens ==
    ASSUME IInv, OpenCopyMode
    PROVE  IInv'
<1>1. Receive("loop", {"CopyModeData"})
  BY DEF OpenCopyMode
<1>2. MessagesInv' /\ Received \in SaidByDaemon
  BY <1>1, ReadingLeaves DEF IInv
<1>3. Received.lines \in Seq(Lines)
  <2>1. Received.kind = "CopyModeData"
    BY <1>1 DEF Receive
  <2>2. Received.lines \in Histories
    BY <1>2, <2>1 DEF SaidByDaemon
  <2>. QED  BY <2>2, CopyModeAssumption
<1>4. CASE Received.lines = << >>
  BY <1>1, <1>2, <1>4 DEF OpenCopyMode, Receive, IInv, ScreenInv, ViewInv
<1>5. CASE Received.lines # << >>
  <2>1. main' = "opening" /\ \E page \in Pages : view' = View(Received.lines, page)
    BY <1>5 DEF OpenCopyMode
  <2>2. GoodView(view')
    BY <1>3, <1>5, <2>1, ViewOpens, CopyModeAssumption
  <2>. QED  BY <1>2, <2>1, <2>2 DEF IInv, ScreenInv, ViewInv, GoodView, Rows
<1>. QED  BY <1>4, <1>5

\* Whatever is drawn, copy mode goes on with it or the client panics.
Drawn(v) ==
  /\ main \in {"opening", "browsing"} /\ GoodView(v)
  /\ Draw(v) \/ (view' = v /\ UNCHANGED main)
  /\ UNCHANGED <<toClient, alternate>>

LEMMA DrawingGoesOn ==
    ASSUME IInv, NEW v, Drawn(v)
    PROVE  IInv'
<1>. USE DEF Drawn
<1>1. main' \in {"opening", "browsing", "panicked"} /\ view' = v
  BY DEF Draw
<1>. QED  BY <1>1 DEF IInv, MessagesInv, ScreenInv, ViewInv, GoodView, Rows

\* The keys of copy mode stay in it, or leave it with the terminal's own screen.
LEMMA CopyModeKeeps ==
    ASSUME IInv,
           \/ Browse \/ QuitCopyMode \/ QueryEnds
           \/ \E key \in CopyKeys : Yank(key) \/ CopyKey(key)
    PROVE  IInv'
<1>. USE DEF streams, shared, screens
<1>1. CASE Browse
  <2>1. Drawn(view)
    BY <1>1 DEF Drawn, Browse, IInv, ViewInv
  <2>. QED  BY <2>1, DrawingGoesOn
<1>2. CASE QuitCopyMode \/ \E key \in CopyKeys : Yank(key)
  <2>1. main' = "loop" /\ alternate' = FALSE /\ UNCHANGED toClient
    BY <1>2 DEF QuitCopyMode, Yank, LeaveCopyMode
  <2>. QED  BY <2>1 DEF IInv, MessagesInv, ScreenInv, ViewInv
<1>3. ASSUME NEW key \in CopyKeys, CopyKey(key) PROVE IInv'
  <2>1. main = "browsing" /\ GoodView(view) /\ UNCHANGED <<toClient, alternate>>
    BY <1>3 DEF CopyKey, IInv, ViewInv
  <2>2. \/ Draw(Stepped(view, key))
        \/ \E v \in QueryStepped(view, key) : Draw(v) \/ (view' = v /\ UNCHANGED main)
    BY <1>3 DEF CopyKey
  <2>3. \E v : Drawn(v)
    <3>1. CASE Draw(Stepped(view, key))
      <4>1. GoodView(Stepped(view, key))
        BY <2>1, StepStays
      <4>. QED  BY <2>1, <3>1, <4>1 DEF Drawn
    <3>2. CASE \E v \in QueryStepped(view, key) : Draw(v) \/ (view' = v /\ UNCHANGED main)
      <4>1. PICK v \in QueryStepped(view, key) : Draw(v) \/ (view' = v /\ UNCHANGED main)
        BY <3>2
      <4>2. GoodView(v)
        BY <2>1, QueryStays
      <4>. QED  BY <2>1, <4>1, <4>2 DEF Drawn
    <3>. QED  BY <2>2, <3>1, <3>2
  <2>. QED  BY <2>3, DrawingGoesOn
<1>4. CASE QueryEnds
  <2>1. Drawn([view EXCEPT !.query = "closed"])
    BY <1>4 DEF Drawn, QueryEnds, IInv, ViewInv, GoodView, Rows
  <2>. QED  BY <2>1, DrawingGoesOn
<1>. QED  BY <1>1, <1>2, <1>3, <1>4

LEMMA QuietKeeps ==
    ASSUME IInv, Quiet
    PROVE  IInv'
    BY DEF IInv, MessagesInv, ScreenInv, ViewInv, GoodView, Rows, Quiet

\* Closing the terminal changes nothing once the client ignores it.
LEMMA ClosingKeeps ==
    ASSUME IInv, TerminalCloses
    PROVE  IInv'
<1>1. CASE ~Copying
  BY <1>1, OutsideCopyMode
<1>2. CASE Copying
  <2>1. Quiet
    BY <1>2 DEF TerminalCloses, Copying, Quiet, streams
  <2>. QED  BY <2>1, QuietKeeps
<1>. QED  BY <1>1, <1>2

LEMMA Invariance == Spec => []IInv
<1>1. Init => IInv
  BY DEF Init, IInv, MessagesInv, ScreenInv, ViewInv
<1>2. IInv /\ [Next]_vars => IInv'
  <2>. SUFFICES ASSUME IInv, [Next]_vars PROVE IInv'
    OBVIOUS
  <2>1. CASE UNCHANGED vars
    BY <2>1, QuietKeeps DEF Quiet, vars, streams, screens
  <2>2. CASE MainRuns
    BY <2>2, OutsideCopyMode, CopyModeOpens, CopyModeKeeps DEF MainRuns
  <2>3. CASE GetStdout
    BY <2>3, KeyboardIsQuiet, QuietKeeps
  <2>4. CASE SessionRuns \/ OthersAct
    <3>1. MessagesInv' /\ UNCHANGED <<main, view, alternate>>
      BY <2>4, SessionOnlyTells DEF IInv
    <3>. QED  BY <3>1 DEF IInv, ScreenInv, ViewInv, GoodView, Rows
  <2>5. CASE UserActs
    BY <2>5, KeyboardIsQuiet, QuietKeeps, CopyModeKeeps, ClosingKeeps, OutsideCopyMode
    DEF UserActs
  <2>. QED  BY <2>1, <2>2, <2>3, <2>4, <2>5 DEF Next
<1>. QED  BY <1>1, <1>2, PTL DEF Spec

-----------------------------------------------------------------------------
(* The theorems.                                                           *)

(* In copy mode the cursor is on a line of the history and among the lines *)
(* that are shown, the mark is on a line, and the place in the matches     *)
(* exists: for every history, height of the terminal and sequence of keys, *)
(* searches and searches again included (copy_mode_navigate).              *)
THEOREM CursorIsVisible == Spec => []CursorVisible
<1>1. IInv => CursorVisible
  <2>. SUFFICES ASSUME IInv, main = "browsing"
       PROVE  /\ view.cursor \in 0 .. Len(view.lines) - 1
              /\ view.page > 0 => view.cursor \in First(view) .. Beyond(view) - 1
              /\ view.mark \in {NoMark} \union 0 .. Len(view.lines) - 1
              /\ view.hits # << >> => view.hit \in 0 .. Len(view.hits) - 1
    BY DEF CursorVisible
  <2>1. GoodView(view)
    BY DEF IInv, ViewInv
  <2>2. view.page > 0 => view.cursor \in First(view) .. Beyond(view) - 1
    BY <2>1, CursorIsShown
  <2>. QED  BY <2>1, <2>2 DEF GoodView, Rows
<1>. QED  BY <1>1, Invariance, PTL

(* Wherever the client is but in copy mode, and when it has ended without  *)
(* a panic, the terminal shows its own screen: no way out of copy mode and *)
(* no end of the client passes the restoring by.                           *)
THEOREM TerminalIsRestored == Spec => []TerminalRestored
<1>1. IInv => TerminalRestored
  BY DEF IInv, ScreenInv, TerminalRestored
<1>. QED  BY <1>1, Invariance, PTL

-----------------------------------------------------------------------------
(* What a message becomes, and what is made of it.                         *)

Digits == Seq(Octets)

LEMMA BaseFacts == /\ Base \in Nat /\ Base >= 2 /\ Octets \subseteq Nat /\ Octets = 0 .. Base - 1
                   /\ MAX_PAYLOAD_LEN \in Nat
<1>1. Base \in Nat /\ Base >= 2 /\ Octets = 0 .. Base - 1
  BY BaseAssumption DEF Octets
<1>2. Base * Base \in Nat
  BY <1>1
<1>. QED  BY <1>1, <1>2 DEF MAX_PAYLOAD_LEN

LEMMA DigitsJoin == \A a, b, c \in Digits : (a \o b) \o c = a \o (b \o c)
BY ConcatAssociative DEF Digits

LEMMA DivFacts ==
    ASSUME NEW n \in Nat, NEW b \in Nat, b >= 2
    PROVE  /\ n \div b \in Nat /\ n % b \in 0 .. b - 1
           /\ n = (n \div b) * b + (n % b)
OBVIOUS

\* The shifts of a number, one octet after the other.
LEMMA ShiftsFacts ==
    ASSUME NEW n \in Nat, NEW w \in Nat
    PROVE  /\ Shifts(n, w) \in [0 .. w -> Nat] /\ Shifts(n, w)[0] = n
           /\ \A k \in 1 .. w : Shifts(n, w)[k] = Shifts(n, w)[k - 1] \div Base
<1>. DEFINE Left(f, m) == f = [k \in 0 .. m |-> IF k = 0 THEN n ELSE f[k - 1] \div Base]
            T == {m \in Nat : \E f \in [0 .. m -> Nat] : Left(f, m)}
<1>1. T \in SUBSET Nat
  OBVIOUS
<1>2. 0 \in T
  <2>. DEFINE f == [k \in 0 .. 0 |-> n]
  <2>1. f \in [0 .. 0 -> Nat] /\ \A k \in 0 .. 0 : k = 0
    OBVIOUS
  <2>2. f = [k \in 0 .. 0 |-> IF k = 0 THEN n ELSE f[k - 1] \div Base]
    BY <2>1
  <2>3. Left(f, 0)
    BY <2>2
  <2>. HIDE DEF f, Left
  <2>. QED  BY <2>1, <2>3
<1>3. ASSUME NEW m \in T PROVE m + 1 \in T
  <2>1. PICK f \in [0 .. m -> Nat] : Left(f, m)
    OBVIOUS
  <2>2. m \in Nat /\ m + 1 \in Nat
    OBVIOUS
  <2>. HIDE DEF T
  <2>. DEFINE g == [k \in 0 .. m + 1 |-> IF k = m + 1 THEN f[m] \div Base ELSE f[k]]
  <2>3. g \in [0 .. m + 1 -> Nat]
    <3>1. f[m] \div Base \in Nat
      <4>1. f[m] \in Nat
        BY <2>2
      <4>. QED  BY <4>1, BaseFacts, DivFacts
    <3>2. \A k \in 0 .. m + 1 : k # m + 1 => f[k] \in Nat
      BY <2>2
    <3>. QED  BY <3>1, <3>2
  <2>4. ASSUME NEW k \in 0 .. m + 1
        PROVE  g[k] = IF k = 0 THEN n ELSE g[k - 1] \div Base
    <3>1. CASE k = m + 1
      <4>1. k # 0 /\ k - 1 = m /\ m \in 0 .. m + 1 /\ m # m + 1
        BY <2>2, <3>1
      <4>2. g[k] = f[m] \div Base /\ g[m] = f[m]
        BY <3>1, <4>1
      <4>. HIDE DEF g
      <4>. QED  BY <4>1, <4>2
    <3>2. CASE k # m + 1
      <4>1. k \in 0 .. m /\ g[k] = f[k]
        BY <2>2, <3>2
      <4>2. f[k] = IF k = 0 THEN n ELSE f[k - 1] \div Base
        BY <2>1, <4>1
      <4>3. k # 0 => k - 1 \in 0 .. m + 1 /\ k - 1 # m + 1
        BY <2>2, <4>1
      <4>4. k # 0 => g[k - 1] = f[k - 1]
        BY <4>3
      <4>. HIDE DEF g
      <4>. QED  BY <4>1, <4>2, <4>4
    <3>. QED  BY <3>1, <3>2
  <2>5. g = [k \in 0 .. m + 1 |-> g[k]]
    OBVIOUS
  <2>. HIDE DEF g
  <2>6. Left(g, m + 1)
    BY <2>4, <2>5
  <2>. HIDE DEF Left
  <2>. QED  BY <2>2, <2>3, <2>6 DEF T
<1>4. w \in T
  <2>. HIDE DEF T
  <2>. QED  BY <1>1, <1>2, <1>3, InductiveSet
<1>. DEFINE h == CHOOSE f : Left(f, w)
<1>5. Left(h, w)
  <2>1. \E f : Left(f, w)
    BY <1>4
  <2>. QED  BY <2>1
<1>6. Shifts(n, w) = h
  BY DEF Shifts
<1>. HIDE DEF h, T
<1>7. h[0] = n /\ \A k \in 1 .. w : h[k] = h[k - 1] \div Base
  <2>1. h = [k \in 0 .. w |-> IF k = 0 THEN n ELSE h[k - 1] \div Base]
    BY <1>5
  <2>2. 0 \in 0 .. w /\ \A k \in 1 .. w : k \in 0 .. w /\ k # 0
    OBVIOUS
  <2>. QED  BY <2>1, <2>2
<1>8. DOMAIN h = 0 .. w /\ h = [k \in 0 .. w |-> h[k]]
  BY <1>5
<1>. HIDE DEF Left
<1>9. \A k \in Nat : k <= w => h[k] \in Nat
  <2>. DEFINE R == {k \in Nat : k <= w => h[k] \in Nat}
  <2>1. R \in SUBSET Nat /\ 0 \in R
    BY <1>7
  <2>2. ASSUME NEW k \in R PROVE k + 1 \in R
    <3>1. ASSUME k + 1 <= w PROVE h[k + 1] \in Nat
      <4>1. k \in Nat /\ h[k] \in Nat /\ k + 1 \in 1 .. w /\ (k + 1) - 1 = k
        BY <3>1
      <4>2. h[k] \div Base \in Nat
        BY <4>1, BaseFacts, DivFacts
      <4>. QED  BY <1>7, <4>1, <4>2
    <3>. QED  BY <3>1
  <2>3. R = Nat
    <3>. HIDE DEF R
    <3>. QED  BY <2>1, <2>2, InductiveSet
  <2>. QED  BY <2>3
<1>10. h \in [0 .. w -> Nat]
  <2>1. \A k \in 0 .. w : h[k] \in Nat
    BY <1>9
  <2>. QED  BY <1>8, <2>1
<1>. QED  BY <1>6, <1>7, <1>10

(* Reading a number, octet by octet.                                       *)
ReadOctet(n, d) == n * Base + d
OctetsRead(h, octets) ==
  h[0] = 0 /\ \A k \in 1 .. Len(octets) : h[k] = ReadOctet(h[k - 1], octets[k])

\* A number is what its octets make of it, one by one.
LEMMA NumberFold ==
    ASSUME NEW octets \in Digits
    PROVE  \E h : OctetsRead(h, octets) /\ Number(octets) = h[Len(octets)]
<1>. DEFINE n == Len(octets)
            base == 0
            Iter(f) == f = [s \in SUBSET (1 .. n) |->
                              IF s = {} THEN base ELSE ReadOctet(f[s \ {Max(s)}], octets[Max(s)])]
<1>1. n \in Nat /\ DOMAIN octets = 1 .. n
  BY DEF Digits
<1>. HIDE DEF n
<1>2. \E f : Iter(f)
  <2>. DEFINE step == [z \in Nat \X (1 .. n) |-> ReadOctet(z[1], octets[z[2]])]
  <2>1. base \in Nat
    OBVIOUS
  <2>2. step \in [Nat \X (1 .. n) -> Nat]
    <3>1. ASSUME NEW r \in Nat, NEW k \in 1 .. n PROVE ReadOctet(r, octets[k]) \in Nat
      <4>1. octets[k] \in Nat
        BY <1>1, BaseFacts DEF Digits
      <4>. QED  BY <4>1, BaseFacts DEF ReadOctet
    <3>. QED  BY <3>1
  <2>. HIDE DEF base
  <2>3. PICK f \in [SUBSET (1 .. n) -> Nat] : Folds(f, n, base, step)
    <3>. HIDE DEF step
    <3>. QED  BY <1>1, <2>1, <2>2, FoldExists
  <2>4. ASSUME NEW s \in SUBSET (1 .. n)
        PROVE  f[s] = IF s = {} THEN base ELSE ReadOctet(f[s \ {Max(s)}], octets[Max(s)])
    <3>1. CASE s # {}
      <4>1. Max(s) \in 1 .. n
        BY <1>1, <3>1, MaxFacts
      <4>2. f[s \ {Max(s)}] \in Nat
        BY <1>1, <2>3, <4>1
      <4>3. f[s] = step[<< f[s \ {Max(s)}], Max(s) >>]
        BY <2>3, <3>1 DEF Folds
      <4>. QED  BY <3>1, <4>1, <4>2, <4>3
    <3>2. CASE s = {}
      BY <2>3, <3>2 DEF Folds
    <3>. QED  BY <3>1, <3>2
  <2>. HIDE DEF step
  <2>5. f = [s \in SUBSET (1 .. n) |-> f[s]]
    BY <2>3
  <2>6. Iter(f)
    BY <2>4, <2>5
  <2>. QED  BY <2>6
<1>. DEFINE g == CHOOSE f : Iter(f)
<1>3. Iter(g)
  BY <1>2
<1>4. Number(octets) = g[1 .. n]
  BY <1>1 DEF Number, FoldLeft, MapThenFoldSet, ReadOctet
<1>. HIDE DEF g
<1>. DEFINE h == [k \in 0 .. n |-> g[1 .. k]]
<1>5. h[0] = base
  <2>1. 1 .. 0 = {} /\ {} \in SUBSET (1 .. n)
    OBVIOUS
  <2>. QED  BY <1>1, <1>3, <2>1
<1>6. ASSUME NEW k \in 1 .. n PROVE h[k] = ReadOctet(h[k - 1], octets[k])
  <2>1. /\ 1 .. k \in SUBSET (1 .. n) /\ 1 .. k # {} /\ Max(1 .. k) = k
        /\ (1 .. k) \ {k} = 1 .. k - 1
    BY <1>1, MaxOfFirst
  <2>2. k \in 0 .. n /\ k - 1 \in 0 .. n
    BY <1>1
  <2>. HIDE DEF base
  <2>3. g[1 .. k] = ReadOctet(g[1 .. k - 1], octets[k])
    BY <1>3, <2>1, <2>2
  <2>. QED  BY <2>2, <2>3
<1>7. h[n] = g[1 .. n]
  BY <1>1
<1>. HIDE DEF h
<1>8. Number(octets) = h[n]
  BY <1>4, <1>7
<1>. QED  BY <1>5, <1>6, <1>8 DEF n, OctetsRead

LEMMA NumberType ==
    ASSUME NEW octets \in Digits
    PROVE  Number(octets) \in Nat
<1>1. PICK h : OctetsRead(h, octets) /\ Number(octets) = h[Len(octets)]
  BY NumberFold
<1>2. Len(octets) \in Nat /\ \A k \in 1 .. Len(octets) : octets[k] \in Nat
  BY BaseFacts DEF Digits
<1>. DEFINE n == Len(octets)
            R == {k \in Nat : k <= n => h[k] \in Nat}
<1>3. R \in SUBSET Nat /\ 0 \in R
  BY <1>1 DEF OctetsRead
<1>4. ASSUME NEW k \in R PROVE k + 1 \in R
  <2>1. ASSUME k + 1 <= n PROVE h[k + 1] \in Nat
    <3>1. k \in Nat /\ k + 1 \in 1 .. n /\ (k + 1) - 1 = k /\ h[k] \in Nat
      BY <1>2, <2>1
    <3>2. h[k + 1] = h[k] * Base + octets[k + 1] /\ octets[k + 1] \in Nat
      BY <1>1, <1>2, <3>1 DEF OctetsRead, ReadOctet
    <3>. QED  BY <3>1, <3>2, BaseFacts
  <2>. QED  BY <2>1
<1>5. n \in R
  <2>. HIDE DEF R
  <2>. QED  BY <1>2, <1>3, <1>4, InductiveSet
<1>. QED  BY <1>1, <1>2, <1>5

\* Read octet by octet, a number that fits is what it was.
LEMMA NumberBack ==
    ASSUME NEW n \in Nat, NEW w \in Nat, Shifts(n, w)[w] = 0
    PROVE  /\ BigEndian(n, w) \in Digits /\ Len(BigEndian(n, w)) = w
           /\ Number(BigEndian(n, w)) = n
<1>. DEFINE left == Shifts(n, w)
            b == BigEndian(n, w)
<1>1. /\ left \in [0 .. w -> Nat] /\ left[0] = n /\ left[w] = 0
      /\ \A k \in 1 .. w : left[k] = left[k - 1] \div Base
  BY ShiftsFacts
<1>2. b = [i \in 1 .. w |-> left[w - i] % Base]
  BY DEF BigEndian
<1>. HIDE DEF left
<1>3. ASSUME NEW i \in 1 .. w
      PROVE  /\ left[w - i] % Base \in Octets
             /\ left[w - i] = left[w - (i - 1)] * Base + (left[w - i] % Base)
  <2>1. w - i \in 0 .. w /\ w - (i - 1) \in 1 .. w /\ (w - (i - 1)) - 1 = w - i
    OBVIOUS
  <2>2. left[w - i] \in Nat /\ left[w - (i - 1)] = left[w - i] \div Base
    BY <1>1, <2>1
  <2>3. left[w - i] = (left[w - i] \div Base) * Base + (left[w - i] % Base) /\ left[w - i] % Base \in 0 .. Base - 1
    BY <2>2, BaseFacts, DivFacts
  <2>. QED  BY <2>2, <2>3, BaseFacts
<1>4. b \in Digits /\ Len(b) = w /\ \A i \in 1 .. w : b[i] = left[w - i] % Base
  BY <1>2, <1>3 DEF Digits
<1>. HIDE DEF b
<1>5. PICK h : OctetsRead(h, b) /\ Number(b) = h[Len(b)]
  BY <1>4, NumberFold
<1>. DEFINE R == {j \in Nat : j <= w => h[j] = left[w - j]}
<1>6. R \in SUBSET Nat /\ 0 \in R
  <2>1. w - 0 = w
    OBVIOUS
  <2>. QED  BY <1>1, <1>5, <2>1 DEF OctetsRead
<1>7. ASSUME NEW j \in R PROVE j + 1 \in R
  <2>1. ASSUME j + 1 <= w PROVE h[j + 1] = left[w - (j + 1)]
    <3>1. j \in Nat /\ j + 1 \in 1 .. w /\ (j + 1) - 1 = j /\ h[j] = left[w - j]
      BY <2>1
    <3>2. h[j + 1] = h[j] * Base + b[j + 1]
      BY <1>4, <1>5, <3>1 DEF OctetsRead, ReadOctet
    <3>3. left[w - (j + 1)] = left[w - ((j + 1) - 1)] * Base + b[j + 1]
      BY <1>3, <1>4, <3>1
    <3>. QED  BY <3>1, <3>2, <3>3
  <2>. QED  BY <2>1
<1>8. w \in R
  <2>. HIDE DEF R
  <2>. QED  BY <1>6, <1>7, InductiveSet
<1>9. h[w] = left[0]
  <2>1. w - w = 0
    OBVIOUS
  <2>. QED  BY <1>8, <2>1
<1>. QED  BY <1>1, <1>4, <1>5, <1>9 DEF b

-----------------------------------------------------------------------------
(* One field.                                                              *)

FieldNames == {"u8", "bool", "u16", "str", "u32", "u64"}
Values == Nat \union BOOLEAN \union Digits
Takens == [ok : BOOLEAN, left : Digits, values : Seq(Values)]

LEMMA WidthFacts ==
    ASSUME NEW field \in FieldNames
    PROVE  Width(field) \in {1, 2, 4, 8}
BY DEF FieldNames, Width

LEMMA WidthOf ==
    Width("u8") = 1 /\ Width("bool") = 1 /\ Width("u16") = 2 /\ Width("str") = 2
    /\ Width("u32") = 4 /\ Width("u64") = 8
BY DEF Width

LEMMA BigEndianType ==
    ASSUME NEW n \in Nat, NEW w \in Nat
    PROVE  BigEndian(n, w) \in Digits /\ Len(BigEndian(n, w)) = w
<1>. DEFINE left == Shifts(n, w)
<1>1. left \in [0 .. w -> Nat]
  BY ShiftsFacts
<1>2. BigEndian(n, w) = [i \in 1 .. w |-> left[w - i] % Base]
  BY DEF BigEndian
<1>. HIDE DEF left
<1>3. ASSUME NEW i \in 1 .. w PROVE left[w - i] % Base \in Octets
  <2>1. w - i \in 0 .. w
    OBVIOUS
  <2>2. left[w - i] \in Nat
    BY <1>1, <2>1
  <2>. QED  BY <2>2, BaseFacts, DivFacts
<1>. QED  BY <1>2, <1>3 DEF Digits

\* What two octets can hold.
LEMMA TwoOctets ==
    ASSUME NEW n \in Nat, n < MAX_PAYLOAD_LEN
    PROVE  Shifts(n, 2)[2] = 0
<1>. DEFINE s == Shifts(n, 2)
<1>1. s[0] = n /\ s[1] = s[0] \div Base /\ s[2] = s[1] \div Base
  <2>1. s[0] = n /\ \A k \in 1 .. 2 : s[k] = s[k - 1] \div Base
    <3>1. 2 \in Nat
      OBVIOUS
    <3>2. \A w \in Nat : /\ Shifts(n, w)[0] = n
                         /\ \A k \in 1 .. w : Shifts(n, w)[k] = Shifts(n, w)[k - 1] \div Base
      BY ShiftsFacts
    <3>. QED  BY <3>1, <3>2, Zenon DEF s
  <2>2. 1 \in 1 .. 2 /\ 2 \in 1 .. 2 /\ 1 - 1 = 0 /\ 2 - 1 = 1
    OBVIOUS
  <2>. HIDE DEF s
  <2>. QED  BY <2>1, <2>2
<1>. HIDE DEF s
<1>. DEFINE q == n \div Base
<1>2. q \in Nat /\ n = q * Base + (n % Base) /\ n % Base \in Nat
  <2>1. n \div Base \in Nat /\ n % Base \in 0 .. Base - 1 /\ n = (n \div Base) * Base + (n % Base)
    BY BaseFacts, DivFacts
  <2>. QED  BY <2>1, BaseFacts
<1>. HIDE DEF q
<1>3. q < Base
  <2>1. SUFFICES ASSUME q >= Base PROVE FALSE
    BY <1>2, BaseFacts
  <2>2. q * Base >= Base * Base
    BY <1>2, <2>1, BaseFacts
  <2>3. n >= q * Base
    <3>1. q * Base \in Nat
      BY <1>2, BaseFacts
    <3>. QED  BY <1>2, <3>1
  <2>4. q * Base \in Nat /\ Base * Base \in Nat /\ n < Base * Base
    BY <1>2, BaseFacts DEF MAX_PAYLOAD_LEN
  <2>. QED  BY <2>2, <2>3, <2>4
<1>4. q \div Base = 0
  BY <1>2, <1>3, BaseFacts
<1>. QED  BY <1>1, <1>4 DEF q, s

LEMMA AfterType ==
    ASSUME NEW S, NEW s \in Seq(S), NEW n \in Nat
    PROVE  After(s, n) \in Seq(S)
<1>1. n + 1 \in Int /\ Len(s) \in Int /\ \A i \in n + 1 .. Len(s) : s[i] \in S
  OBVIOUS
<1>2. SubSeq(s, n + 1, Len(s)) \in Seq(S)
  BY <1>1, SubSeqProperties
<1>. QED  BY <1>2 DEF After

LEMMA UpToType ==
    ASSUME NEW S, NEW s \in Seq(S), NEW n \in Nat, n <= Len(s)
    PROVE  SubSeq(s, 1, n) \in Seq(S)
<1>1. n \in Int /\ 1 \in Int /\ \A i \in 1 .. n : s[i] \in S
  OBVIOUS
<1>. QED  BY <1>1, SubSeqProperties

LEMMA TakeType ==
    ASSUME NEW taken \in Takens, NEW field \in FieldNames
    PROVE  TakeField(taken, field) \in Takens
<1>. DEFINE w == Width(field)
            n == Number(SubSeq(taken.left, 1, w))
            left == After(taken.left, w)
            e == TakeField(taken, field)
<1>1. w \in Nat /\ taken.left \in Digits /\ taken.ok \in BOOLEAN /\ taken.values \in Seq(Values)
  BY WidthFacts DEF Takens
<1>2. CASE ~taken.ok \/ Len(taken.left) < w \/ (field = "str" /\ Len(left) < n)
  <2>1. e = [taken EXCEPT !.ok = FALSE]
    BY <1>2 DEF TakeField
  <2>. HIDE DEF e
  <2>. QED  BY <2>1 DEF Takens, e
<1>3. CASE ~(~taken.ok \/ Len(taken.left) < w \/ (field = "str" /\ Len(left) < n))
  <2>1. left \in Digits
    BY <1>1, AfterType DEF Digits
  <2>2. n \in Nat
    <3>1. w <= Len(taken.left)
      <4>1. Len(taken.left) \in Nat
        BY <1>1 DEF Digits
      <4>. HIDE DEF w, left, n
      <4>. QED  BY <1>1, <1>3, <4>1
    <3>. HIDE DEF w
    <3>2. SubSeq(taken.left, 1, w) \in Digits
      BY <1>1, <3>1, UpToType DEF Digits
    <3>. QED  BY <3>2, NumberType DEF n
  <2>3. CASE field = "str"
    <3>1. e = [ok |-> TRUE, left |-> After(left, n), values |-> Append(taken.values, SubSeq(left, 1, n))]
      BY <1>3, <2>3 DEF TakeField
    <3>. HIDE DEF e, left, n
    <3>2. n <= Len(left)
      <4>1. Len(left) \in Nat
        BY <2>1 DEF Digits
      <4>. QED  BY <1>3, <2>2, <2>3, <4>1
    <3>3. After(left, n) \in Digits /\ SubSeq(left, 1, n) \in Digits
      BY <2>1, <2>2, <3>2, AfterType, UpToType DEF Digits
    <3>4. Append(taken.values, SubSeq(left, 1, n)) \in Seq(Values)
      <4>1. SubSeq(left, 1, n) \in Values
        BY <3>3 DEF Values
      <4>. QED  BY <1>1, <4>1, AppendProperties
    <3>. QED  BY <3>1, <3>3, <3>4 DEF Takens, e
  <2>4. CASE field = "bool"
    <3>1. e = [ok |-> TRUE, left |-> left, values |-> Append(taken.values, n # 0)]
      BY <1>3, <2>4 DEF TakeField
    <3>. HIDE DEF e, left, n
    <3>2. (n # 0) \in Values
      <4>1. (n # 0) \in BOOLEAN
        OBVIOUS
      <4>. QED  BY <4>1, Zenon DEF Values
    <3>. DEFINE v == n # 0
    <3>3. v \in Values
      BY <3>2
    <3>. HIDE DEF v
    <3>4. Append(taken.values, v) \in Seq(Values)
      BY <1>1, <3>3, AppendProperties
    <3>5. e = [ok |-> TRUE, left |-> left, values |-> Append(taken.values, v)]
      BY <3>1, Zenon DEF v
    <3>. QED  BY <2>1, <3>4, <3>5 DEF Takens, e
  <2>5. CASE field \notin {"str", "bool"}
    <3>1. e = [ok |-> TRUE, left |-> left, values |-> Append(taken.values, n)]
      BY <1>3, <2>5 DEF TakeField
    <3>. HIDE DEF e, left, n
    <3>2. n \in Values
      BY <2>2 DEF Values
    <3>3. Append(taken.values, n) \in Seq(Values)
      BY <1>1, <3>2, AppendProperties
    <3>. QED  BY <2>1, <3>1, <3>3 DEF Takens, e
  <2>. QED  BY <2>3, <2>4, <2>5
<1>. HIDE DEF e, n, left, w
<1>. QED  BY <1>2, <1>3 DEF e

LEMMA FieldType ==
    ASSUME NEW field \in FieldNames, NEW value, IsValue(field, value)
    PROVE  /\ value \in Values /\ EncodeField(field, value) \in Digits
           /\ Len(EncodeField(field, value)) >= 1
           /\ (field = "str" => Len(EncodeField(field, value)) = 2 + Len(value))
           /\ (field # "str" => Len(EncodeField(field, value)) = Width(field))
<1>1. CASE field = "str"
  <2>1. value \in Digits /\ Len(value) \in Nat
    BY <1>1 DEF IsValue, Digits
  <2>. DEFINE b == BigEndian(Len(value), 2)
  <2>2. b \in Digits /\ Len(b) = 2
    <3>1. 2 \in Nat
      OBVIOUS
    <3>. QED  BY <2>1, <3>1, BigEndianType
  <2>3. EncodeField(field, value) = b \o value
    BY <1>1 DEF EncodeField
  <2>. HIDE DEF b
  <2>4. b \o value \in Digits /\ Len(b \o value) = 2 + Len(value)
    <3>1. b \o value \in Seq(Octets) /\ Len(b \o value) = Len(b) + Len(value)
      BY <2>1, <2>2, ConcatProperties DEF Digits
    <3>. QED  BY <2>2, <3>1 DEF Digits
  <2>5. value \in Values
    BY <2>1 DEF Values
  <2>6. 2 + Len(value) >= 1
    BY <2>1
  <2>. QED  BY <1>1, <2>3, <2>4, <2>5, <2>6
<1>2. CASE field = "bool"
  <2>1. EncodeField(field, value) = IF value THEN <<1>> ELSE <<0>>
    BY <1>2 DEF EncodeField
  <2>2. <<1>> \in Digits /\ <<0>> \in Digits
    BY BaseFacts DEF Digits
  <2>3. value \in BOOLEAN
    BY <1>2 DEF IsValue
  <2>4. value \in Values
    BY <2>3, Zenon DEF Values
  <2>5. EncodeField(field, value) \in Digits /\ Len(EncodeField(field, value)) = 1
    <3>1. EncodeField(field, value) = <<1>> \/ EncodeField(field, value) = <<0>>
      BY <2>1, <2>3, Zenon
    <3>2. Len(<<1>>) = 1 /\ Len(<<0>>) = 1
      OBVIOUS
    <3>. QED  BY <2>2, <3>1, <3>2
  <2>6. Width(field) = 1 /\ field # "str" /\ 1 >= 1
    BY <1>2, WidthOf
  <2>. QED  BY <2>4, <2>5, <2>6
<1>3. CASE field \notin {"str", "bool"}
  <2>1. value \in Nat /\ Width(field) \in Nat /\ Width(field) >= 1
    BY <1>3, WidthFacts DEF IsValue
  <2>2. EncodeField(field, value) = BigEndian(value, Width(field))
    BY <1>3 DEF EncodeField
  <2>3. BigEndian(value, Width(field)) \in Digits /\ Len(BigEndian(value, Width(field))) = Width(field)
    BY <2>1, BigEndianType
  <2>4. value \in Values
    BY <2>1 DEF Values
  <2>. QED  BY <1>3, <2>1, <2>2, <2>3, <2>4
<1>. QED  BY <1>1, <1>2, <1>3

(* What taking fields has come to.                                         *)
Took(left, values) == [ok |-> TRUE, left |-> left, values |-> values]

\* The first octets of what is left, as a number, and what is behind them.
LEMMA NumberAhead ==
    ASSUME NEW b \in Digits, NEW rest \in Digits
    PROVE  /\ SubSeq(b \o rest, 1, Len(b)) = b /\ After(b \o rest, Len(b)) = rest
           /\ b \o rest \in Digits /\ Len(b \o rest) >= Len(b)
<1>1. Len(b) \in Nat /\ Len(rest) \in Nat
  BY DEF Digits
<1>2. /\ SubSeq(b \o rest, 1, Len(b)) = b
      /\ SubSeq(b \o rest, Len(b) + 1, Len(b \o rest)) = rest
      /\ b \o rest \in Digits /\ Len(b \o rest) = Len(b) + Len(rest)
  BY ConcatCut DEF Digits
<1>. QED  BY <1>1, <1>2 DEF After

LEMMA TakeBack ==
    ASSUME NEW field \in FieldNames, NEW value, IsValue(field, value),
           field = "str" => Len(value) < MAX_PAYLOAD_LEN,
           NEW rest \in Digits, NEW values \in Seq(Values)
    PROVE  TakeField(Took(EncodeField(field, value) \o rest, values), field)
             = Took(rest, Append(values, value))
<1>. DEFINE taken == Took(EncodeField(field, value) \o rest, values)
            e == TakeField(taken, field)
<1>1. taken.ok = TRUE /\ taken.left = EncodeField(field, value) \o rest /\ taken.values = values
  BY DEF Took
<1>2. CASE field = "str"
  <2>1. value \in Digits /\ Len(value) \in Nat /\ Len(value) < MAX_PAYLOAD_LEN
    BY <1>2 DEF IsValue, Digits
  <2>. DEFINE b == BigEndian(Len(value), 2)
  <2>2. b \in Digits /\ Len(b) = 2 /\ Number(b) = Len(value)
    <3>1. 2 \in Nat /\ Shifts(Len(value), 2)[2] = 0
      BY <2>1, TwoOctets
    <3>. QED  BY <2>1, <3>1, NumberBack
  <2>3. EncodeField(field, value) = b \o value
    BY <1>2 DEF EncodeField
  <2>. HIDE DEF b
  <2>4. (b \o value) \o rest = b \o (value \o rest)
    BY <2>1, <2>2, DigitsJoin
  <2>. DEFINE more == value \o rest
  <2>5. /\ more \in Digits /\ Len(more) >= Len(value)
        /\ SubSeq(more, 1, Len(value)) = value /\ After(more, Len(value)) = rest
    BY <2>1, NumberAhead
  <2>6. taken.left = b \o more
    BY <1>1, <2>3, <2>4
  <2>. HIDE DEF more, taken
  <2>7. SubSeq(b \o more, 1, 2) = b /\ After(b \o more, 2) = more /\ Len(b \o more) >= 2 /\ Len(b \o more) \in Nat
    <3>1. SubSeq(b \o more, 1, Len(b)) = b /\ After(b \o more, Len(b)) = more /\ Len(b \o more) >= Len(b)
          /\ b \o more \in Digits
      BY <2>2, <2>5, NumberAhead
    <3>2. Len(b \o more) \in Nat
      BY <3>1 DEF Digits
    <3>. QED  BY <2>2, <3>1, <3>2
  <2>8. ~(~taken.ok \/ Len(taken.left) < 2 \/ (field = "str" /\ Len(more) < Len(value)))
    <3>1. Len(more) \in Nat
      BY <2>5 DEF Digits
    <3>2. ~(Len(taken.left) < 2)
      BY <2>6, <2>7
    <3>3. ~(Len(more) < Len(value))
      BY <2>1, <2>5, <3>1
    <3>. QED  BY <1>1, <3>2, <3>3, Zenon
  <2>9. SubSeq(taken.left, 1, 2) = b /\ After(taken.left, 2) = more
    BY <2>6, <2>7
  <2>10. e = [ok |-> TRUE, left |-> After(more, Len(value)),
              values |-> Append(taken.values, SubSeq(more, 1, Len(value)))]
    <3>1. Width(field) = 2
      BY <1>2, WidthOf
    <3>. QED  BY <1>2, <2>2, <2>8, <2>9, <3>1 DEF TakeField
  <2>. HIDE DEF e
  <2>11. e = Took(rest, Append(values, value))
    BY <1>1, <2>5, <2>10 DEF Took
  <2>. QED  BY <2>11 DEF e, taken
<1>3. CASE field # "str"
  <2>. DEFINE w == Width(field)
              b == EncodeField(field, value)
  <2>1. b \in Digits /\ Len(b) = w
    BY <1>3, FieldType
  <2>2. w \in Nat
    BY WidthFacts
  <2>. HIDE DEF w, b, taken
  <2>3. SubSeq(taken.left, 1, w) = b /\ After(taken.left, w) = rest /\ ~(Len(taken.left) < w)
    <3>1. SubSeq(b \o rest, 1, Len(b)) = b /\ After(b \o rest, Len(b)) = rest
          /\ b \o rest \in Digits /\ Len(b \o rest) >= Len(b)
      BY <2>1, NumberAhead
    <3>2. Len(b \o rest) \in Nat
      BY <3>1 DEF Digits
    <3>3. ~(Len(b \o rest) < w)
      BY <2>1, <2>2, <3>1, <3>2
    <3>. QED  BY <1>1, <2>1, <3>1, <3>3 DEF b
  <2>4. ~(~taken.ok \/ Len(taken.left) < w \/ (field = "str" /\ Len(rest) < Number(b)))
    BY <1>1, <1>3, <2>3
  <2>5. CASE field = "bool"
    <3>1. e = [ok |-> TRUE, left |-> rest, values |-> Append(taken.values, Number(b) # 0)]
      BY <2>3, <2>4, <2>5 DEF TakeField, w
    <3>2. value \in BOOLEAN /\ b = IF value THEN <<1>> ELSE <<0>>
      BY <2>5 DEF IsValue, EncodeField, b
    <3>3. (Number(b) # 0) = value
      <4>1. PICK h : OctetsRead(h, b) /\ Number(b) = h[Len(b)]
        BY <2>1, NumberFold
      <4>2. Len(b) = 1
        BY <3>2
      <4>3. 1 \in 1 .. Len(b) /\ 1 - 1 = 0
        BY <4>2
      <4>4. h[1] = 0 * Base + b[1]
        BY <4>1, <4>3 DEF OctetsRead, ReadOctet
      <4>5. b[1] = IF value THEN 1 ELSE 0
        BY <3>2
      <4>6. Number(b) = IF value THEN 1 ELSE 0
        BY <4>1, <4>2, <4>4, <4>5, BaseFacts
      <4>7. CASE value = TRUE
        <5>1. Number(b) = 1 /\ 1 # 0
          BY <4>6, <4>7
        <5>. QED  BY <4>7, <5>1
      <4>8. CASE value = FALSE
        <5>1. Number(b) = 0
          BY <4>6, <4>8
        <5>. QED  BY <4>8, <5>1
      <4>. QED  BY <3>2, <4>7, <4>8
    <3>. HIDE DEF e
    <3>4. e = Took(rest, Append(values, value))
      BY <1>1, <3>1, <3>3, Zenon DEF Took
    <3>. QED  BY <3>4 DEF e, taken
  <2>6. CASE field # "bool"
    <3>1. e = [ok |-> TRUE, left |-> rest, values |-> Append(taken.values, Number(b))]
      BY <1>3, <2>3, <2>4, <2>6 DEF TakeField, w
    <3>2. value \in Nat /\ Shifts(value, w)[w] = 0 /\ b = BigEndian(value, w)
      BY <1>3, <2>6 DEF IsValue, EncodeField, b, w
    <3>3. Number(b) = value
      BY <2>2, <3>2, NumberBack
    <3>. HIDE DEF e
    <3>4. e = Took(rest, Append(values, value))
      BY <1>1, <3>1, <3>3, Zenon DEF Took
    <3>. QED  BY <3>4 DEF e, taken
  <2>. QED  BY <2>5, <2>6
<1>. QED  BY <1>2, <1>3

\* The first places of a sequence, one more each time.
LEMMA UpToMore ==
    ASSUME NEW S, NEW s \in Seq(S), NEW k \in Nat, k + 1 <= Len(s)
    PROVE  /\ SubSeq(s, 1, k) \in Seq(S) /\ s[k + 1] \in S
           /\ Append(SubSeq(s, 1, k), s[k + 1]) = SubSeq(s, 1, k + 1)
<1>1. 1 \in 1 .. Len(s) /\ k + 1 \in 1 .. Len(s) /\ (k + 1) - 1 = k /\ k <= Len(s)
  OBVIOUS
<1>2. SubSeq(s, 1, k) \in Seq(S)
  BY <1>1, UpToType
<1>3. SubSeq(s, 1, k + 1) = SubSeq(s, 1, (k + 1) - 1) \o << s[k + 1] >>
  BY <1>1, SubSeqRecursiveSecond
<1>4. Append(SubSeq(s, 1, k), s[k + 1]) = SubSeq(s, 1, k) \o << s[k + 1] >>
  BY <1>1, <1>2, AppendIsConcat
<1>. QED  BY <1>1, <1>2, <1>3, <1>4

-----------------------------------------------------------------------------
(* Fields, one after the other.                                            *)

FieldsRead(h, octets, fields) ==
  /\ h[0] = [ok |-> TRUE, left |-> octets, values |-> << >>]
  /\ \A k \in 1 .. Len(fields) : h[k] = TakeField(h[k - 1], fields[k])

\* Fields are taken one after the other.
LEMMA FieldsFold ==
    ASSUME NEW octets \in Digits, NEW fields \in Seq(FieldNames)
    PROVE  \E h : FieldsRead(h, octets, fields) /\ TakeFields(octets, fields) = h[Len(fields)]
<1>. DEFINE n == Len(fields)
            base == [ok |-> TRUE, left |-> octets, values |-> << >>]
            Iter(f) == f = [s \in SUBSET (1 .. n) |->
                              IF s = {} THEN base ELSE TakeField(f[s \ {Max(s)}], fields[Max(s)])]
<1>1. n \in Nat /\ DOMAIN fields = 1 .. n
  OBVIOUS
<1>. HIDE DEF n
<1>2. \E f : Iter(f)
  <2>. DEFINE step == [z \in Takens \X (1 .. n) |-> TakeField(z[1], fields[z[2]])]
  <2>1. base \in Takens
    <3>1. << >> \in Seq(Values)
      OBVIOUS
    <3>. QED  BY <3>1 DEF Takens
  <2>2. step \in [Takens \X (1 .. n) -> Takens]
    <3>1. ASSUME NEW r \in Takens, NEW k \in 1 .. n PROVE TakeField(r, fields[k]) \in Takens
      <4>1. fields[k] \in FieldNames
        BY <1>1
      <4>. HIDE DEF step
      <4>. QED  BY <4>1, TakeType
    <3>. QED  BY <3>1
  <2>. HIDE DEF base
  <2>3. PICK f \in [SUBSET (1 .. n) -> Takens] : Folds(f, n, base, step)
    <3>. HIDE DEF step
    <3>. QED  BY <1>1, <2>1, <2>2, FoldExists
  <2>4. ASSUME NEW s \in SUBSET (1 .. n)
        PROVE  f[s] = IF s = {} THEN base ELSE TakeField(f[s \ {Max(s)}], fields[Max(s)])
    <3>1. CASE s # {}
      <4>1. Max(s) \in 1 .. n
        BY <1>1, <3>1, MaxFacts
      <4>2. f[s \ {Max(s)}] \in Takens
        BY <1>1, <2>3, <4>1
      <4>3. f[s] = step[<< f[s \ {Max(s)}], Max(s) >>]
        BY <2>3, <3>1 DEF Folds
      <4>. QED  BY <3>1, <4>1, <4>2, <4>3
    <3>2. CASE s = {}
      BY <2>3, <3>2 DEF Folds
    <3>. QED  BY <3>1, <3>2
  <2>. HIDE DEF step
  <2>5. f = [s \in SUBSET (1 .. n) |-> f[s]]
    BY <2>3
  <2>6. Iter(f)
    BY <2>4, <2>5
  <2>. QED  BY <2>6
<1>. DEFINE g == CHOOSE f : Iter(f)
<1>3. Iter(g)
  BY <1>2
<1>4. TakeFields(octets, fields) = g[1 .. n]
  BY <1>1 DEF TakeFields, FoldLeft, MapThenFoldSet
<1>. HIDE DEF g
<1>. DEFINE h == [k \in 0 .. n |-> g[1 .. k]]
<1>5. h[0] = base
  <2>1. 1 .. 0 = {} /\ {} \in SUBSET (1 .. n)
    OBVIOUS
  <2>. QED  BY <1>1, <1>3, <2>1
<1>6. ASSUME NEW k \in 1 .. n PROVE h[k] = TakeField(h[k - 1], fields[k])
  <2>1. /\ 1 .. k \in SUBSET (1 .. n) /\ 1 .. k # {} /\ Max(1 .. k) = k
        /\ (1 .. k) \ {k} = 1 .. k - 1
    BY <1>1, MaxOfFirst
  <2>2. k \in 0 .. n /\ k - 1 \in 0 .. n
    BY <1>1
  <2>. HIDE DEF base
  <2>3. g[1 .. k] = TakeField(g[1 .. k - 1], fields[k])
    BY <1>3, <2>1, <2>2
  <2>. QED  BY <2>2, <2>3
<1>7. h[n] = g[1 .. n]
  BY <1>1
<1>. HIDE DEF h
<1>8. TakeFields(octets, fields) = h[n]
  BY <1>4, <1>7
<1>. QED  BY <1>5, <1>6, <1>8 DEF n, FieldsRead

LEMMA FieldsTaken ==
    ASSUME NEW octets \in Digits, NEW fields \in Seq(FieldNames)
    PROVE  TakeFields(octets, fields) \in Takens
<1>. DEFINE n == Len(fields)
<1>1. PICK h : FieldsRead(h, octets, fields) /\ TakeFields(octets, fields) = h[n]
  BY FieldsFold
<1>. DEFINE R == {k \in Nat : k <= n => h[k] \in Takens}
<1>2. n \in Nat /\ \A k \in 1 .. n : fields[k] \in FieldNames
  OBVIOUS
<1>. HIDE DEF n
<1>3. R \in SUBSET Nat /\ 0 \in R
  <2>1. << >> \in Seq(Values)
    OBVIOUS
  <2>2. [ok |-> TRUE, left |-> octets, values |-> << >>] \in Takens
    BY <2>1 DEF Takens
  <2>3. h[0] \in Takens
    BY <1>1, <2>2 DEF FieldsRead
  <2>. QED  BY <2>3
<1>4. ASSUME NEW k \in R PROVE k + 1 \in R
  <2>1. ASSUME k + 1 <= n PROVE h[k + 1] \in Takens
    <3>1. k \in Nat /\ k + 1 \in 1 .. n /\ (k + 1) - 1 = k /\ h[k] \in Takens
      BY <1>2, <2>1
    <3>2. h[k + 1] = TakeField(h[k], fields[k + 1]) /\ fields[k + 1] \in FieldNames
      BY <1>1, <1>2, <3>1 DEF FieldsRead, n
    <3>. QED  BY <3>1, <3>2, TakeType
  <2>. QED  BY <2>1
<1>5. n \in R
  <2>. HIDE DEF R
  <2>. QED  BY <1>2, <1>3, <1>4, InductiveSet
<1>. QED  BY <1>1, <1>2, <1>5

Parts(fields, values) == [i \in DOMAIN fields |-> EncodeField(fields[i], values[i])]

LEMMA FieldsType ==
    ASSUME NEW fields \in Seq(FieldNames), NEW values, AreValues(fields, values)
    PROVE  /\ values \in Seq(Values) /\ Len(values) = Len(fields)
           /\ Parts(fields, values) \in Seq(Digits) /\ Len(Parts(fields, values)) = Len(fields)
           /\ \A i \in 1 .. Len(fields) : /\ fields[i] \in FieldNames /\ IsValue(fields[i], values[i])
                                          /\ Parts(fields, values)[i] = EncodeField(fields[i], values[i])
           /\ EncodeFields(fields, values) = FlattenSeq(Parts(fields, values))
           /\ EncodeFields(fields, values) \in Digits
<1>. DEFINE n == Len(fields)
<1>1. n \in Nat /\ DOMAIN fields = 1 .. n /\ \A i \in 1 .. n : fields[i] \in FieldNames
  OBVIOUS
<1>. HIDE DEF n
<1>2. values = [i \in 1 .. n |-> values[i]] /\ \A i \in 1 .. n : IsValue(fields[i], values[i])
  BY <1>1 DEF AreValues
<1>3. \A i \in 1 .. n : values[i] \in Values /\ EncodeField(fields[i], values[i]) \in Digits
  BY <1>1, <1>2, FieldType
<1>4. values \in Seq(Values) /\ Len(values) = n
  BY <1>1, <1>2, <1>3
<1>5. Parts(fields, values) = [i \in 1 .. n |-> EncodeField(fields[i], values[i])]
  BY <1>1 DEF Parts
<1>6. Parts(fields, values) \in Seq(Digits) /\ Len(Parts(fields, values)) = n
  BY <1>1, <1>3, <1>5
<1>7. EncodeFields(fields, values) = FlattenSeq(Parts(fields, values))
  BY DEF EncodeFields, Parts
<1>8. FlattenSeq(Parts(fields, values)) \in Digits
  BY <1>6, FlattenType DEF Digits
<1>. QED  BY <1>1, <1>2, <1>4, <1>5, <1>6, <1>7, <1>8 DEF n

\* What has been encoded, whatever is behind it, is taken again.
LEMMA FieldsBack ==
    ASSUME NEW fields \in Seq(FieldNames), NEW values, AreValues(fields, values),
           Len(EncodeFields(fields, values)) <= MAX_PAYLOAD_LEN,
           NEW rest \in Digits
    PROVE  TakeFields(EncodeFields(fields, values) \o rest, fields) = Took(rest, values)
<1>. DEFINE n == Len(fields)
            e == EncodeFields(fields, values)
            p == Parts(fields, values)
<1>1. /\ values \in Seq(Values) /\ Len(values) = n /\ p \in Seq(Digits) /\ Len(p) = n
      /\ \A i \in 1 .. n : /\ fields[i] \in FieldNames /\ IsValue(fields[i], values[i])
                           /\ p[i] = EncodeField(fields[i], values[i])
      /\ e = FlattenSeq(p) /\ e \in Digits
  BY FieldsType
<1>2. n \in Nat
  OBVIOUS
<1>. HIDE DEF n, e, p
<1>3. PICK t \in [0 .. n -> Digits] : Tails(t, p)
  BY <1>1, FlattenTails DEF Digits
<1>4. /\ t[0] = e /\ t[n] = << >>
      /\ \A k \in 1 .. n : t[k - 1] = p[k] \o t[k]
      /\ \A k \in 0 .. n : Len(t[k]) <= Len(t[0])
  BY <1>1, <1>3 DEF Tails
<1>5. e \o rest \in Digits
  BY <1>1, NumberAhead
<1>6. PICK h : FieldsRead(h, e \o rest, fields) /\ TakeFields(e \o rest, fields) = h[n]
  BY <1>5, FieldsFold DEF n
<1>. DEFINE R == {k \in Nat : k <= n => h[k] = Took(t[k] \o rest, SubSeq(values, 1, k))}
<1>7. R \in SUBSET Nat /\ 0 \in R
  <2>1. SubSeq(values, 1, 0) = << >>
    BY SubSeqEmpty
  <2>. QED  BY <1>4, <1>6, <2>1 DEF FieldsRead, Took
<1>8. ASSUME NEW k \in R PROVE k + 1 \in R
  <2>1. SUFFICES ASSUME k + 1 <= n
                 PROVE  h[k + 1] = Took(t[k + 1] \o rest, SubSeq(values, 1, k + 1))
    OBVIOUS
  <2>2. k \in Nat /\ k + 1 \in 1 .. n /\ (k + 1) - 1 = k /\ k \in 0 .. n /\ k + 1 \in 0 .. n /\ k <= n
    BY <1>2, <2>1
  <2>3. h[k] = Took(t[k] \o rest, SubSeq(values, 1, k))
    BY <2>2
  <2>. HIDE DEF R
  <2>. DEFINE f == fields[k + 1]
              v == values[k + 1]
              past == SubSeq(values, 1, k)
              more == t[k + 1] \o rest
  <2>4. f \in FieldNames /\ IsValue(f, v) /\ p[k + 1] = EncodeField(f, v)
    BY <1>1, <2>2
  <2>5. t[k + 1] \in Digits /\ t[k] \in Digits /\ t[k] = EncodeField(f, v) \o t[k + 1] /\ Len(t[k]) <= Len(e)
    BY <1>3, <1>4, <2>2, <2>4
  <2>6. past \in Seq(Values) /\ Append(past, v) = SubSeq(values, 1, k + 1)
    BY <1>1, <2>1, <2>2, UpToMore
  <2>7. h[k + 1] = TakeField(h[k], f)
    BY <1>6, <2>2 DEF FieldsRead, n
  <2>. HIDE DEF f, v, past
  <2>8. EncodeField(f, v) \in Digits /\ (f = "str" => Len(EncodeField(f, v)) = 2 + Len(v))
    BY <2>4, FieldType
  <2>9. t[k] \o rest = EncodeField(f, v) \o more
    <3>. DEFINE x == EncodeField(f, v)
    <3>2. x \in Digits /\ t[k + 1] \in Digits /\ t[k] = x \o t[k + 1]
      BY <2>5, <2>8
    <3>. HIDE DEF x
    <3>3. (x \o t[k + 1]) \o rest = x \o (t[k + 1] \o rest)
      BY <3>2, DigitsJoin
    <3>. QED  BY <3>2, <3>3 DEF x
  <2>10. more \in Digits
    BY <2>5, NumberAhead
  <2>. HIDE DEF more
  <2>11. f = "str" => Len(v) < MAX_PAYLOAD_LEN
    <3>1. ASSUME f = "str" PROVE Len(v) < MAX_PAYLOAD_LEN
      <4>1. v \in Digits /\ Len(v) \in Nat
        BY <2>4, <3>1 DEF IsValue, Digits
      <4>2. Len(t[k]) = Len(EncodeField(f, v)) + Len(t[k + 1]) /\ Len(t[k + 1]) \in Nat
        BY <2>5, <2>8, ConcatProperties DEF Digits
      <4>3. Len(e) <= MAX_PAYLOAD_LEN /\ MAX_PAYLOAD_LEN \in Nat /\ Len(e) \in Nat
        BY <1>1, BaseFacts DEF e, Digits
      <4>4. Len(t[k]) = 2 + Len(v) + Len(t[k + 1]) /\ Len(t[k]) <= Len(e)
        BY <2>5, <2>8, <3>1, <4>2
      <4>5. 2 + Len(v) + Len(t[k + 1]) <= Len(e)
        BY <4>4
      <4>6. \A a, c, l, m \in Nat : 2 + a + c <= l /\ l <= m => a < m
        OBVIOUS
      <4>. QED  BY <4>1, <4>2, <4>3, <4>5, <4>6
    <3>. QED  BY <3>1
  <2>12. TakeField(Took(EncodeField(f, v) \o more, past), f) = Took(more, Append(past, v))
    BY <2>4, <2>6, <2>10, <2>11, TakeBack
  <2>13. h[k] = Took(EncodeField(f, v) \o more, past)
    BY <2>3, <2>9 DEF past
  <2>14. h[k + 1] = Took(more, SubSeq(values, 1, k + 1))
    BY <2>6, <2>7, <2>12, <2>13
  <2>. QED  BY <2>14 DEF more
<1>9. n \in R
  <2>. HIDE DEF R
  <2>. QED  BY <1>2, <1>7, <1>8, InductiveSet
<1>10. h[n] = Took(rest, values)
  <2>1. SubSeq(values, 1, n) = values
    BY <1>1, SubSeqFull
  <2>2. << >> \o rest = rest
    BY ConcatEmptySeq DEF Digits
  <2>. QED  BY <1>2, <1>4, <1>9, <2>1, <2>2
<1>. QED  BY <1>6, <1>10 DEF e

-----------------------------------------------------------------------------
(* Rows of fields.                                                         *)

RowsTakens == [ok : BOOLEAN, left : Digits, rows : Seq(Seq(Values))]
Places(count, octets) == [i \in 1 .. Lesser(count, Len(octets) + 1) |-> i]

(* One more row (the step of TakeRows).                                    *)
TakeRow(taken, row) ==
  LET next == TakeFields(taken.left, row) IN
  IF ~taken.ok \/ ~next.ok THEN [taken EXCEPT !.ok = FALSE]
  ELSE [ok |-> TRUE, left |-> next.left, rows |-> Append(taken.rows, next.values)]

TookRows(left, rows) == [ok |-> TRUE, left |-> left, rows |-> rows]

RowsRead(h, octets, row, n) ==
  /\ h[0] = [ok |-> TRUE, left |-> octets, rows |-> << >>]
  /\ \A k \in 1 .. n : h[k] = TakeRow(h[k - 1], row)

LEMMA RowType ==
    ASSUME NEW taken \in RowsTakens, NEW row \in Seq(FieldNames)
    PROVE  TakeRow(taken, row) \in RowsTakens
<1>. DEFINE next == TakeFields(taken.left, row)
<1>1. taken.left \in Digits /\ taken.rows \in Seq(Seq(Values)) /\ taken.ok \in BOOLEAN
  BY DEF RowsTakens
<1>2. next \in Takens
  BY <1>1, FieldsTaken
<1>. HIDE DEF next
<1>3. next.left \in Digits /\ next.values \in Seq(Values)
  BY <1>2 DEF Takens
<1>4. Append(taken.rows, next.values) \in Seq(Seq(Values))
  BY <1>1, <1>3, AppendProperties
<1>5. CASE ~taken.ok \/ ~next.ok
  <2>1. TakeRow(taken, row) = [taken EXCEPT !.ok = FALSE]
    BY <1>5 DEF TakeRow, next
  <2>. QED  BY <2>1 DEF RowsTakens
<1>6. CASE ~(~taken.ok \/ ~next.ok)
  <2>1. TakeRow(taken, row) = [ok |-> TRUE, left |-> next.left, rows |-> Append(taken.rows, next.values)]
    BY <1>6 DEF TakeRow, next
  <2>. QED  BY <1>3, <1>4, <2>1 DEF RowsTakens
<1>. QED  BY <1>5, <1>6

\* Rows are taken one after the other.
LEMMA RowsFold ==
    ASSUME NEW octets \in Digits, NEW count \in Nat, NEW row \in Seq(FieldNames)
    PROVE  \E h : /\ RowsRead(h, octets, row, Lesser(count, Len(octets) + 1))
                  /\ TakeRows(octets, count, row) = h[Lesser(count, Len(octets) + 1)]
<1>. DEFINE n == Len(Places(count, octets))
            base == [ok |-> TRUE, left |-> octets, rows |-> << >>]
            Iter(f) == f = [s \in SUBSET (1 .. n) |->
                              IF s = {} THEN base ELSE TakeRow(f[s \ {Max(s)}], row)]
<1>1. n \in Nat /\ DOMAIN Places(count, octets) = 1 .. n /\ n = Lesser(count, Len(octets) + 1)
  <2>1. Lesser(count, Len(octets) + 1) \in Nat
    BY DEF Lesser, Digits
  <2>. QED  BY <2>1 DEF Places
<1>. HIDE DEF n
<1>2. \E f : Iter(f)
  <2>. DEFINE step == [z \in RowsTakens \X (1 .. n) |-> TakeRow(z[1], row)]
  <2>1. base \in RowsTakens
    <3>1. << >> \in Seq(Seq(Values))
      OBVIOUS
    <3>. QED  BY <3>1 DEF RowsTakens
  <2>2. step \in [RowsTakens \X (1 .. n) -> RowsTakens]
    <3>1. \A r \in RowsTakens : TakeRow(r, row) \in RowsTakens
      BY RowType
    <3>. QED  BY <3>1
  <2>. HIDE DEF base
  <2>3. PICK f \in [SUBSET (1 .. n) -> RowsTakens] : Folds(f, n, base, step)
    <3>. HIDE DEF step
    <3>. QED  BY <1>1, <2>1, <2>2, FoldExists
  <2>4. ASSUME NEW s \in SUBSET (1 .. n)
        PROVE  f[s] = IF s = {} THEN base ELSE TakeRow(f[s \ {Max(s)}], row)
    <3>1. CASE s # {}
      <4>1. Max(s) \in 1 .. n
        BY <1>1, <3>1, MaxFacts
      <4>2. f[s \ {Max(s)}] \in RowsTakens
        BY <1>1, <2>3, <4>1
      <4>3. f[s] = step[<< f[s \ {Max(s)}], Max(s) >>]
        BY <2>3, <3>1 DEF Folds
      <4>. QED  BY <3>1, <4>1, <4>2, <4>3
    <3>2. CASE s = {}
      BY <2>3, <3>2 DEF Folds
    <3>. QED  BY <3>1, <3>2
  <2>. HIDE DEF step
  <2>5. f = [s \in SUBSET (1 .. n) |-> f[s]]
    BY <2>3
  <2>6. Iter(f)
    BY <2>4, <2>5
  <2>. QED  BY <2>6
<1>. DEFINE g == CHOOSE f : Iter(f)
<1>3. Iter(g)
  BY <1>2
<1>4. TakeRows(octets, count, row) = g[1 .. n]
  BY <1>1 DEF TakeRows, FoldLeft, MapThenFoldSet, TakeRow, Places
<1>. HIDE DEF g
<1>. DEFINE h == [k \in 0 .. n |-> g[1 .. k]]
<1>5. h[0] = base
  <2>1. 1 .. 0 = {} /\ {} \in SUBSET (1 .. n)
    OBVIOUS
  <2>. QED  BY <1>1, <1>3, <2>1
<1>6. ASSUME NEW k \in 1 .. n PROVE h[k] = TakeRow(h[k - 1], row)
  <2>1. /\ 1 .. k \in SUBSET (1 .. n) /\ 1 .. k # {} /\ Max(1 .. k) = k
        /\ (1 .. k) \ {k} = 1 .. k - 1
    BY <1>1, MaxOfFirst
  <2>2. k \in 0 .. n /\ k - 1 \in 0 .. n
    BY <1>1
  <2>. HIDE DEF base
  <2>3. g[1 .. k] = TakeRow(g[1 .. k - 1], row)
    BY <1>3, <2>1, <2>2
  <2>. QED  BY <2>2, <2>3
<1>7. h[n] = g[1 .. n]
  BY <1>1
<1>. HIDE DEF h
<1>8. TakeRows(octets, count, row) = h[n]
  BY <1>4, <1>7
<1>. QED  BY <1>1, <1>5, <1>6, <1>8 DEF RowsRead

RowParts(row, rows) == [i \in DOMAIN rows |-> EncodeFields(row, rows[i])]

LEMMA RowsType ==
    ASSUME NEW row \in Seq(FieldNames), NEW rows, AreRows(row, rows)
    PROVE  /\ rows \in Seq(Seq(Values)) /\ Len(rows) \in Nat
           /\ RowParts(row, rows) \in Seq(Digits) /\ Len(RowParts(row, rows)) = Len(rows)
           /\ \A i \in 1 .. Len(rows) : /\ AreValues(row, rows[i])
                                        /\ RowParts(row, rows)[i] = EncodeFields(row, rows[i])
           /\ FlattenSeq(RowParts(row, rows)) \in Digits
<1>. DEFINE n == Len(rows)
<1>1. n \in Nat /\ rows = [i \in 1 .. n |-> rows[i]]
  BY DEF AreRows
<1>. HIDE DEF n
<1>2. DOMAIN rows = 1 .. n
  BY <1>1
<1>3. \A i \in 1 .. n : AreValues(row, rows[i])
  BY <1>2 DEF AreRows
<1>4. \A i \in 1 .. n : rows[i] \in Seq(Values) /\ EncodeFields(row, rows[i]) \in Digits
  BY <1>3, FieldsType
<1>5. rows \in Seq(Seq(Values))
  BY <1>1, <1>4
<1>6. RowParts(row, rows) = [i \in 1 .. n |-> EncodeFields(row, rows[i])]
  BY <1>2 DEF RowParts
<1>7. RowParts(row, rows) \in Seq(Digits) /\ Len(RowParts(row, rows)) = n
  BY <1>1, <1>4, <1>6
<1>8. FlattenSeq(RowParts(row, rows)) \in Digits
  BY <1>7, FlattenType DEF Digits
<1>. QED  BY <1>1, <1>3, <1>5, <1>6, <1>7, <1>8 DEF n

\* A row of a field or more takes an octet or more.
LEMMA RowLength ==
    ASSUME NEW row \in Seq(FieldNames), row # << >>, NEW values, AreValues(row, values)
    PROVE  Len(EncodeFields(row, values)) >= 1
<1>. DEFINE p == Parts(row, values)
            n == Len(row)
<1>1. /\ p \in Seq(Digits) /\ Len(p) = n /\ n \in Nat /\ n >= 1
      /\ \A i \in 1 .. n : /\ row[i] \in FieldNames /\ IsValue(row[i], values[i])
                           /\ p[i] = EncodeField(row[i], values[i])
      /\ EncodeFields(row, values) = FlattenSeq(p) /\ FlattenSeq(p) \in Digits
  BY FieldsType
<1>. HIDE DEF p, n
<1>2. \A i \in 1 .. n : Len(p[i]) >= 1
  BY <1>1, FieldType
<1>3. Len(p) <= Len(FlattenSeq(p))
  BY <1>1, <1>2, FlattenLong DEF Digits
<1>4. Len(FlattenSeq(p)) \in Nat
  BY <1>1 DEF Digits
<1>. QED  BY <1>1, <1>3, <1>4

LEMMA RowsBack ==
    ASSUME NEW row \in Seq(FieldNames), row # << >>, NEW rows, AreRows(row, rows),
           Len(FlattenSeq(RowParts(row, rows))) <= MAX_PAYLOAD_LEN
    PROVE  /\ TakeRows(FlattenSeq(RowParts(row, rows)), Len(rows), row) = TookRows(<< >>, rows)
           /\ Len(rows) <= Len(FlattenSeq(RowParts(row, rows)))
<1>. DEFINE n == Len(rows)
            p == RowParts(row, rows)
            e == FlattenSeq(p)
<1>1. /\ rows \in Seq(Seq(Values)) /\ n \in Nat /\ p \in Seq(Digits) /\ Len(p) = n
      /\ \A i \in 1 .. n : AreValues(row, rows[i]) /\ p[i] = EncodeFields(row, rows[i])
      /\ e \in Digits
  BY RowsType
<1>2. Len(e) \in Nat /\ Len(e) <= MAX_PAYLOAD_LEN
  BY <1>1 DEF Digits
<1>. HIDE DEF n, p
<1>3. n <= Len(e)
  <2>1. \A i \in 1 .. n : Len(p[i]) >= 1
    BY <1>1, RowLength
  <2>. QED  BY <1>1, <2>1, FlattenLong DEF Digits
<1>4. PICK t \in [0 .. n -> Digits] : Tails(t, p)
  BY <1>1, FlattenTails DEF Digits
<1>. HIDE DEF e
<1>5. /\ t[0] = e /\ t[n] = << >>
      /\ \A k \in 1 .. n : t[k - 1] = p[k] \o t[k]
      /\ \A k \in 0 .. n : Len(t[k]) <= Len(e)
  BY <1>1, <1>4 DEF Tails, e
<1>6. Lesser(n, Len(e) + 1) = n
  BY <1>1, <1>2, <1>3 DEF Lesser
<1>7. PICK h : RowsRead(h, e, row, n) /\ TakeRows(e, n, row) = h[n]
  <2>1. \E h : /\ RowsRead(h, e, row, Lesser(n, Len(e) + 1))
               /\ TakeRows(e, n, row) = h[Lesser(n, Len(e) + 1)]
    BY <1>1, RowsFold
  <2>. QED  BY <1>6, <2>1
<1>. DEFINE R == {k \in Nat : k <= n => h[k] = TookRows(t[k], SubSeq(rows, 1, k))}
<1>8. R \in SUBSET Nat /\ 0 \in R
  <2>1. SubSeq(rows, 1, 0) = << >>
    BY SubSeqEmpty
  <2>. QED  BY <1>5, <1>7, <2>1 DEF RowsRead, TookRows
<1>9. ASSUME NEW k \in R PROVE k + 1 \in R
  <2>1. SUFFICES ASSUME k + 1 <= n
                 PROVE  h[k + 1] = TookRows(t[k + 1], SubSeq(rows, 1, k + 1))
    OBVIOUS
  <2>2. k \in Nat /\ k + 1 \in 1 .. n /\ (k + 1) - 1 = k /\ k \in 0 .. n /\ k + 1 \in 0 .. n /\ k <= n
    BY <1>1, <2>1
  <2>. DEFINE v == rows[k + 1]
              x == EncodeFields(row, v)
              past == SubSeq(rows, 1, k)
  <2>3. h[k] = TookRows(t[k], past)
    BY <2>2
  <2>. HIDE DEF R
  <2>4. AreValues(row, v) /\ p[k + 1] = x
    BY <1>1, <2>2
  <2>5. t[k + 1] \in Digits /\ t[k] \in Digits /\ t[k] = x \o t[k + 1] /\ Len(t[k]) <= Len(e)
    BY <1>4, <1>5, <2>2, <2>4
  <2>6. past \in Seq(Seq(Values)) /\ Append(past, v) = SubSeq(rows, 1, k + 1)
    BY <1>1, <2>1, <2>2, UpToMore DEF n
  <2>7. h[k + 1] = TakeRow(h[k], row)
    BY <1>7, <2>2 DEF RowsRead
  <2>. HIDE DEF v, past
  <2>8. x \in Digits
    BY <2>4, FieldsType
  <2>9. Len(x) <= MAX_PAYLOAD_LEN
    <3>. HIDE DEF x
    <3>1. Len(t[k]) = Len(x) + Len(t[k + 1]) /\ Len(x) \in Nat /\ Len(t[k + 1]) \in Nat
      <4>1. \A a, b \in Digits : Len(a \o b) = Len(a) + Len(b) /\ Len(a) \in Nat
        BY ConcatProperties DEF Digits
      <4>. QED  BY <2>5, <2>8, <4>1
    <3>2. Len(x) + Len(t[k + 1]) <= Len(e)
      BY <2>5, <3>1
    <3>3. \A a, b, l, m \in Nat : a + b <= l /\ l <= m => a <= m
      OBVIOUS
    <3>. QED  BY <1>2, <3>1, <3>2, <3>3, BaseFacts
  <2>10. TakeFields(t[k], row) = Took(t[k + 1], v)
    <3>1. TakeFields(x \o t[k + 1], row) = Took(t[k + 1], v)
      BY <2>4, <2>5, <2>9, FieldsBack
    <3>. QED  BY <2>5, <3>1
  <2>11. TakeRow(h[k], row) = TookRows(t[k + 1], Append(past, v))
    <3>1. h[k].ok = TRUE /\ h[k].left = t[k] /\ h[k].rows = past
      <4>. HIDE DEF x
      <4>. QED  BY <2>3 DEF TookRows
    <3>2. TakeFields(t[k], row).ok = TRUE /\ TakeFields(t[k], row).left = t[k + 1]
          /\ TakeFields(t[k], row).values = v
      BY <2>10 DEF Took
    <3>. QED  BY <3>1, <3>2 DEF TakeRow, TookRows
  <2>. QED  BY <2>6, <2>7, <2>11
<1>10. n \in R
  <2>. HIDE DEF R
  <2>. QED  BY <1>1, <1>8, <1>9, InductiveSet
<1>11. h[n] = TookRows(<< >>, rows)
  <2>1. SubSeq(rows, 1, n) = rows
    BY <1>1, SubSeqFull DEF n
  <2>2. h[n] = TookRows(t[n], SubSeq(rows, 1, n))
    BY <1>1, <1>10
  <2>. HIDE DEF R
  <2>. QED  BY <1>5, <2>1, <2>2, Zenon
<1>. QED  BY <1>3, <1>7, <1>11 DEF n, e, p

-----------------------------------------------------------------------------
(* Whole messages.                                                         *)

RegionRow == << "u32", "u16", "u16", "u16", "u16", "bool" >>

(* What every layout is like.                                              *)
Laidout(l) ==
  /\ l.fields \in Seq(FieldNames)
  /\ \/ l.tail \in {"end", "loose", "rest"} /\ l.count = << >>
     \/ /\ l.tail \in {"rows", "lenient"} /\ l.count \in {<< "u16" >>, << "u32" >>}
        /\ l.row \in Seq(FieldNames) /\ l.row # << >>
     \/ l.tail = "chunks" /\ l.fields = << >> /\ l.count = << >> /\ l.row = RegionRow

LEMMA LayoutFacts ==
    ASSUME NEW kind
    PROVE  Laidout(LayoutOf(kind))
<1>1. /\ << >> \in Seq(FieldNames) /\ << "u32" >> \in Seq(FieldNames) /\ << "bool" >> \in Seq(FieldNames)
      /\ << "u16" >> \in Seq(FieldNames) /\ << "u16", "u16" >> \in Seq(FieldNames)
      /\ << "u64", "u32" >> \in Seq(FieldNames) /\ << "u32", "u16", "u32" >> \in Seq(FieldNames)
      /\ << "u32", "str" >> \in Seq(FieldNames) /\ << "u8" >> \in Seq(FieldNames)
      /\ << "str" >> \in Seq(FieldNames) /\ << "u32", "u8", "str", "str" >> \in Seq(FieldNames)
      /\ << "u8", "str" >> \in Seq(FieldNames)
  BY DEF FieldNames
<1>2. /\ << "str" >> # << >> /\ << "u32", "u8", "str", "str" >> # << >> /\ << "u8", "str" >> # << >>
      /\ << "u32" >> # << >>
  OBVIOUS
<1>3. \A f \in Seq(FieldNames), t \in {"end", "loose", "rest"} : Laidout(Layout(f, t))
  BY DEF Laidout, Layout
<1>4. \A f, r \in Seq(FieldNames), t \in {"rows", "lenient"}, c \in {<< "u16" >>, << "u32" >>} :
        r # << >> => Laidout(Repeated(f, c, t, r))
  BY DEF Laidout, Repeated
<1>5. Laidout(Repeated(<< >>, << >>, "chunks", RegionRow))
  BY <1>1 DEF Laidout, Repeated
<1>. QED  BY <1>1, <1>2, <1>3, <1>4, <1>5 DEF LayoutOf, RegionRow

\* What two octets can hold, four can.
LEMMA FourOctets ==
    ASSUME NEW n \in Nat, n < MAX_PAYLOAD_LEN
    PROVE  Shifts(n, 4)[4] = 0
<1>1. 4 \in Nat /\ 2 \in Nat
  OBVIOUS
<1>2. \A w \in Nat : /\ Shifts(n, w)[0] = n
                     /\ \A k \in 1 .. w : Shifts(n, w)[k] = Shifts(n, w)[k - 1] \div Base
  BY ShiftsFacts
<1>. DEFINE s == Shifts(n, 4)
            r == Shifts(n, 2)
<1>3. /\ s[0] = n /\ \A k \in 1 .. 4 : s[k] = s[k - 1] \div Base
      /\ r[0] = n /\ \A k \in 1 .. 2 : r[k] = r[k - 1] \div Base
  BY <1>1, <1>2, Zenon DEF s, r
<1>4. r[2] = 0
  BY TwoOctets
<1>. HIDE DEF s, r
<1>5. /\ s[1] = s[0] \div Base /\ s[2] = s[1] \div Base /\ s[3] = s[2] \div Base /\ s[4] = s[3] \div Base
      /\ r[1] = r[0] \div Base /\ r[2] = r[1] \div Base
  <2>1. /\ 1 \in 1 .. 4 /\ 2 \in 1 .. 4 /\ 3 \in 1 .. 4 /\ 4 \in 1 .. 4 /\ 1 \in 1 .. 2 /\ 2 \in 1 .. 2
        /\ 1 - 1 = 0 /\ 2 - 1 = 1 /\ 3 - 1 = 2 /\ 4 - 1 = 3
    OBVIOUS
  <2>. QED  BY <1>3, <2>1
<1>6. s[2] = 0
  BY <1>3, <1>4, <1>5
<1>7. 0 \div Base = 0
  BY BaseFacts
<1>. QED  BY <1>5, <1>6, <1>7 DEF s

LEMMA CountFacts ==
    ASSUME NEW count \in {<< "u16" >>, << "u32" >>}, NEW n \in Nat, n < MAX_PAYLOAD_LEN
    PROVE  count \in Seq(FieldNames) /\ AreValues(count, << n >>)
<1>1. count \in Seq(FieldNames) /\ DOMAIN count = {1} /\ count[1] \in {"u16", "u32"}
  <2>1. CASE count = << "u16" >>
    BY <2>1 DEF FieldNames
  <2>2. CASE count = << "u32" >>
    BY <2>2 DEF FieldNames
  <2>. QED  BY <2>1, <2>2
<1>2. << n >> = [i \in DOMAIN count |-> << n >>[i]]
  BY <1>1
<1>3. IsValue(count[1], n)
  <2>1. CASE count[1] = "u16"
    <3>1. Shifts(n, 2)[2] = 0
      BY TwoOctets
    <3>. QED  BY <2>1, <3>1, WidthOf DEF IsValue
  <2>2. CASE count[1] = "u32"
    <3>1. Shifts(n, 4)[4] = 0
      BY FourOctets
    <3>. QED  BY <2>2, <3>1, WidthOf DEF IsValue
  <2>. QED  BY <1>1, <2>1, <2>2
<1>4. \A i \in DOMAIN count : IsValue(count[i], << n >>[i])
  BY <1>1, <1>3
<1>. QED  BY <1>1, <1>2, <1>4 DEF AreValues

LEMMA NoFields ==
    ASSUME NEW values
    PROVE  EncodeFields(<< >>, values) = << >>
<1>1. [i \in DOMAIN << >> |-> EncodeField(<< >>[i], values[i])] = << >>
  OBVIOUS
<1>2. FlattenSeq(<< >>) = << >>
  BY DEF FlattenSeq
<1>. QED  BY <1>1, <1>2 DEF EncodeFields

LEMMA TakeNone ==
    ASSUME NEW octets \in Digits
    PROVE  TakeFields(octets, << >>) = Took(octets, << >>)
<1>1. << >> \in Seq(FieldNames) /\ Len(<< >>) = 0
  OBVIOUS
<1>2. PICK h : FieldsRead(h, octets, << >>) /\ TakeFields(octets, << >>) = h[Len(<< >>)]
  BY <1>1, FieldsFold
<1>. QED  BY <1>1, <1>2 DEF FieldsRead, Took

(* A message's payload, but an Attach's: its fields, a count, rows, a rest. *)
LEMMA MessageFacts ==
    ASSUME NEW m, IsMessage(m), m.kind # "Attach"
    PROVE  LET l == LayoutOf(m.kind)
               f == EncodeFields(l.fields, m.values)
               c == EncodeFields(l.count, << Len(m.rows) >>)
               r == FlattenSeq(RowParts(l.row, m.rows))
           IN  /\ Laidout(l)
               /\ AreValues(l.fields, m.values) /\ AreRows(l.row, m.rows) /\ m.rest \in Digits
               /\ l.tail \in {"end", "loose", "rest"} => m.rows = << >>
               /\ l.tail # "rest" => m.rest = << >>
               /\ m.kind \in Kinds /\ m = Message(m.kind, m.values, m.rows, m.rest)
               /\ Encode(m) = ((f \o c) \o r) \o m.rest
<1>. DEFINE l == LayoutOf(m.kind)
<1>1. Laidout(l)
  BY LayoutFacts
<1>. HIDE DEF l
<1>2. /\ m.kind \in Kinds /\ m = Message(m.kind, m.values, m.rows, m.rest)
      /\ AreValues(l.fields, m.values) /\ AreRows(l.row, m.rows)
      /\ l.tail \notin {"rows", "lenient", "chunks"} => m.rows = << >>
      /\ m.rest \in Digits /\ (l.tail # "rest" => m.rest = << >>)
  BY DEF IsMessage, Digits, l
<1>3. Encode(m) = ((EncodeFields(l.fields, m.values) \o EncodeFields(l.count, << Len(m.rows) >>))
                    \o FlattenSeq(RowParts(l.row, m.rows))) \o m.rest
  BY Zenon DEF Encode, RowParts, l
<1>. QED  BY <1>1, <1>2, <1>3 DEF l

LEMMA PlainBack ==
    ASSUME NEW m, IsMessage(m), m.kind # "Attach", ~TooLong(m),
           LayoutOf(m.kind).tail \in {"end", "loose", "rest"}
    PROVE  Encode(m) \in Digits /\ Decode(m.kind, Encode(m)) = m
<1>. DEFINE l == LayoutOf(m.kind)
            f == EncodeFields(l.fields, m.values)
            c == EncodeFields(l.count, << Len(m.rows) >>)
            r == FlattenSeq(RowParts(l.row, m.rows))
<1>1. /\ Laidout(l)
      /\ AreValues(l.fields, m.values) /\ m.rest \in Digits /\ m.rows = << >>
      /\ l.tail # "rest" => m.rest = << >>
      /\ m = Message(m.kind, m.values, m.rows, m.rest)
      /\ Encode(m) = ((f \o c) \o r) \o m.rest
  BY MessageFacts
<1>2. l.tail \in {"end", "loose", "rest"}
  OBVIOUS
<1>. HIDE DEF l
<1>3. l.fields \in Seq(FieldNames) /\ l.count = << >>
  BY <1>1, <1>2 DEF Laidout
<1>4. f \in Digits
  BY <1>1, <1>3, FieldsType
<1>5. c = << >>
  BY <1>3, NoFields
<1>6. r = << >>
  <2>1. RowParts(l.row, m.rows) = << >>
    BY <1>1 DEF RowParts
  <2>. QED  BY <2>1 DEF FlattenSeq
<1>. HIDE DEF f, c, r
<1>7. Encode(m) = f \o m.rest
  <2>1. f \o << >> = f
    BY <1>4, ConcatEmptySeq DEF Digits
  <2>. QED  BY <1>1, <1>5, <1>6, <2>1, Zenon
<1>8. Encode(m) \in Digits /\ Len(f) <= MAX_PAYLOAD_LEN
  <2>1. /\ f \o m.rest \in Digits /\ Len(f \o m.rest) = Len(f) + Len(m.rest)
        /\ Len(f) \in Nat /\ Len(m.rest) \in Nat
    BY <1>1, <1>4, ConcatProperties DEF Digits
  <2>2. Len(Encode(m)) <= MAX_PAYLOAD_LEN
    <3>1. Len(f \o m.rest) \in Nat /\ ~(Len(f \o m.rest) > MAX_PAYLOAD_LEN)
      BY <1>7, <2>1 DEF TooLong
    <3>. QED  BY <1>7, <3>1, BaseFacts
  <2>. QED  BY <1>7, <2>1, <2>2, BaseFacts
<1>9. TakeFields(Encode(m), l.fields) = Took(m.rest, m.values)
  <2>1. TakeFields(f \o m.rest, l.fields) = Took(m.rest, m.values)
    BY <1>1, <1>3, <1>8, FieldsBack DEF f
  <2>. QED  BY <1>7, <2>1
<1>10. TakeFields(m.rest, l.count) = Took(m.rest, << >>)
  BY <1>1, <1>3, TakeNone
<1>. DEFINE e == Encode(m)
            head == TakeFields(e, l.fields)
            number == TakeFields(head.left, l.count)
<1>11. head.ok = TRUE /\ head.left = m.rest /\ head.values = m.values /\ number.ok = TRUE
  BY <1>9, <1>10 DEF Took
<1>. HIDE DEF e, head, number
<1>12. CASE l.tail = "loose"
  <2>1. Decode(m.kind, e) = Message(m.kind, head.values, << >>, << >>)
    BY <1>11, <1>12 DEF Decode, l, head, number
  <2>. QED  BY <1>1, <1>8, <1>11, <1>12, <2>1 DEF e
<1>13. CASE l.tail = "rest"
  <2>1. Decode(m.kind, e) = Message(m.kind, head.values, << >>, head.left)
    BY <1>11, <1>13 DEF Decode, l, head, number
  <2>. QED  BY <1>1, <1>8, <1>11, <2>1 DEF e
<1>14. CASE l.tail = "end"
  <2>1. head.left = << >>
    BY <1>1, <1>11, <1>14
  <2>2. Decode(m.kind, e) = Message(m.kind, head.values, << >>, << >>)
    BY <1>11, <1>14, <2>1 DEF Decode, l, head, number
  <2>. QED  BY <1>1, <1>8, <1>11, <1>14, <2>2 DEF e
<1>. QED  BY <1>2, <1>12, <1>13, <1>14

\* The octets of a count.
LEMMA CountType ==
    ASSUME NEW count \in {<< "u16" >>, << "u32" >>}, NEW n \in Nat
    PROVE  EncodeFields(count, << n >>) \in Digits /\ Len(EncodeFields(count, << n >>)) >= 2
<1>. DEFINE w == Width(count[1])
            b == BigEndian(n, w)
            ss == << b >>
<1>1. DOMAIN count = {1} /\ count[1] \in {"u16", "u32"}
  <2>1. CASE count = << "u16" >>
    BY <2>1
  <2>2. CASE count = << "u32" >>
    BY <2>2
  <2>. QED  BY <2>1, <2>2
<1>2. w \in Nat /\ w >= 2
  BY <1>1, WidthOf
<1>3. b \in Digits /\ Len(b) = w
  BY <1>2, BigEndianType
<1>4. EncodeFields(count, << n >>) = FlattenSeq(ss)
  <2>1. EncodeField(count[1], n) = b
    BY <1>1 DEF EncodeField
  <2>. HIDE DEF b
  <2>2. [i \in DOMAIN count |-> EncodeField(count[i], << n >>[i])] = ss
    <3>1. \A i \in DOMAIN count : EncodeField(count[i], << n >>[i]) = b
      BY <1>1, <2>1
    <3>2. [i \in DOMAIN count |-> EncodeField(count[i], << n >>[i])] = [i \in 1 .. 1 |-> b]
      BY <1>1, <3>1
    <3>3. [i \in 1 .. 1 |-> b] = << b >>
      OBVIOUS
    <3>. QED  BY <3>2, <3>3
  <2>. QED  BY <2>2, Zenon DEF EncodeFields
<1>. HIDE DEF w, b
<1>5. ss \in Seq(Seq(Octets)) /\ ss # << >> /\ Len(ss) = 1 /\ ss[1] = b
  BY <1>3 DEF Digits
<1>. HIDE DEF ss
<1>6. FlattenSeq(ss) = b
  BY <1>5, FlattenRuns
<1>. QED  BY <1>2, <1>3, <1>4, <1>6

LEMMA CountedBack ==
    ASSUME NEW m, IsMessage(m), m.kind # "Attach", ~TooLong(m),
           LayoutOf(m.kind).tail \in {"rows", "lenient"}
    PROVE  Encode(m) \in Digits /\ Decode(m.kind, Encode(m)) = m
<1>. DEFINE l == LayoutOf(m.kind)
            n == Len(m.rows)
            f == EncodeFields(l.fields, m.values)
            c == EncodeFields(l.count, << n >>)
            r == FlattenSeq(RowParts(l.row, m.rows))
<1>1. /\ Laidout(l)
      /\ AreValues(l.fields, m.values) /\ AreRows(l.row, m.rows) /\ m.rest \in Digits
      /\ l.tail # "rest" => m.rest = << >>
      /\ m = Message(m.kind, m.values, m.rows, m.rest)
      /\ Encode(m) = ((f \o c) \o r) \o m.rest
  BY MessageFacts
<1>2. l.tail \in {"rows", "lenient"}
  OBVIOUS
<1>. HIDE DEF l
<1>3. /\ l.fields \in Seq(FieldNames) /\ l.count \in {<< "u16" >>, << "u32" >>}
      /\ l.row \in Seq(FieldNames) /\ l.row # << >> /\ m.rest = << >>
  BY <1>1, <1>2 DEF Laidout
<1>4. n \in Nat
  BY <1>1 DEF AreRows
<1>5. f \in Digits /\ c \in Digits /\ Len(c) >= 2 /\ r \in Digits
  BY <1>1, <1>3, <1>4, FieldsType, CountType, RowsType
<1>. HIDE DEF n, f, c, r
<1>6. Encode(m) = f \o (c \o r) /\ c \o r \in Digits
  <2>1. (f \o c) \o r = f \o (c \o r)
    BY <1>5, DigitsJoin
  <2>2. c \o r \in Digits /\ f \o (c \o r) \in Digits
    <3>1. \A a, b \in Digits : a \o b \in Digits
      BY NumberAhead
    <3>. QED  BY <1>5, <3>1
  <2>3. (f \o (c \o r)) \o << >> = f \o (c \o r)
    BY <2>2, ConcatEmptySeq DEF Digits
  <2>. QED  BY <1>1, <1>3, <2>1, <2>2, <2>3, Zenon
<1>7. /\ Encode(m) \in Digits
      /\ Len(f) \in Nat /\ Len(c) \in Nat /\ Len(r) \in Nat
      /\ Len(f) + (Len(c) + Len(r)) <= MAX_PAYLOAD_LEN
  <2>1. \A a, b \in Digits : a \o b \in Digits /\ Len(a \o b) = Len(a) + Len(b) /\ Len(a) \in Nat
    BY ConcatProperties DEF Digits
  <2>2. /\ f \o (c \o r) \in Digits /\ Len(f) \in Nat /\ Len(c) \in Nat /\ Len(r) \in Nat
        /\ Len(f \o (c \o r)) = Len(f) + (Len(c) + Len(r))
    BY <1>5, <1>6, <2>1
  <2>3. ~(Len(Encode(m)) > MAX_PAYLOAD_LEN)
    BY DEF TooLong
  <2>4. Len(Encode(m)) = Len(f) + (Len(c) + Len(r))
    BY <1>6, <2>2, Zenon
  <2>5. \A x \in Nat : ~(x > MAX_PAYLOAD_LEN) => x <= MAX_PAYLOAD_LEN
    BY BaseFacts
  <2>6. Len(f) + (Len(c) + Len(r)) \in Nat
    BY <2>2
  <2>7. Encode(m) \in Digits
    BY <1>6, <2>2, Zenon
  <2>. QED  BY <2>2, <2>3, <2>4, <2>5, <2>6, <2>7
<1>8. Len(f) <= MAX_PAYLOAD_LEN /\ Len(c) <= MAX_PAYLOAD_LEN /\ Len(r) <= MAX_PAYLOAD_LEN
      /\ Len(r) + 2 <= MAX_PAYLOAD_LEN
  <2>1. \A x, y, z, w \in Nat : x + (y + z) <= w /\ y >= 2 => x <= w /\ y <= w /\ z <= w /\ z + 2 <= w
    OBVIOUS
  <2>. QED  BY <1>5, <1>7, <2>1, BaseFacts
<1>9. TakeRows(r, n, l.row) = TookRows(<< >>, m.rows) /\ n <= Len(r)
  BY <1>1, <1>3, <1>8, RowsBack DEF r, n
<1>10. n < MAX_PAYLOAD_LEN
  BY <1>4, <1>7, <1>8, <1>9, BaseFacts
<1>11. l.count \in Seq(FieldNames) /\ AreValues(l.count, << n >>)
  BY <1>3, <1>4, <1>10, CountFacts
<1>12. TakeFields(f \o (c \o r), l.fields) = Took(c \o r, m.values)
  BY <1>1, <1>3, <1>6, <1>8, FieldsBack DEF f
<1>13. TakeFields(c \o r, l.count) = Took(r, << n >>)
  BY <1>5, <1>8, <1>11, FieldsBack DEF c
<1>. DEFINE e == Encode(m)
            head == TakeFields(e, l.fields)
            number == TakeFields(head.left, l.count)
            body == TakeRows(number.left, number.values[1], l.row)
<1>14. head = Took(c \o r, m.values)
  BY <1>6, <1>12
<1>15. number = Took(r, << n >>)
  <2>1. head.left = c \o r
    BY <1>14 DEF Took
  <2>. QED  BY <1>13, <2>1
<1>16. body = TookRows(<< >>, m.rows)
  <2>1. number.left = r /\ number.values[1] = n
    BY <1>15 DEF Took
  <2>. QED  BY <1>9, <2>1
<1>17. head.ok = TRUE /\ head.values = m.values /\ number.ok = TRUE /\ body.ok = TRUE /\ body.rows = m.rows
  BY <1>14, <1>15, <1>16 DEF Took, TookRows
<1>. HIDE DEF e, head, number, body
<1>18. Decode(m.kind, e) = Message(m.kind, head.values, body.rows, << >>)
  BY <1>2, <1>17 DEF Decode, l, head, number, body
<1>. QED  BY <1>1, <1>3, <1>7, <1>17, <1>18 DEF e

(* A region of a layout takes thirteen octets.                             *)
AddWidth(n, field) == n + Width(field)
WidthsAdded(h, row) == h[0] = 0 /\ \A k \in 1 .. Len(row) : h[k] = AddWidth(h[k - 1], row[k])

\* The width of a row is that of its fields.
LEMMA WidthFold ==
    ASSUME NEW row \in Seq(FieldNames)
    PROVE  \E h : WidthsAdded(h, row) /\ RowWidth(row) = h[Len(row)]
<1>. DEFINE n == Len(row)
            base == 0
            Iter(f) == f = [s \in SUBSET (1 .. n) |->
                              IF s = {} THEN base ELSE AddWidth(f[s \ {Max(s)}], row[Max(s)])]
<1>1. n \in Nat /\ DOMAIN row = 1 .. n
  OBVIOUS
<1>. HIDE DEF n
<1>2. \E f : Iter(f)
  <2>. DEFINE step == [z \in Nat \X (1 .. n) |-> AddWidth(z[1], row[z[2]])]
  <2>1. base \in Nat
    OBVIOUS
  <2>2. step \in [Nat \X (1 .. n) -> Nat]
    <3>1. ASSUME NEW r \in Nat, NEW k \in 1 .. n PROVE AddWidth(r, row[k]) \in Nat
      <4>1. row[k] \in FieldNames
        BY <1>1
      <4>2. Width(row[k]) \in {1, 2, 4, 8}
        BY <4>1, WidthFacts
      <4>. QED  BY <4>2 DEF AddWidth
    <3>. QED  BY <3>1
  <2>. HIDE DEF base
  <2>3. PICK f \in [SUBSET (1 .. n) -> Nat] : Folds(f, n, base, step)
    <3>. HIDE DEF step
    <3>. QED  BY <1>1, <2>1, <2>2, FoldExists
  <2>4. ASSUME NEW s \in SUBSET (1 .. n)
        PROVE  f[s] = IF s = {} THEN base ELSE AddWidth(f[s \ {Max(s)}], row[Max(s)])
    <3>1. CASE s # {}
      <4>1. Max(s) \in 1 .. n
        BY <1>1, <3>1, MaxFacts
      <4>2. f[s \ {Max(s)}] \in Nat
        BY <1>1, <2>3, <4>1
      <4>3. f[s] = step[<< f[s \ {Max(s)}], Max(s) >>]
        BY <2>3, <3>1 DEF Folds
      <4>. QED  BY <3>1, <4>1, <4>2, <4>3
    <3>2. CASE s = {}
      BY <2>3, <3>2 DEF Folds
    <3>. QED  BY <3>1, <3>2
  <2>. HIDE DEF step
  <2>5. f = [s \in SUBSET (1 .. n) |-> f[s]]
    BY <2>3
  <2>6. Iter(f)
    BY <2>4, <2>5
  <2>. QED  BY <2>6
<1>. DEFINE g == CHOOSE f : Iter(f)
<1>3. Iter(g)
  BY <1>2
<1>4. RowWidth(row) = g[1 .. n]
  BY <1>1 DEF RowWidth, FoldLeft, MapThenFoldSet, AddWidth
<1>. HIDE DEF g
<1>. DEFINE h == [k \in 0 .. n |-> g[1 .. k]]
<1>5. h[0] = base
  <2>1. 1 .. 0 = {} /\ {} \in SUBSET (1 .. n)
    OBVIOUS
  <2>. QED  BY <1>1, <1>3, <2>1
<1>6. ASSUME NEW k \in 1 .. n PROVE h[k] = AddWidth(h[k - 1], row[k])
  <2>1. /\ 1 .. k \in SUBSET (1 .. n) /\ 1 .. k # {} /\ Max(1 .. k) = k
        /\ (1 .. k) \ {k} = 1 .. k - 1
    BY <1>1, MaxOfFirst
  <2>2. k \in 0 .. n /\ k - 1 \in 0 .. n
    BY <1>1
  <2>. HIDE DEF base
  <2>3. g[1 .. k] = AddWidth(g[1 .. k - 1], row[k])
    BY <1>3, <2>1, <2>2
  <2>. QED  BY <2>2, <2>3
<1>7. h[n] = g[1 .. n]
  BY <1>1
<1>. HIDE DEF h
<1>8. RowWidth(row) = h[n]
  BY <1>4, <1>7
<1>. QED  BY <1>5, <1>6, <1>8 DEF n, WidthsAdded

LEMMA RegionFacts ==
    /\ RegionRow \in Seq(FieldNames) /\ RegionRow # << >> /\ Len(RegionRow) = 6
    /\ RegionRow[1] = "u32" /\ \A i \in 2 .. 5 : RegionRow[i] = "u16"
    /\ RegionRow[6] = "bool"
BY DEF RegionRow, FieldNames

LEMMA RegionWidth == RowWidth(RegionRow) = 13
<1>1. PICK h : WidthsAdded(h, RegionRow) /\ RowWidth(RegionRow) = h[Len(RegionRow)]
  BY RegionFacts, WidthFold
<1>2. /\ 1 \in 1 .. 6 /\ 2 \in 1 .. 6 /\ 3 \in 1 .. 6 /\ 4 \in 1 .. 6 /\ 5 \in 1 .. 6 /\ 6 \in 1 .. 6
      /\ 2 \in 2 .. 5 /\ 3 \in 2 .. 5 /\ 4 \in 2 .. 5 /\ 5 \in 2 .. 5
      /\ 1 - 1 = 0 /\ 2 - 1 = 1 /\ 3 - 1 = 2 /\ 4 - 1 = 3 /\ 5 - 1 = 4 /\ 6 - 1 = 5
  OBVIOUS
<1>3. h[0] = 0 /\ \A k \in 1 .. 6 : h[k] = AddWidth(h[k - 1], RegionRow[k])
  BY <1>1, RegionFacts DEF WidthsAdded
<1>4. /\ h[1] = AddWidth(h[0], "u32") /\ h[2] = AddWidth(h[1], "u16") /\ h[3] = AddWidth(h[2], "u16")
      /\ h[4] = AddWidth(h[3], "u16") /\ h[5] = AddWidth(h[4], "u16") /\ h[6] = AddWidth(h[5], "bool")
  BY <1>2, <1>3, RegionFacts
<1>5. h[6] = 13
  BY <1>3, <1>4, WidthOf DEF AddWidth
<1>. QED  BY <1>1, <1>5, RegionFacts

LEMMA RegionLength ==
    ASSUME NEW values, AreValues(RegionRow, values)
    PROVE  Len(EncodeFields(RegionRow, values)) = 13
<1>. DEFINE p == Parts(RegionRow, values)
<1>1. /\ p \in Seq(Digits) /\ Len(p) = 6
      /\ \A i \in 1 .. 6 : /\ RegionRow[i] \in FieldNames /\ IsValue(RegionRow[i], values[i])
                           /\ p[i] = EncodeField(RegionRow[i], values[i])
      /\ EncodeFields(RegionRow, values) = FlattenSeq(p)
  BY RegionFacts, FieldsType
<1>. HIDE DEF p
<1>2. /\ 1 \in 1 .. 6 /\ 2 \in 1 .. 6 /\ 3 \in 1 .. 6 /\ 4 \in 1 .. 6 /\ 5 \in 1 .. 6 /\ 6 \in 1 .. 6
      /\ 2 \in 2 .. 5 /\ 3 \in 2 .. 5 /\ 4 \in 2 .. 5 /\ 5 \in 2 .. 5
      /\ 1 - 1 = 0 /\ 2 - 1 = 1 /\ 3 - 1 = 2 /\ 4 - 1 = 3 /\ 5 - 1 = 4 /\ 6 - 1 = 5
  OBVIOUS
<1>3. \A i \in 1 .. 6 : Len(p[i]) = Width(RegionRow[i])
  <2>1. ASSUME NEW i \in 1 .. 6 PROVE Len(p[i]) = Width(RegionRow[i])
    <3>1. RegionRow[i] # "str"
      BY RegionFacts DEF RegionRow
    <3>. QED  BY <1>1, <3>1, FieldType
  <2>. QED  BY <2>1
<1>4. PICK t \in [0 .. 6 -> Digits] : Tails(t, p)
  BY <1>1, FlattenTails DEF Digits
<1>5. t[0] = FlattenSeq(p) /\ t[6] = << >> /\ \A k \in 1 .. 6 : t[k - 1] = p[k] \o t[k]
  BY <1>1, <1>4 DEF Tails
<1>6. \A k \in 1 .. 6 : Len(t[k - 1]) = Width(RegionRow[k]) + Len(t[k])
  <2>1. ASSUME NEW k \in 1 .. 6 PROVE Len(t[k - 1]) = Width(RegionRow[k]) + Len(t[k])
    <3>1. p[k] \in Digits /\ t[k] \in Digits
      <4>1. k \in 0 .. 6 /\ k \in 1 .. Len(p)
        BY <1>1
      <4>2. p \in Seq(Digits) /\ t \in [0 .. 6 -> Digits]
        BY <1>1, <1>4
      <4>3. p[k] \in Digits
        BY <4>1, <4>2
      <4>4. t[k] \in Digits
        BY <4>1, <4>2
      <4>. QED  BY <4>3, <4>4
    <3>2. \A a, b \in Digits : Len(a \o b) = Len(a) + Len(b)
      BY ConcatProperties DEF Digits
    <3>. QED  BY <1>3, <1>5, <3>1, <3>2
  <2>. QED  BY <2>1
<1>7. /\ Len(t[0]) = 4 + Len(t[1]) /\ Len(t[1]) = 2 + Len(t[2]) /\ Len(t[2]) = 2 + Len(t[3])
      /\ Len(t[3]) = 2 + Len(t[4]) /\ Len(t[4]) = 2 + Len(t[5]) /\ Len(t[5]) = 1 + Len(t[6])
  BY <1>2, <1>6, RegionFacts, WidthOf
<1>8. Len(t[6]) = 0
  BY <1>5
<1>9. Len(t[0]) = 13
  BY <1>7, <1>8
<1>. QED  BY <1>1, <1>5, <1>9

LEMMA ChunksBack ==
    ASSUME NEW m, IsMessage(m), m.kind # "Attach", ~TooLong(m),
           LayoutOf(m.kind).tail = "chunks"
    PROVE  Encode(m) \in Digits /\ Decode(m.kind, Encode(m)) = m
<1>. DEFINE l == LayoutOf(m.kind)
            n == Len(m.rows)
            f == EncodeFields(l.fields, m.values)
            c == EncodeFields(l.count, << n >>)
            r == FlattenSeq(RowParts(l.row, m.rows))
<1>1. /\ Laidout(l)
      /\ AreValues(l.fields, m.values) /\ AreRows(l.row, m.rows) /\ m.rest \in Digits
      /\ l.tail # "rest" => m.rest = << >>
      /\ m = Message(m.kind, m.values, m.rows, m.rest)
      /\ Encode(m) = ((f \o c) \o r) \o m.rest
  BY MessageFacts
<1>2. l.tail = "chunks"
  OBVIOUS
<1>. HIDE DEF l
<1>3. l.fields = << >> /\ l.count = << >> /\ l.row = RegionRow /\ m.rest = << >>
  BY <1>1, <1>2 DEF Laidout
<1>4. n \in Nat /\ r \in Digits /\ f = << >> /\ c = << >>
  BY <1>1, <1>3, RegionFacts, RowsType, NoFields
<1>5. m.values = << >>
  <2>1. m.values = [i \in DOMAIN << >> |-> m.values[i]]
    BY <1>1, <1>3 DEF AreValues
  <2>2. [i \in DOMAIN << >> |-> m.values[i]] = << >>
    OBVIOUS
  <2>. QED  BY <2>1, <2>2, Zenon
<1>6. Len(r) = 13 * n
  <2>. DEFINE p == RowParts(l.row, m.rows)
  <2>1. /\ p \in Seq(Digits) /\ Len(p) = n
        /\ \A i \in 1 .. n : AreValues(RegionRow, m.rows[i]) /\ p[i] = EncodeFields(RegionRow, m.rows[i])
    BY <1>1, <1>3, RegionFacts, RowsType
  <2>. HIDE DEF p, n
  <2>2. \A i \in 1 .. Len(p) : Len(p[i]) = 13
    BY <2>1, RegionLength
  <2>3. 13 \in Nat
    OBVIOUS
  <2>4. Len(FlattenSeq(p)) = 13 * Len(p)
    BY <2>1, <2>2, <2>3, FlattenWidth DEF Digits
  <2>. QED  BY <2>1, <2>4 DEF p
<1>. HIDE DEF f, c
<1>7. Encode(m) = r
  <2>. HIDE DEF r
  <2>1. << >> \in Digits
    BY DEF Digits
  <2>2. \A x \in Digits : << >> \o x = x /\ x \o << >> = x
    BY ConcatEmptySeq DEF Digits
  <2>3. << >> \o << >> = << >> /\ << >> \o r = r /\ r \o << >> = r
    BY <1>4, <2>1, <2>2
  <2>. QED  BY <1>1, <1>3, <1>4, <2>3, Zenon
<1>. HIDE DEF n, r
<1>8. Len(r) \in Nat /\ Len(r) <= MAX_PAYLOAD_LEN
  <2>1. Len(r) \in Nat
    BY <1>4 DEF Digits
  <2>2. ~(Len(r) > MAX_PAYLOAD_LEN)
    BY <1>7 DEF TooLong
  <2>. QED  BY <2>1, <2>2, BaseFacts
<1>9. TakeRows(r, n, l.row) = TookRows(<< >>, m.rows)
  <2>1. Len(FlattenSeq(RowParts(RegionRow, m.rows))) <= MAX_PAYLOAD_LEN /\ AreRows(RegionRow, m.rows)
    BY <1>1, <1>3, <1>8 DEF r
  <2>2. TakeRows(FlattenSeq(RowParts(RegionRow, m.rows)), Len(m.rows), RegionRow) = TookRows(<< >>, m.rows)
    BY <2>1, RegionFacts, RowsBack
  <2>. QED  BY <1>3, <2>2, Zenon DEF r, n
<1>10. Len(r) \div RowWidth(l.row) = n
  <2>1. RowWidth(l.row) = 13
    BY <1>3, RegionWidth
  <2>2. (13 * n) \div 13 = n
    BY <1>4
  <2>. QED  BY <1>6, <2>1, <2>2
<1>. DEFINE e == Encode(m)
            head == TakeFields(e, l.fields)
            number == TakeFields(head.left, l.count)
            body == TakeRows(number.left, Len(e) \div RowWidth(l.row), l.row)
<1>11. head = Took(r, << >>)
  <2>1. TakeFields(r, << >>) = Took(r, << >>)
    BY <1>4, TakeNone
  <2>. QED  BY <1>3, <1>7, <2>1
<1>12. number = Took(r, << >>)
  <2>1. head.left = r
    BY <1>11 DEF Took
  <2>2. TakeFields(r, << >>) = Took(r, << >>)
    BY <1>4, TakeNone
  <2>. QED  BY <1>3, <2>1, <2>2
<1>13. body = TookRows(<< >>, m.rows)
  <2>1. number.left = r
    BY <1>12 DEF Took
  <2>. QED  BY <1>7, <1>9, <1>10, <2>1
<1>14. head.ok = TRUE /\ head.values = << >> /\ number.ok = TRUE /\ body.rows = m.rows
  BY <1>11, <1>12, <1>13 DEF Took, TookRows
<1>. HIDE DEF e, head, number, body
<1>15. Decode(m.kind, e) = Message(m.kind, head.values, body.rows, << >>)
  BY <1>2, <1>14 DEF Decode, l, head, number, body
<1>16. Encode(m) \in Digits
  BY <1>4, <1>7
<1>. QED  BY <1>1, <1>3, <1>5, <1>14, <1>15, <1>16 DEF e

LEMMA AttachBack ==
    ASSUME NEW m, IsMessage(m), m.kind = "Attach"
    PROVE  Encode(m) \in Digits /\ Decode(m.kind, Encode(m)) = m
<1>. DEFINE v == m.values
            b == v[1]
            e == Encode(m)
            d == IF b THEN 1 ELSE 0
<1>1. /\ m = Message("Attach", v, m.rows, m.rest) /\ m.rest \in Digits
      /\ AreValues(<< "bool" >>, v) /\ m.rows = << >>
  BY DEF IsMessage, Layout, Digits
<1>2. v = << b >> /\ b \in BOOLEAN
  <2>1. DOMAIN << "bool" >> = {1} /\ << "bool" >>[1] = "bool"
    OBVIOUS
  <2>2. v = [i \in {1} |-> v[i]] /\ IsValue("bool", v[1])
    BY <1>1, <2>1 DEF AreValues
  <2>3. [i \in {1} |-> v[i]] = << v[1] >>
    OBVIOUS
  <2>. QED  BY <2>2, <2>3 DEF IsValue
<1>3. e = m.rest \o << d >>
  BY <1>2 DEF Encode, EncodeAttach
<1>4. d \in Octets /\ << d >> \in Digits /\ Len(<< d >>) = 1 /\ << d >>[1] = d /\ (d = 1 <=> b)
  BY <1>2, BaseFacts DEF Digits
<1>. HIDE DEF v, b, d, e
<1>5. m.rest \in Seq(Octets) /\ Len(m.rest) \in Nat
  BY <1>1 DEF Digits
<1>6. /\ e \in Digits /\ Len(e) = Len(m.rest) + 1
      /\ \A i \in 1 .. Len(m.rest) + 1 : e[i] = IF i <= Len(m.rest) THEN m.rest[i] ELSE << d >>[i - Len(m.rest)]
  <2>1. /\ m.rest \o << d >> \in Seq(Octets)
        /\ Len(m.rest \o << d >>) = Len(m.rest) + Len(<< d >>)
        /\ \A i \in 1 .. Len(m.rest) + Len(<< d >>) :
             (m.rest \o << d >>)[i] = IF i <= Len(m.rest) THEN m.rest[i] ELSE << d >>[i - Len(m.rest)]
    BY <1>4, <1>5, ConcatProperties DEF Digits
  <2>. QED  BY <1>3, <1>4, <2>1, Zenon DEF Digits
<1>7. Last(e) = d
  <2>1. Len(e) \in 1 .. Len(m.rest) + 1 /\ ~(Len(e) <= Len(m.rest)) /\ Len(e) - Len(m.rest) = 1
    BY <1>5, <1>6
  <2>2. e[Len(e)] = << d >>[1]
    BY <1>6, <2>1
  <2>. QED  BY <1>4, <2>2 DEF Last
<1>8. e # << >>
  BY <1>5, <1>6
<1>9. Front(e) = m.rest
  <2>1. SubSeq(m.rest \o << d >>, 1, Len(m.rest)) = m.rest
    BY <1>4, <1>5, ConcatCut DEF Digits
  <2>2. Len(e) - 1 = Len(m.rest)
    BY <1>5, <1>6
  <2>. QED  BY <1>3, <2>1, <2>2 DEF Front
<1>10. (IF Len(e) > 1 THEN Front(e) ELSE << >>) = m.rest
  <2>1. CASE Len(e) > 1
    BY <1>9, <2>1
  <2>2. CASE ~(Len(e) > 1)
    <3>1. Len(m.rest) = 0
      BY <1>5, <1>6, <2>2
    <3>2. m.rest = << >>
      BY <1>5, <3>1
    <3>. QED  BY <2>2, <3>2
  <2>. QED  BY <2>1, <2>2
<1>11. (e # << >> /\ Last(e) = 1) = b
  BY <1>2, <1>4, <1>7, <1>8
<1>12. DecodeAttach(e) = Message("Attach", << b >>, << >>, m.rest)
  BY <1>10, <1>11, Zenon DEF DecodeAttach
<1>13. Decode("Attach", e) = DecodeAttach(e)
  <2>. DEFINE l == LayoutOf("Attach")
              head == TakeFields(e, l.fields)
              number == TakeFields(head.left, l.count)
  <2>1. l.tail = "end"
    BY DEF LayoutOf, Layout
  <2>. HIDE DEF l, head, number
  <2>. QED  BY <2>1 DEF Decode, l, head, number
<1>. QED  BY <1>1, <1>2, <1>6, <1>12, <1>13 DEF e

LEMMA Survival ==
    ASSUME NEW m, IsMessage(m), ~TooLong(m)
    PROVE  Encode(m) \in Digits /\ Decode(m.kind, Encode(m)) = m
<1>1. CASE m.kind = "Attach"
  BY <1>1, AttachBack
<1>2. CASE m.kind # "Attach"
  <2>1. LayoutOf(m.kind).tail \in {"end", "loose", "rest", "rows", "lenient", "chunks"}
    <3>1. Laidout(LayoutOf(m.kind))
      BY LayoutFacts
    <3>. QED  BY <3>1 DEF Laidout
  <2>. QED  BY <1>2, <2>1, PlainBack, CountedBack, ChunksBack
<1>. QED  BY <1>1, <1>2

(* What the sender writes of a message that it does not refuse, the        *)
(* receiver reads as that message: for every kind of message, whatever its *)
(* numbers, its strings, the number of its rows and the octets at its end, *)
(* and however many values an octet has.  That neither the length of a     *)
(* string nor the count of rows is cut to the two octets it is sent in is  *)
(* left to the check of the whole payload's length (checked_payload), and  *)
(* it is enough.                                                           *)
THEOREM MessagesSurvive ==
    ASSUME NEW m, IsMessage(m), ~TooLong(m)
    PROVE  Decode(m.kind, Encode(m)) = m
BY Survival

-----------------------------------------------------------------------------
(* The connection.  A message that the receiver decodes from its own       *)
(* encoding.                                                               *)
Keeps(m) == m.kind \in Kinds /\ Encode(m) \in Seq(Nat) /\ Decode(m.kind, Encode(m)) = m

Pieces == [of : {"magic", "version", "kind", "len", "octet"}, n : Nat]

(* A frame as one sequence, and what is left of it before its wth write,   *)
(* of which the first five write a piece each and the sixth the others.    *)
Opening(m) == << Piece("magic", 0), Piece("version", 0), Piece("kind", NumberOf(m.kind)),
                 Piece("len", Len(Encode(m))) >>
Payload(m) == [i \in DOMAIN Encode(m) |-> Piece("octet", Encode(m)[i])]
Whole(m) == Opening(m) \o Payload(m)
Left(u, w) == IF w = 7 THEN << >> ELSE SubSeq(u, w, Len(u))
Rest(m, w) == Left(Whole(m), w)

LEMMA KindFacts ==
    ASSUME NEW kind \in Kinds
    PROVE  /\ NumberOf(kind) \in Nat \ {0} /\ KindOf(NumberOf(kind)) = kind
           /\ kind # "unknown" /\ kind # "malformed"
<1>1. DOMAIN KindsInOrder = 1 .. 68
  BY DEF KindsInOrder
<1>2. \A i \in 1 .. 68 : KindsInOrder[i] \notin {"unknown", "malformed", "Error"}
  BY DEF KindsInOrder
<1>3. CASE kind = "Error"
  <2>1. NumberOf(kind) = 255
    BY <1>3 DEF NumberOf
  <2>2. KindOf(255) = "Error"
    <3>1. 255 \notin DOMAIN KindsInOrder
      BY <1>1
    <3>. QED  BY <3>1 DEF KindOf
  <2>. QED  BY <1>3, <2>1, <2>2
<1>4. CASE kind # "Error"
  <2>1. \E i \in DOMAIN KindsInOrder : KindsInOrder[i] = kind
    BY <1>4 DEF Kinds
  <2>2. NumberOf(kind) \in DOMAIN KindsInOrder /\ KindsInOrder[NumberOf(kind)] = kind
    BY <1>4, <2>1 DEF NumberOf
  <2>3. NumberOf(kind) \in 1 .. 68
    BY <1>1, <2>2
  <2>4. KindOf(NumberOf(kind)) = kind
    <3>1. NumberOf(kind) # 255
      BY <2>3
    <3>. QED  BY <2>2, <3>1 DEF KindOf
  <2>. QED  BY <1>2, <2>2, <2>3, <2>4
<1>. QED  BY <1>3, <1>4

(* No octet of the message looks like the magic.                           *)
Free(m) == \A i \in DOMAIN Encode(m) : Encode(m)[i] # Magic

LEMMA WholeFacts ==
    ASSUME NEW m, Keeps(m)
    PROVE  /\ Len(Encode(m)) \in Nat
           /\ Opening(m) \in Seq(Pieces) /\ Len(Opening(m)) = 4
           /\ Payload(m) \in Seq(Pieces) /\ Len(Payload(m)) = Len(Encode(m))
           /\ Whole(m) \in Seq(Pieces) /\ Len(Whole(m)) = 4 + Len(Encode(m))
           /\ Free(m) => \A r \in 2 .. Len(Whole(m)) : ~IsMagic(Whole(m)[r])
<1>1. /\ NumberOf(m.kind) \in Nat
      /\ Encode(m) \in Seq(Nat) /\ Len(Encode(m)) \in Nat /\ DOMAIN Encode(m) = 1 .. Len(Encode(m))
      /\ \A i \in 1 .. Len(Encode(m)) : Encode(m)[i] \in Nat
  BY KindFacts DEF Keeps
<1>. DEFINE n == Len(Encode(m))
            o == Opening(m)
            p == Payload(m)
<1>2. \A q \in {"magic", "version", "kind", "len", "octet"}, k \in Nat :
         Piece(q, k) \in Pieces /\ Piece(q, k).of = q /\ Piece(q, k).n = k
  BY DEF Piece, Pieces
<1>3. /\ o \in Seq(Pieces) /\ Len(o) = 4
      /\ \A r \in 2 .. 4 : ~IsMagic(o[r])
  BY <1>1, <1>2 DEF Opening, IsMagic
<1>4. \A i \in 1 .. n : Piece("octet", Encode(m)[i]) \in Pieces
  BY <1>1, <1>2
<1>5. /\ p \in Seq(Pieces) /\ Len(p) = n
      /\ Free(m) => \A i \in 1 .. n : ~IsMagic(p[i])
  <2>1. p = [i \in 1 .. n |-> Piece("octet", Encode(m)[i])]
    BY <1>1 DEF Payload
  <2>. HIDE DEF p
  <2>2. p \in Seq(Pieces) /\ Len(p) = n
    BY <1>1, <1>4, <2>1
  <2>3. ASSUME Free(m), NEW i \in 1 .. n PROVE ~IsMagic(p[i])
    <3>1. p[i] = Piece("octet", Encode(m)[i]) /\ Encode(m)[i] # Magic
      BY <1>1, <2>1, <2>3 DEF Free
    <3>2. p[i].of = "octet" /\ p[i].n = Encode(m)[i]
      BY <1>1, <1>2, <3>1
    <3>. QED  BY <3>1, <3>2 DEF IsMagic
  <2>. QED  BY <2>2, <2>3
<1>. HIDE DEF o, p
<1>6. /\ o \o p \in Seq(Pieces) /\ Len(o \o p) = 4 + n
      /\ \A r \in 1 .. 4 + n : (o \o p)[r] = IF r <= 4 THEN o[r] ELSE p[r - 4]
  <2>1. /\ o \o p \in Seq(Pieces) /\ Len(o \o p) = Len(o) + Len(p)
        /\ \A r \in 1 .. Len(o) + Len(p) : (o \o p)[r] = IF r <= Len(o) THEN o[r] ELSE p[r - Len(o)]
    <3>1. o \in Seq(Pieces) /\ p \in Seq(Pieces)
      BY <1>3, <1>5
    <3>. HIDE DEF n
    <3>. QED  BY <3>1, ConcatProperties
  <2>. QED  BY <1>3, <1>5, <2>1
<1>7. ASSUME Free(m), NEW r \in 2 .. 4 + n PROVE ~IsMagic((o \o p)[r])
  <2>1. n \in Nat
    BY <1>1 DEF n
  <2>2. r \in 1 .. 4 + n /\ (r > 4 => r - 4 \in 1 .. n) /\ (r <= 4 => r \in 2 .. 4)
    BY <2>1
  <2>3. CASE r <= 4
    BY <1>3, <1>6, <2>2, <2>3
  <2>4. CASE ~(r <= 4)
    BY <1>5, <1>6, <1>7, <2>1, <2>2, <2>4
  <2>. QED  BY <2>3, <2>4
<1>. QED  BY <1>1, <1>3, <1>5, <1>6, <1>7 DEF Whole, n, o, p

-----------------------------------------------------------------------------
(* Frames one after the other.                                             *)

(* The messages of s after the kth, laid end to end.  Where each ends.     *)
LaidAt(at, tape, s, k) ==
  /\ at \in [k .. Len(s) -> Nat] /\ at[k] = 0 /\ at[Len(s)] = Len(tape)
  /\ \A i \in k + 1 .. Len(s) :
       /\ at[i] = at[i - 1] + Len(Whole(s[i]))
       /\ \A j \in k .. i - 1 : at[j] < at[i]
       /\ \A q \in 1 .. Len(Whole(s[i])) : tape[at[i - 1] + q] = Whole(s[i])[q]
Laid(tape, s, k) == tape \in Seq(Pieces) /\ \E at : LaidAt(at, tape, s, k)

Good(s) == \A i \in DOMAIN s : Keeps(s[i])

LEMMA LaidNone ==
    ASSUME NEW S, NEW s \in Seq(S)
    PROVE  /\ Laid(<< >>, s, Len(s))
           /\ \A tape : Laid(tape, s, Len(s)) => tape = << >>
<1>. DEFINE n == Len(s)
<1>1. n \in Nat /\ n .. n = {n} /\ n + 1 .. n = {}
  OBVIOUS
<1>2. LaidAt([i \in n .. n |-> 0], << >>, s, n)
  <2>. HIDE DEF n
  <2>. QED  BY <1>1 DEF LaidAt, n
<1>3. ASSUME NEW tape, Laid(tape, s, n) PROVE tape = << >>
  <2>1. tape \in Seq(Pieces) /\ Len(tape) = 0
    BY <1>3 DEF Laid, LaidAt
  <2>. QED  BY <2>1
<1>. QED  BY <1>2, <1>3 DEF Laid

LEMMA LaidMore ==
    ASSUME NEW S, NEW s \in Seq(S), Good(s), NEW m \in S, Keeps(m),
           NEW k \in 0 .. Len(s), NEW tape, Laid(tape, s, k)
    PROVE  Laid(tape \o Whole(m), Append(s, m), k)
<1>. DEFINE n == Len(s)
            w == Whole(m)
            l == Len(tape)
            u == tape \o w
            t == Append(s, m)
<1>1. /\ n \in Nat /\ k \in Nat /\ k <= n
      /\ t \in Seq(S) /\ Len(t) = n + 1 /\ t[n + 1] = m /\ \A i \in 1 .. n : t[i] = s[i]
  OBVIOUS
<1>2. w \in Seq(Pieces) /\ Len(w) \in Nat /\ Len(w) >= 4
  BY WholeFacts
<1>3. PICK at : LaidAt(at, tape, s, k)
  BY DEF Laid
<1>4. tape \in Seq(Pieces) /\ l \in Nat
  BY DEF Laid
<1>5. /\ u \in Seq(Pieces) /\ Len(u) = l + Len(w)
      /\ \A q \in 1 .. l + Len(w) : u[q] = IF q <= l THEN tape[q] ELSE w[q - l]
  BY <1>2, <1>4, ConcatProperties
<1>. DEFINE new == [i \in k .. n + 1 |-> IF i = n + 1 THEN l + Len(w) ELSE at[i]]
<1>6. /\ at \in [k .. n -> Nat] /\ at[k] = 0 /\ at[n] = l
      /\ \A i \in k + 1 .. n : /\ at[i] = at[i - 1] + Len(Whole(s[i]))
                               /\ \A j \in k .. i - 1 : at[j] < at[i]
                               /\ \A q \in 1 .. Len(Whole(s[i])) : tape[at[i - 1] + q] = Whole(s[i])[q]
  BY <1>3 DEF LaidAt
<1>. HIDE DEF n, w, l, u, t
<1>7. /\ new \in [k .. n + 1 -> Nat] /\ new[k] = 0 /\ new[n + 1] = l + Len(w)
      /\ \A i \in k .. n : new[i] = at[i]
  BY <1>1, <1>2, <1>4, <1>6
<1>. HIDE DEF new
<1>8. ASSUME NEW i \in k .. n PROVE at[i] <= l /\ at[i] \in Nat
  <2>1. CASE i = n
    BY <1>4, <1>6, <2>1
  <2>2. CASE i # n
    <3>1. n \in k + 1 .. n /\ i \in k .. n - 1
      BY <1>1, <2>2
    <3>2. at[i] < at[n]
      BY <1>6, <3>1
    <3>. QED  BY <1>4, <1>6, <3>2
  <2>. QED  BY <2>1, <2>2
<1>9. ASSUME NEW i \in k + 1 .. n + 1
      PROVE  /\ new[i] = new[i - 1] + Len(Whole(t[i]))
             /\ \A j \in k .. i - 1 : new[j] < new[i]
             /\ \A q \in 1 .. Len(Whole(t[i])) : u[new[i - 1] + q] = Whole(t[i])[q]
  <2>1. CASE i = n + 1
    <3>1. i - 1 = n /\ n \in k .. n /\ new[i - 1] = l /\ t[i] = m
      BY <1>1, <1>6, <1>7, <2>1
    <3>2. new[i] = new[i - 1] + Len(Whole(t[i]))
      BY <1>7, <2>1, <3>1 DEF w
    <3>3. ASSUME NEW j \in k .. i - 1 PROVE new[j] < new[i]
      <4>1. j \in k .. n /\ new[j] = at[j] /\ new[i] = l + Len(w)
        BY <1>1, <1>7, <2>1, <3>1
      <4>2. at[j] <= l /\ at[j] \in Nat
        BY <1>8, <4>1
      <4>. QED  BY <1>2, <1>4, <4>1, <4>2
    <3>4. ASSUME NEW q \in 1 .. Len(w) PROVE u[l + q] = w[q]
      <4>1. l + q \in 1 .. l + Len(w) /\ ~(l + q <= l) /\ (l + q) - l = q
        BY <1>2, <1>4
      <4>. QED  BY <1>5, <4>1
    <3>. QED  BY <3>1, <3>2, <3>3, <3>4 DEF w
  <2>2. CASE i # n + 1
    <3>1. i \in k + 1 .. n /\ i \in k .. n /\ i - 1 \in k .. n /\ i \in 1 .. n
      BY <1>1, <2>2
    <3>2. t[i] = s[i] /\ new[i] = at[i] /\ new[i - 1] = at[i - 1] /\ \A j \in k .. i - 1 : j \in k .. n /\ new[j] = at[j]
      BY <1>1, <1>7, <3>1
    <3>3. at[i] \in Nat /\ at[i - 1] \in Nat /\ at[i] <= l
      BY <1>6, <1>8, <3>1
    <3>4. ASSUME NEW q \in 1 .. Len(Whole(s[i])) PROVE u[at[i - 1] + q] = Whole(s[i])[q]
      <4>1. at[i - 1] + q \in Nat /\ at[i - 1] + q >= 1 /\ at[i - 1] + q <= l
        <5>1. at[i] = at[i - 1] + Len(Whole(s[i]))
          BY <1>6, <3>1
        <5>2. Len(Whole(s[i])) \in Nat
          <6>1. Keeps(s[i])
            BY <3>1 DEF Good, n
          <6>. QED  BY <6>1, WholeFacts
        <5>. DEFINE x == Len(Whole(s[i]))
        <5>3. x \in Nat /\ at[i] = at[i - 1] + x /\ q \in 1 .. x
          BY <5>1, <5>2
        <5>. DEFINE a == at[i - 1]
                    b == at[i]
        <5>4. a \in Nat /\ b = a + x /\ b <= l
          BY <3>3, <5>3
        <5>. HIDE DEF x, a, b
        <5>5. a + q \in Nat /\ a + q >= 1 /\ a + q <= l
          BY <1>4, <5>3, <5>4
        <5>. QED  BY <5>5 DEF a
      <4>2. u[at[i - 1] + q] = tape[at[i - 1] + q]
        <5>. DEFINE d == at[i - 1] + q
        <5>1. d \in Nat /\ d >= 1 /\ d <= l
          BY <4>1
        <5>. HIDE DEF d
        <5>2. d \in 1 .. l + Len(w)
          BY <1>2, <1>4, <5>1
        <5>3. u[d] = tape[d]
          BY <1>5, <5>1, <5>2
        <5>. QED  BY <5>3 DEF d
      <4>. QED  BY <1>6, <3>1, <4>2
    <3>. QED  BY <1>6, <3>1, <3>2, <3>4
  <2>. QED  BY <2>1, <2>2
<1>10. LaidAt(new, u, t, k)
  BY <1>1, <1>5, <1>7, <1>9 DEF LaidAt
<1>. QED  BY <1>5, <1>10 DEF Laid, u, t, w

LEMMA LaidFirst ==
    ASSUME NEW S, NEW s \in Seq(S), Good(s),
           NEW k \in 0 .. Len(s) - 1, NEW tape, Laid(tape, s, k)
    PROVE  \E rest : tape = Whole(s[k + 1]) \o rest /\ Laid(rest, s, k + 1)
<1>. DEFINE n == Len(s)
            w == Whole(s[k + 1])
            v == Len(w)
            l == Len(tape)
<1>1. n \in Nat /\ k \in Nat /\ k < n /\ k + 1 \in k + 1 .. n /\ k + 1 \in 1 .. n
  OBVIOUS
<1>2. w \in Seq(Pieces) /\ v \in Nat
  BY <1>1, WholeFacts DEF Good
<1>3. PICK at : LaidAt(at, tape, s, k)
  BY DEF Laid
<1>4. tape \in Seq(Pieces) /\ l \in Nat
  BY DEF Laid
<1>. HIDE DEF n, w, l, v
<1>5. /\ at \in [k .. n -> Nat] /\ at[k] = 0 /\ at[n] = l
      /\ \A i \in k + 1 .. n : /\ at[i] = at[i - 1] + Len(Whole(s[i]))
                               /\ \A j \in k .. i - 1 : at[j] < at[i]
                               /\ \A q \in 1 .. Len(Whole(s[i])) : tape[at[i - 1] + q] = Whole(s[i])[q]
  BY <1>3 DEF LaidAt, n, l
<1>6. at[k + 1] = v
  <2>. DEFINE i == k + 1
  <2>1. i \in k + 1 .. n /\ i - 1 = k
    BY <1>1
  <2>. HIDE DEF i
  <2>2. at[i] = at[i - 1] + Len(Whole(s[i]))
    BY <1>5, <2>1
  <2>3. Len(Whole(s[i])) = v
    BY DEF i, v, w
  <2>4. at[i] = at[k] + v
    BY <2>1, <2>2, <2>3
  <2>. QED  BY <1>2, <1>5, <2>4 DEF i
<1>7. ASSUME NEW i \in k + 1 .. n PROVE at[i] \in Nat /\ at[i] >= v
  <2>1. at[i] \in Nat /\ at[k + 1] \in Nat
    BY <1>1, <1>5
  <2>2. CASE i = k + 1
    BY <1>2, <1>6, <2>2
  <2>3. CASE i # k + 1
    <3>1. k + 1 \in k .. i - 1
      BY <1>1, <2>3
    <3>2. at[k + 1] < at[i]
      BY <1>5, <3>1
    <3>. QED  BY <1>6, <2>1, <3>2
  <2>. QED  BY <2>2, <2>3
<1>. DEFINE rest == SubSeq(tape, v + 1, l)
            new == [i \in k + 1 .. n |-> at[i] - v]
<1>8. v <= l
  <2>1. n \in k + 1 .. n
    BY <1>1
  <2>. QED  BY <1>5, <1>7, <2>1
<1>9. /\ rest \in Seq(Pieces) /\ Len(rest) = l - v
      /\ \A q \in 1 .. l - v : rest[q] = tape[v + q]
  BY <1>2, <1>4, <1>8 DEF l
<1>10. \A q \in 1 .. v : tape[q] = w[q]
  <2>1. \A q \in 1 .. v : tape[at[(k + 1) - 1] + q] = w[q]
    BY <1>1, <1>5 DEF v, w
  <2>2. (k + 1) - 1 = k /\ \A q \in 1 .. v : 0 + q = q
    BY <1>1, <1>2
  <2>. QED  BY <1>5, <2>1, <2>2
<1>11. tape = w \o rest
  <2>. HIDE DEF rest
  <2>1. /\ w \o rest \in Seq(Pieces) /\ Len(w \o rest) = v + (l - v)
        /\ \A q \in 1 .. v + (l - v) : (w \o rest)[q] = IF q <= v THEN w[q] ELSE rest[q - v]
    <3>1. /\ w \o rest \in Seq(Pieces) /\ Len(w \o rest) = Len(w) + Len(rest)
          /\ \A q \in 1 .. Len(w) + Len(rest) : (w \o rest)[q] = IF q <= Len(w) THEN w[q] ELSE rest[q - Len(w)]
      BY <1>2, <1>9, ConcatProperties
    <3>2. Len(w) = v
      BY DEF v
    <3>. QED  BY <1>9, <3>1, <3>2
  <2>2. v + (l - v) = l
    BY <1>2, <1>4
  <2>3. ASSUME NEW q \in 1 .. l PROVE tape[q] = (w \o rest)[q]
    <3>1. CASE q <= v
      BY <1>2, <1>10, <2>1, <2>2, <2>3, <3>1
    <3>2. CASE ~(q <= v)
      <4>1. q - v \in 1 .. l - v /\ v + (q - v) = q
        BY <1>2, <1>4, <2>3, <3>2
      <4>. QED  BY <1>9, <2>1, <2>2, <3>2, <4>1
    <3>. QED  BY <3>1, <3>2
  <2>. HIDE DEF v
  <2>. QED  BY <1>4, <2>1, <2>2, <2>3, SeqEqual DEF l
<1>. HIDE DEF rest
<1>12. /\ new \in [k + 1 .. n -> Nat] /\ new[k + 1] = 0 /\ new[n] = l - v
       /\ \A i \in k + 1 .. n : new[i] = at[i] - v
  <2>1. \A i \in k + 1 .. n : at[i] - v \in Nat
    BY <1>2, <1>7
  <2>2. n \in k + 1 .. n
    BY <1>1
  <2>3. \A i \in k + 1 .. n : new[i] = at[i] - v
    OBVIOUS
  <2>4. new \in [k + 1 .. n -> Nat]
    BY <2>1
  <2>. HIDE DEF new
  <2>5. new[k + 1] = v - v /\ new[n] = l - v
    BY <1>1, <1>5, <1>6, <2>2, <2>3
  <2>. QED  BY <1>2, <2>3, <2>4, <2>5
<1>. HIDE DEF new
<1>13. ASSUME NEW i \in k + 1 + 1 .. n
       PROVE  /\ new[i] = new[i - 1] + Len(Whole(s[i]))
              /\ \A j \in k + 1 .. i - 1 : new[j] < new[i]
              /\ \A q \in 1 .. Len(Whole(s[i])) : rest[new[i - 1] + q] = Whole(s[i])[q]
  <2>1. i \in k + 1 .. n /\ i - 1 \in k + 1 .. n /\ i \in 1 .. n /\ \A j \in k + 1 .. i - 1 : j \in k + 1 .. n /\ j \in k .. i - 1
    BY <1>1
  <2>. DEFINE x == Len(Whole(s[i]))
  <2>2. x \in Nat
    <3>1. Keeps(s[i])
      BY <2>1 DEF Good, n
    <3>. QED  BY <3>1, WholeFacts
  <2>3. /\ at[i] = at[i - 1] + x
        /\ \A j \in k .. i - 1 : at[j] < at[i]
        /\ \A q \in 1 .. x : tape[at[i - 1] + q] = Whole(s[i])[q]
    BY <1>5, <2>1
  <2>. HIDE DEF x
  <2>4. new[i] = at[i] - v /\ new[i - 1] = at[i - 1] - v /\ at[i] \in Nat /\ at[i - 1] \in Nat /\ at[i - 1] >= v
    BY <1>7, <1>12, <2>1
  <2>5. new[i] = new[i - 1] + x
    BY <1>2, <2>2, <2>3, <2>4
  <2>6. ASSUME NEW j \in k + 1 .. i - 1 PROVE new[j] < new[i]
    <3>1. new[j] = at[j] - v /\ at[j] \in Nat /\ at[j] < at[i]
      BY <1>7, <1>12, <2>1, <2>3
    <3>. QED  BY <1>2, <2>4, <3>1
  <2>7. ASSUME NEW q \in 1 .. x PROVE rest[new[i - 1] + q] = Whole(s[i])[q]
    <3>1. at[i] <= l
      <4>1. CASE i = n
        BY <1>4, <1>5, <4>1
      <4>2. CASE i # n
        <5>1. n \in k + 1 .. n /\ i \in k .. n - 1
          BY <1>1, <2>1, <4>2
        <5>2. at[i] < at[n]
          BY <1>5, <5>1
        <5>. QED  BY <1>4, <1>5, <2>4, <5>2
      <4>. QED  BY <4>1, <4>2
    <3>2. new[i - 1] + q \in 1 .. l - v /\ v + (new[i - 1] + q) = at[i - 1] + q
      <4>1. v \in Nat /\ l \in Nat /\ q \in Nat /\ 1 <= q /\ q <= x
        BY <1>2, <1>4, <2>2
      <4>. DEFINE a == at[i - 1]
                  b == new[i - 1]
      <4>2. a \in Nat /\ a >= v /\ b = a - v /\ a + x <= l
        BY <2>3, <2>4, <3>1
      <4>. HIDE DEF a, b
      <4>3. b + q \in 1 .. l - v /\ v + (b + q) = a + q
        BY <2>2, <4>1, <4>2
      <4>. QED  BY <4>3 DEF a, b
    <3>. QED  BY <1>9, <2>3, <3>2
  <2>. QED  BY <2>5, <2>6, <2>7 DEF x
<1>14. LaidAt(new, rest, s, k + 1)
  BY <1>9, <1>12, <1>13 DEF LaidAt, n
<1>. QED  BY <1>9, <1>11, <1>14 DEF Laid, w

\* Two frames or more are at least as long as the first and the last.
LEMMA LaidLength ==
    ASSUME NEW S, NEW s \in Seq(S), Good(s),
           NEW k \in 0 .. Len(s) - 2, NEW tape, Laid(tape, s, k)
    PROVE  Len(tape) >= Len(Whole(s[k + 1])) + Len(Whole(s[Len(s)]))
<1>. DEFINE n == Len(s)
            v == Len(Whole(s[k + 1]))
            w == Len(Whole(s[n]))
<1>1. n \in Nat /\ k \in Nat /\ k + 1 \in k + 1 .. n /\ n \in k + 1 .. n /\ n - 1 \in k + 1 .. n /\ k + 1 \in k .. n - 1
      /\ (k + 1) - 1 = k /\ k + 1 \in 1 .. n /\ n \in 1 .. n
  OBVIOUS
<1>2. v \in Nat /\ w \in Nat
  BY <1>1, WholeFacts DEF Good
<1>3. PICK at : LaidAt(at, tape, s, k)
  BY DEF Laid
<1>4. tape \in Seq(Pieces) /\ Len(tape) \in Nat
  BY DEF Laid
<1>. HIDE DEF n
<1>. HIDE DEF v, w
<1>5. /\ at[k] = 0 /\ at[n] = Len(tape)
      /\ at[k + 1] = at[(k + 1) - 1] + v
      /\ at[n] = at[n - 1] + w
      /\ \A i \in k + 1 .. n : at[i] \in Nat
      /\ \A j \in k .. (n - 1) - 1 : at[j] < at[n - 1]
  <2>1. /\ at \in [k .. n -> Nat] /\ at[k] = 0 /\ at[n] = Len(tape)
        /\ \A i \in k + 1 .. n : /\ at[i] = at[i - 1] + Len(Whole(s[i]))
                                 /\ \A j \in k .. i - 1 : at[j] < at[i]
    BY <1>3 DEF LaidAt, n
  <2>2. \A i \in k + 1 .. n : i \in k .. n
    BY <1>1
  <2>. QED  BY <1>1, <2>1, <2>2 DEF v, w
<1>6. at[k + 1] = v /\ at[n - 1] \in Nat
  BY <1>1, <1>2, <1>5
<1>7. at[n - 1] >= v
  <2>1. CASE k + 1 = n - 1
    BY <1>2, <1>6, <2>1
  <2>2. CASE k + 1 # n - 1
    <3>1. k + 1 \in k .. (n - 1) - 1
      BY <1>1, <2>2
    <3>. QED  BY <1>2, <1>5, <1>6, <3>1
  <2>. QED  BY <2>1, <2>2
<1>. QED  BY <1>2, <1>4, <1>5, <1>6, <1>7 DEF v, w, n

\* The last message laid out is its frame.
LEMMA LaidLast ==
    ASSUME NEW S, NEW s \in Seq(S), Good(s), s # << >>
    PROVE  Laid(Whole(s[Len(s)]), s, Len(s) - 1)
<1>. DEFINE n == Len(s)
            w == Whole(s[n])
            at == [i \in n - 1 .. n |-> IF i = n THEN Len(w) ELSE 0]
<1>1. n \in Nat /\ n # 0 /\ n \in 1 .. n /\ n - 1 \in n - 1 .. n /\ n \in n - 1 .. n /\ n - 1 # n
  OBVIOUS
<1>2. w \in Seq(Pieces) /\ Len(w) \in Nat /\ Len(w) >= 4
  BY <1>1, WholeFacts DEF Good
<1>. HIDE DEF n, w
<1>3. at \in [n - 1 .. n -> Nat] /\ at[n - 1] = 0 /\ at[n] = Len(w)
  BY <1>1, <1>2
<1>. HIDE DEF at
<1>4. ASSUME NEW i \in (n - 1) + 1 .. n
      PROVE  /\ at[i] = at[i - 1] + Len(Whole(s[i]))
             /\ \A j \in n - 1 .. i - 1 : at[j] < at[i]
             /\ \A q \in 1 .. Len(Whole(s[i])) : w[at[i - 1] + q] = Whole(s[i])[q]
  <2>1. i = n /\ n - 1 .. i - 1 = {n - 1}
    BY <1>1
  <2>2. at[i - 1] = 0 /\ \A q \in 1 .. Len(w) : 0 + q = q
    BY <1>2, <1>3, <2>1
  <2>. QED  BY <1>2, <1>3, <2>1, <2>2 DEF w
<1>5. LaidAt(at, w, s, n - 1)
  BY <1>1, <1>3, <1>4 DEF LaidAt, n
<1>. QED  BY <1>2, <1>5 DEF Laid, n, w

-----------------------------------------------------------------------------
(* The sender's side.                                                      *)

Sendable == \A m \in DOMAIN Frames : Keeps(m)

\* No message is changed on the way that is allowed to leave.
LEMMA MessagesAreSendable == Sendable
<1>1. ASSUME NEW m \in DOMAIN Frames PROVE Keeps(m)
  <2>1. m \in Messages /\ ~TooLong(m)
    BY DEF Frames
  <2>2. IsMessage(m)
    BY <2>1, WireAssumption
  <2>3. m.kind \in Kinds
    BY <2>2 DEF IsMessage
  <2>4. Decode(m.kind, Encode(m)) = m
    BY <2>1, <2>2, MessagesSurvive
  <2>5. Encode(m) \in Digits
    BY <2>1, <2>2, Survival
  <2>6. Encode(m) \in Seq(Nat)
    BY <2>5, BaseFacts DEF Digits
  <2>. QED  BY <2>3, <2>4, <2>6 DEF Keeps
<1>. QED  BY <1>1 DEF Sendable

(* The writes of a frame with the opening o and the payload p.             *)
Writes(o, p) ==
  << <<o[1]>>, <<o[2]>>, <<o[3]>>, <<o[4]>> >>
    \o IF p = << >> THEN << >> ELSE << <<Head(p)>>, Tail(p) >>

(* f is the sequence u, cut into pieces the way a frame is.                *)
Cuts(f, u, S) ==
  /\ f \in Seq(Seq(S)) /\ Len(f) \in 4 .. 6
  /\ Left(u, Len(f) + 1) = << >>
  /\ \A w \in 1 .. Len(f) : Left(u, w) = f[w] \o Left(u, w + 1)

LEMMA LeftFacts ==
    ASSUME NEW S, NEW u \in Seq(S)
    PROVE  /\ Left(u, 1) = u
           /\ \A w \in 1 .. 7 : Left(u, w) \in Seq(S)
           /\ \A w \in 1 .. 5 : w <= Len(u) => Left(u, w) = << u[w] >> \o Left(u, w + 1)
<1>1. Len(u) \in Nat
  OBVIOUS
<1>2. Left(u, 1) = u
  BY SubSeqFull DEF Left
<1>3. ASSUME NEW w \in 1 .. 7 PROVE Left(u, w) \in Seq(S)
  <2>1. w \in Int /\ Len(u) \in Int /\ \A i \in w .. Len(u) : u[i] \in S
    BY <1>1
  <2>2. SubSeq(u, w, Len(u)) \in Seq(S)
    BY <2>1, SubSeqProperties
  <2>3. << >> \in Seq(S)
    OBVIOUS
  <2>. QED  BY <2>2, <2>3 DEF Left
<1>4. ASSUME NEW w \in 1 .. 5, w <= Len(u) PROVE Left(u, w) = << u[w] >> \o Left(u, w + 1)
  <2>1. w \in 1 .. Len(u) /\ Len(u) \in w .. Len(u) /\ w # 7 /\ w + 1 # 7
    BY <1>1, <1>4
  <2>2. SubSeq(u, w, Len(u)) = << u[w] >> \o SubSeq(u, w + 1, Len(u))
    BY <2>1, SubSeqRecursiveFirst
  <2>. QED  BY <2>1, <2>2 DEF Left
<1>. QED  BY <1>2, <1>3, <1>4

LEMMA WritesJoin ==
    ASSUME NEW S, NEW o \in Seq(S), Len(o) = 4, NEW p \in Seq(S)
    PROVE  Cuts(Writes(o, p), o \o p, S)
<1>. DEFINE f == Writes(o, p)
            u == o \o p
<1>1. /\ Len(p) \in Nat
      /\ u \in Seq(S) /\ Len(u) = 4 + Len(p)
      /\ \A i \in 1 .. Len(o) + Len(p) : u[i] = IF i <= Len(o) THEN o[i] ELSE p[i - Len(o)]
  <2>1. /\ o \o p \in Seq(S) /\ Len(o \o p) = Len(o) + Len(p)
        /\ \A i \in 1 .. Len(o) + Len(p) : (o \o p)[i] = IF i <= Len(o) THEN o[i] ELSE p[i - Len(o)]
    BY ConcatProperties
  <2>. QED  BY <2>1
<1>. HIDE DEF f, u
<1>2. \A w \in 1 .. 4 : u[w] = o[w] /\ o[w] \in S /\ << o[w] >> \in Seq(S)
  <2>1. ASSUME NEW w \in 1 .. 4 PROVE u[w] = o[w] /\ o[w] \in S
    <3>1. w \in 1 .. Len(o) + Len(p) /\ w <= Len(o) /\ w \in 1 .. Len(o)
      BY <1>1
    <3>. QED  BY <1>1, <3>1
  <2>2. ASSUME NEW w \in 1 .. 4 PROVE << o[w] >> \in Seq(S)
    BY <2>1
  <2>. QED  BY <2>1, <2>2
<1>3. \A w \in 1 .. 5 : w <= Len(u) => Left(u, w) = << u[w] >> \o Left(u, w + 1)
  BY <1>1, LeftFacts
<1>4. ASSUME p = << >>
      PROVE  /\ f \in Seq(Seq(S)) /\ Len(f) \in 4 .. 6
             /\ Left(u, Len(f) + 1) = << >>
             /\ \A w \in 1 .. Len(f) : Left(u, w) = f[w] \o Left(u, w + 1)
  <2>1. f = << <<o[1]>>, <<o[2]>>, <<o[3]>>, <<o[4]>> >>
    <3>. DEFINE g == << <<o[1]>>, <<o[2]>>, <<o[3]>>, <<o[4]>> >>
    <3>1. g \in Seq(Seq(S))
      BY <1>2
    <3>2. f = g \o << >>
      BY <1>4 DEF Writes, f
    <3>. HIDE DEF g
    <3>3. g \o << >> = g
      BY <3>1, ConcatEmptySeq
    <3>. QED  BY <3>2, <3>3 DEF g
  <2>2. f \in Seq(Seq(S)) /\ Len(f) = 4 /\ \A w \in 1 .. 4 : f[w] = << o[w] >>
    BY <1>2, <2>1
  <2>3. Left(u, 5) = << >>
    <3>1. Len(u) = 4 /\ 5 \in Int /\ 4 < 5
      BY <1>1, <1>4
    <3>. QED  BY <3>1, SubSeqEmpty DEF Left
  <2>4. ASSUME NEW w \in 1 .. 4 PROVE Left(u, w) = f[w] \o Left(u, w + 1)
    <3>1. w \in 1 .. 5 /\ w <= Len(u)
      BY <1>1
    <3>. QED  BY <1>2, <1>3, <2>2, <3>1
  <2>5. Len(f) \in 4 .. 6 /\ Len(f) + 1 = 5 /\ 1 .. Len(f) = 1 .. 4
    BY <2>2
  <2>. QED  BY <2>2, <2>3, <2>4, <2>5
<1>5. ASSUME p # << >>
      PROVE  /\ f \in Seq(Seq(S)) /\ Len(f) \in 4 .. 6
             /\ Left(u, Len(f) + 1) = << >>
             /\ \A w \in 1 .. Len(f) : Left(u, w) = f[w] \o Left(u, w + 1)
  <2>1. Head(p) = p[1] /\ p[1] \in S /\ Tail(p) \in Seq(S) /\ Len(p) >= 1 /\ Tail(p) = SubSeq(p, 2, Len(p))
    BY <1>1, <1>5, HeadTailProperties, TailIsSubSeq
  <2>2. f = << <<o[1]>>, <<o[2]>>, <<o[3]>>, <<o[4]>>, <<p[1]>>, Tail(p) >>
    <3>1. f = << <<o[1]>>, <<o[2]>>, <<o[3]>>, <<o[4]>> >> \o << <<p[1]>>, Tail(p) >>
      BY <1>5, <2>1 DEF Writes, f
    <3>. DEFINE a == << <<o[1]>>, <<o[2]>>, <<o[3]>>, <<o[4]>> >>
                b == << <<p[1]>>, Tail(p) >>
                c == << <<o[1]>>, <<o[2]>>, <<o[3]>>, <<o[4]>>, <<p[1]>>, Tail(p) >>
    <3>2. << p[1] >> \in Seq(S)
      BY <2>1
    <3>3. /\ a \in Seq(Seq(S)) /\ Len(a) = 4 /\ b \in Seq(Seq(S)) /\ Len(b) = 2
          /\ c \in Seq(Seq(S)) /\ Len(c) = 6
          /\ \A i \in 1 .. 6 : c[i] = IF i <= 4 THEN a[i] ELSE b[i - 4]
      BY <1>2, <2>1, <3>2
    <3>. HIDE DEF a, b, c
    <3>4. /\ a \o b \in Seq(Seq(S)) /\ Len(a \o b) = 6
          /\ \A i \in 1 .. 6 : (a \o b)[i] = IF i <= 4 THEN a[i] ELSE b[i - 4]
      <4>0. Len(a) + Len(b) = 6
        BY <3>3
      <4>1. /\ a \o b \in Seq(Seq(S)) /\ Len(a \o b) = Len(a) + Len(b)
            /\ \A i \in 1 .. Len(a) + Len(b) : (a \o b)[i] = IF i <= Len(a) THEN a[i] ELSE b[i - Len(a)]
        BY <3>3, ConcatProperties
      <4>. QED  BY <3>3, <4>0, <4>1, Zenon
    <3>5. a \o b = c
      <4>1. Len(a \o b) = Len(c) /\ \A i \in 1 .. Len(a \o b) : (a \o b)[i] = c[i]
        BY <3>3, <3>4
      <4>. QED  BY <3>3, <3>4, <4>1, SeqEqual
    <3>. QED  BY <3>1, <3>5 DEF a, b, c
  <2>3. /\ f \in Seq(Seq(S)) /\ Len(f) = 6 /\ f[5] = << p[1] >> /\ f[6] = Tail(p)
        /\ \A w \in 1 .. 4 : f[w] = << o[w] >>
    <3>1. << p[1] >> \in Seq(S)
      BY <2>1
    <3>. QED  BY <1>2, <2>1, <2>2, <3>1
  <2>4. u[5] = p[1]
    <3>1. 5 \in 1 .. Len(o) + Len(p) /\ ~(5 <= Len(o)) /\ 5 - Len(o) = 1
      BY <1>1, <2>1
    <3>. QED  BY <1>1, <3>1
  <2>5. Left(u, 6) = Tail(p)
    <3>1. /\ SubSeq(p, 2, Len(p)) \in Seq(S) /\ Len(SubSeq(p, 2, Len(p))) = Len(p) - 1
          /\ \A i \in 1 .. Len(p) - 1 : SubSeq(p, 2, Len(p))[i] = p[i + 1]
      <4>1. /\ Tail(p) \in Seq(S) /\ Len(Tail(p)) = Len(p) - 1
            /\ \A i \in 1 .. Len(Tail(p)) : Tail(p)[i] = p[i + 1]
        BY <1>5, HeadTailProperties
      <4>. QED  BY <2>1, <4>1, Zenon
    <3>2. /\ SubSeq(u, 6, Len(u)) \in Seq(S) /\ Len(SubSeq(u, 6, Len(u))) = Len(p) - 1
          /\ \A i \in 1 .. Len(p) - 1 : SubSeq(u, 6, Len(u))[i] = u[5 + i]
      <4>1. 6 \in Int /\ Len(u) \in Int /\ \A i \in 6 .. Len(u) : u[i] \in S
        BY <1>1
      <4>2. /\ SubSeq(u, 6, Len(u)) \in Seq(S)
            /\ Len(SubSeq(u, 6, Len(u))) = IF 6 <= Len(u) THEN Len(u) - 6 + 1 ELSE 0
            /\ \A i \in 1 .. Len(u) - 6 + 1 : SubSeq(u, 6, Len(u))[i] = u[6 + i - 1]
        <5>. DEFINE n == Len(u)
        <5>. HIDE DEF n
        <5>1. /\ SubSeq(u, 6, n) \in Seq(S)
              /\ Len(SubSeq(u, 6, n)) = IF 6 <= n THEN n - 6 + 1 ELSE 0
              /\ \A i \in 1 .. n - 6 + 1 : SubSeq(u, 6, n)[i] = u[6 + i - 1]
          BY <4>1, SubSeqProperties DEF n
        <5>. QED  BY <5>1 DEF n
      <4>3. \A i \in 1 .. Len(p) - 1 : 6 + i - 1 = 5 + i /\ i \in 1 .. Len(u) - 6 + 1
        BY <1>1
      <4>4. (IF 6 <= Len(u) THEN Len(u) - 6 + 1 ELSE 0) = Len(p) - 1
        <5>. DEFINE n == Len(p)
                    l == Len(u)
        <5>1. n \in Nat /\ n >= 1 /\ l = 4 + n
          BY <1>1, <2>1
        <5>. HIDE DEF n, l
        <5>2. (IF 6 <= l THEN l - 6 + 1 ELSE 0) = n - 1
          BY <5>1
        <5>. QED  BY <5>2 DEF n, l
      <4>. QED  BY <4>2, <4>3, <4>4
    <3>3. \A i \in 1 .. Len(p) - 1 : u[5 + i] = p[i + 1]
      <4>1. \A i \in 1 .. Len(p) - 1 : 5 + i \in 1 .. Len(o) + Len(p) /\ ~(5 + i <= Len(o)) /\ 5 + i - Len(o) = i + 1
        BY <1>1
      <4>. QED  BY <1>1, <4>1
    <3>4. SubSeq(u, 6, Len(u)) = SubSeq(p, 2, Len(p))
      <4>. DEFINE a == SubSeq(u, 6, Len(u))
                  b == SubSeq(p, 2, Len(p))
      <4>1. a \in Seq(S) /\ b \in Seq(S) /\ Len(a) = Len(b) /\ \A i \in 1 .. Len(a) : a[i] = b[i]
        BY <3>1, <3>2, <3>3
      <4>. HIDE DEF a, b
      <4>2. a = b
        BY <4>1, SeqEqual
      <4>. QED  BY <4>2 DEF a, b
    <3>5. Left(u, 6) = SubSeq(u, 6, Len(u))
      BY DEF Left
    <3>. QED  BY <2>1, <3>4, <3>5, Zenon
  <2>6. ASSUME NEW w \in 1 .. 6 PROVE Left(u, w) = f[w] \o Left(u, w + 1)
    <3>1. CASE w = 6
      <4>1. Left(u, 6 + 1) = << >> /\ Tail(p) \o << >> = Tail(p)
        BY <2>1, ConcatEmptySeq DEF Left
      <4>. QED  BY <2>3, <2>5, <3>1, <4>1
    <3>2. CASE w # 6
      <4>1. w \in 1 .. 5 /\ w <= Len(u) /\ (w \in 1 .. 4 \/ w = 5)
        BY <1>1, <2>1, <3>2
      <4>2. f[w] = << u[w] >>
        BY <1>2, <2>3, <2>4, <4>1
      <4>. QED  BY <1>3, <4>1, <4>2
    <3>. QED  BY <3>1, <3>2
  <2>7. Len(f) \in 4 .. 6 /\ Len(f) + 1 = 7 /\ 1 .. Len(f) = 1 .. 6 /\ Left(u, 7) = << >>
    BY <2>3 DEF Left
  <2>. QED  BY <2>3, <2>6, <2>7
<1>6. /\ f \in Seq(Seq(S)) /\ Len(f) \in 4 .. 6
      /\ Left(u, Len(f) + 1) = << >>
      /\ \A w \in 1 .. Len(f) : Left(u, w) = f[w] \o Left(u, w + 1)
  BY <1>4, <1>5, Zenon
<1>. QED  BY <1>6 DEF f, u, Cuts

\* The writes of a frame are the frame.
LEMMA FrameIsWhole ==
    ASSUME NEW m \in DOMAIN Frames, Keeps(m)
    PROVE  /\ Frames[m] \in Seq(Seq(Pieces)) /\ Len(Frames[m]) \in 4 .. 6
           /\ Rest(m, 1) = Whole(m)
           /\ Rest(m, Len(Frames[m]) + 1) = << >>
           /\ \A w \in 1 .. 7 : Rest(m, w) \in Seq(Pieces)
           /\ \A w \in 1 .. Len(Frames[m]) : Rest(m, w) = Frames[m][w] \o Rest(m, w + 1)
<1>1. /\ Opening(m) \in Seq(Pieces) /\ Len(Opening(m)) = 4
      /\ Payload(m) \in Seq(Pieces) /\ Whole(m) \in Seq(Pieces) /\ Len(Payload(m)) = Len(Encode(m))
  BY WholeFacts
<1>2. Frames[m] = Writes(Opening(m), Payload(m))
  <2>1. Frames[m] = Frame(m)
    BY DEF Frames
  <2>2. Opening(m)[1] = Piece("magic", 0) /\ Opening(m)[2] = Piece("version", 0)
        /\ Opening(m)[3] = Piece("kind", NumberOf(m.kind)) /\ Opening(m)[4] = Piece("len", Len(Payload(m)))
    BY <1>1 DEF Opening
  <2>3. Payload(m) = [i \in DOMAIN Encode(m) |-> Piece("octet", Encode(m)[i])]
    BY DEF Payload
  <2>4. Frame(m) = << <<Piece("magic", 0)>>, <<Piece("version", 0)>>, <<Piece("kind", NumberOf(m.kind))>>,
                      <<Piece("len", Len(Payload(m)))>> >>
                    \o IF Payload(m) = << >> THEN << >> ELSE << <<Head(Payload(m))>>, Tail(Payload(m)) >>
    BY <2>3, Zenon DEF Frame
  <2>. QED  BY <2>1, <2>2, <2>4 DEF Writes
<1>3. Whole(m) = Opening(m) \o Payload(m)
  BY DEF Whole
<1>. DEFINE o == Opening(m)
            p == Payload(m)
            f == Frames[m]
            u == Whole(m)
<1>4. /\ f \in Seq(Seq(Pieces)) /\ Len(f) \in 4 .. 6
      /\ Left(u, Len(f) + 1) = << >>
      /\ \A w \in 1 .. Len(f) : Left(u, w) = f[w] \o Left(u, w + 1)
  <2>. HIDE DEF o, p
  <2>1. o \in Seq(Pieces) /\ Len(o) = 4 /\ p \in Seq(Pieces)
    BY <1>1 DEF o, p
  <2>2. f = Writes(o, p) /\ u = o \o p
    BY <1>2, <1>3 DEF o, p
  <2>. HIDE DEF f, u
  <2>3. Cuts(Writes(o, p), o \o p, Pieces)
    BY <2>1, WritesJoin
  <2>. QED  BY <2>2, <2>3, Zenon DEF Cuts
<1>5. Left(u, 1) = u /\ \A w \in 1 .. 7 : Left(u, w) \in Seq(Pieces)
  <2>. HIDE DEF u
  <2>. QED  BY <1>1, LeftFacts DEF u
<1>. QED  BY <1>4, <1>5 DEF Rest

-----------------------------------------------------------------------------
(* The reader's side.                                                      *)

(* The messages of r are messages of s up to the kth, in their order.      *)
PickedFrom(r, s, k) ==
  \E at \in [1 .. Len(r) -> 1 .. k] :
    \A i \in 1 .. Len(r) : r[i] = s[at[i]] /\ \A j \in 1 .. i - 1 : at[j] < at[i]

HeaderOf(m) == [kind |-> NumberOf(m.kind), len |-> Len(Encode(m))]

(* What a sender of s, whose last frame has the writes rest before it,     *)
(* still owes.                                                             *)
Owed(u, rest, s) ==
  \/ s = << >> /\ rest = << >> /\ u = << >>
  \/ /\ s # << >>
     /\ \E w \in 1 .. Len(Frames[s[Len(s)]]) + 1 :
          /\ rest = SubSeq(Frames[s[Len(s)]], w, Len(Frames[s[Len(s)]]))
          /\ u = Rest(s[Len(s)], w)

(* A reader that has the header h and pieces x ahead of it stands between  *)
(* two frames or in the payload of one, behind k messages.                 *)
Aligned(x, k, s, r, h, t) ==
  /\ k \in 0 .. Len(s) /\ PickedFrom(r, s, k) /\ (t < 2 => Len(r) = k)
  /\ \/ h = NoHeader /\ Laid(x, s, k)
     \/ /\ k < Len(s) /\ h = HeaderOf(s[k + 1])
        /\ Laid(Opening(s[k + 1]) \o x, s, k)

(* A reader that lost the head of a frame is about to read no header.      *)
Astray(x, s, r, h, t) ==
  /\ t >= 1 /\ h = NoHeader /\ s # << >> /\ PickedFrom(r, s, Len(s) - 1)
  /\ x # << >> /\ ~IsMagic(x[1])

LEMMA ConcatSplit ==
    ASSUME NEW S, NEW a \in Seq(S), NEW b \in Seq(S), NEW c \in Seq(S), NEW d \in Seq(S),
           Len(a) = Len(c), a \o b = c \o d
    PROVE  a = c /\ b = d
<1>1. a = c
  <2>1. \A i \in 1 .. Len(a) + Len(b) : (a \o b)[i] = IF i <= Len(a) THEN a[i] ELSE b[i - Len(a)]
    BY ConcatProperties
  <2>2. \A i \in 1 .. Len(c) + Len(d) : (c \o d)[i] = IF i <= Len(c) THEN c[i] ELSE d[i - Len(c)]
    BY ConcatProperties
  <2>3. ASSUME NEW i \in 1 .. Len(a) PROVE a[i] = c[i]
    <3>1. i \in 1 .. Len(a) + Len(b) /\ i \in 1 .. Len(c) + Len(d) /\ i <= Len(a) /\ i <= Len(c)
      OBVIOUS
    <3>. QED  BY <2>1, <2>2, <3>1
  <2>. QED  BY <2>3, SeqEqual
<1>2. a \o b = a \o d
  BY <1>1
<1>3. \A T : \A e, f, g \in Seq(T) : e \o f = e \o g => f = g
  BY ConcatSimplifications
<1>. QED  BY <1>1, <1>2, <1>3

LEMMA PickedKeeps ==
    ASSUME NEW S, NEW r \in Seq(S), NEW s, NEW z, NEW k \in Nat, NEW l \in Nat, k <= l,
           PickedFrom(r, s, k), \A i \in 1 .. k : z[i] = s[i]
    PROVE  PickedFrom(r, z, l)
<1>1. PICK at \in [1 .. Len(r) -> 1 .. k] :
        \A i \in 1 .. Len(r) : r[i] = s[at[i]] /\ \A j \in 1 .. i - 1 : at[j] < at[i]
  BY DEF PickedFrom
<1>2. \A i \in 1 .. Len(r) : at[i] \in 1 .. k /\ at[i] \in 1 .. l
  BY <1>1
<1>3. at \in [1 .. Len(r) -> 1 .. l]
  BY <1>1, <1>2
<1>4. \A i \in 1 .. Len(r) : r[i] = z[at[i]]
  BY <1>1, <1>2
<1>. QED  BY <1>1, <1>3, <1>4 DEF PickedFrom

LEMMA PickedMore ==
    ASSUME NEW S, NEW r \in Seq(S), NEW s, NEW k \in Nat, PickedFrom(r, s, k), NEW m \in S, m = s[k + 1]
    PROVE  PickedFrom(Append(r, m), s, k + 1)
<1>1. PICK at \in [1 .. Len(r) -> 1 .. k] :
        \A i \in 1 .. Len(r) : r[i] = s[at[i]] /\ \A j \in 1 .. i - 1 : at[j] < at[i]
  BY DEF PickedFrom
<1>. DEFINE n == Len(r)
            new == [i \in 1 .. n + 1 |-> IF i = n + 1 THEN k + 1 ELSE at[i]]
            z == Append(r, m)
<1>2. n \in Nat /\ z \in Seq(S) /\ Len(z) = n + 1 /\ z[n + 1] = m /\ \A i \in 1 .. n : z[i] = r[i]
  BY AppendProperties
<1>. HIDE DEF n, z
<1>3. \A i \in 1 .. n + 1 : i # n + 1 => i \in 1 .. n
  BY <1>2
<1>4. \A i \in 1 .. n : at[i] \in 1 .. k /\ at[i] \in 1 .. k + 1
  BY <1>1 DEF n
<1>5. /\ new \in [1 .. n + 1 -> 1 .. k + 1]
      /\ new[n + 1] = k + 1 /\ \A i \in 1 .. n : new[i] = at[i]
  BY <1>2, <1>3, <1>4
<1>. HIDE DEF new
<1>6. ASSUME NEW i \in 1 .. n + 1 PROVE z[i] = s[new[i]] /\ \A j \in 1 .. i - 1 : new[j] < new[i]
  <2>1. CASE i = n + 1
    <3>1. \A j \in 1 .. i - 1 : j \in 1 .. n
      BY <1>2, <2>1
    <3>2. \A j \in 1 .. i - 1 : new[j] \in 1 .. k
      BY <1>4, <1>5, <3>1
    <3>. QED  BY <1>2, <1>5, <2>1, <3>2
  <2>2. CASE i # n + 1
    <3>1. i \in 1 .. n /\ \A j \in 1 .. i - 1 : j \in 1 .. n
      BY <1>2, <2>2
    <3>2. r[i] = s[at[i]] /\ \A j \in 1 .. i - 1 : at[j] < at[i]
      BY <1>1, <3>1 DEF n
    <3>. QED  BY <1>2, <1>5, <3>1, <3>2
  <2>. QED  BY <2>1, <2>2
<1>. QED  BY <1>2, <1>5, <1>6 DEF PickedFrom, n, z

Associate(a, b, c) == (a \o b) \o c = a \o (b \o c)

LEMMA PiecesJoin ==
    ASSUME NEW a \in Seq(Pieces), NEW b \in Seq(Pieces), NEW c \in Seq(Pieces)
    PROVE  Associate(a, b, c)
BY ConcatAssociative DEF Associate

\* What o and p begin, cut behind o.

LEMMA OpeningSplit ==
    ASSUME NEW o \in Seq(Pieces), NEW p \in Seq(Pieces), NEW g \in Seq(Pieces),
           NEW y \in Seq(Pieces), NEW rest \in Seq(Pieces),
           Len(g) = Len(o), g \o y = (o \o p) \o rest
    PROVE  g = o
<1>. DEFINE z == p \o rest
<1>1. z \in Seq(Pieces)
  BY ConcatProperties
<1>2. Associate(o, p, rest)
  BY PiecesJoin
<1>3. g \o y = o \o z
  BY <1>2 DEF Associate
<1>. HIDE DEF z
<1>. QED  BY <1>1, <1>3, ConcatSplit

LEMMA ConcatFirst ==
    ASSUME NEW S, NEW x \in Seq(S), NEW y \in Seq(S), x # << >>
    PROVE  x \o y # << >> /\ (x \o y)[1] = x[1] /\ x \o y \in Seq(S)
<1>1. /\ x \o y \in Seq(S) /\ Len(x \o y) = Len(x) + Len(y)
      /\ \A i \in 1 .. Len(x) + Len(y) : (x \o y)[i] = IF i <= Len(x) THEN x[i] ELSE y[i - Len(x)]
  BY ConcatProperties
<1>2. Len(x) >= 1 /\ Len(x) \in Nat /\ Len(y) \in Nat
  OBVIOUS
<1>3. Len(x \o y) # 0 /\ 1 \in 1 .. Len(x) + Len(y) /\ 1 <= Len(x)
  BY <1>1, <1>2
<1>4. x \o y # << >>
  BY <1>3
<1>. QED  BY <1>1, <1>3, <1>4

LEMMA HeaderFacts ==
    ASSUME NEW m, Keeps(m)
    PROVE  HeaderOf(m) \in [kind : Nat, len : Nat] /\ HeaderOf(m) # NoHeader
<1>1. NumberOf(m.kind) \in Nat \ {0} /\ Len(Encode(m)) \in Nat
  BY KindFacts DEF Keeps
<1>2. HeaderOf(m).kind # NoHeader.kind
  BY <1>1 DEF HeaderOf, NoHeader
<1>. QED  BY <1>1, <1>2 DEF HeaderOf

\* Another frame begun leaves the reader where it is.
LEMMA AlignedSends ==
    ASSUME NEW S, NEW s \in Seq(S), Good(s), NEW m \in S, Keeps(m), NEW r \in Seq(S),
           NEW k, NEW h, NEW t, NEW x \in Seq(Pieces), Aligned(x, k, s, r, h, t)
    PROVE  Aligned(x \o Whole(m), k, Append(s, m), r, h, t)
<1>. DEFINE z == Append(s, m)
            w == Whole(m)
            n == Len(s)
<1>1. /\ n \in Nat /\ z \in Seq(S) /\ Len(z) = n + 1 /\ \A i \in 1 .. n : z[i] = s[i]
  BY AppendProperties
<1>2. w \in Seq(Pieces)
  BY WholeFacts
<1>3. k \in 0 .. n /\ k \in Nat /\ k <= n /\ PickedFrom(r, s, k) /\ (t < 2 => Len(r) = k)
  BY <1>1 DEF Aligned
<1>4. k \in 0 .. Len(z) /\ \A i \in 1 .. k : z[i] = s[i]
  BY <1>1, <1>3
<1>5. PickedFrom(r, z, k)
  <2>. HIDE DEF z
  <2>. QED  BY <1>3, <1>4, PickedKeeps
<1>6. CASE h = NoHeader /\ Laid(x, s, k)
  <2>1. Laid(x \o w, z, k)
    BY <1>3, <1>6, LaidMore
  <2>. HIDE DEF z, w
  <2>2. Aligned(x \o w, k, z, r, h, t)
    BY <1>3, <1>4, <1>5, <1>6, <2>1 DEF Aligned
  <2>. QED  BY <2>2 DEF z, w
<1>7. CASE k < n /\ h = HeaderOf(s[k + 1]) /\ Laid(Opening(s[k + 1]) \o x, s, k)
  <2>. DEFINE o == Opening(s[k + 1])
  <2>1. k + 1 \in 1 .. n /\ k < Len(z) /\ z[k + 1] = s[k + 1]
    BY <1>1, <1>3, <1>7
  <2>2. o \in Seq(Pieces)
    BY <2>1, WholeFacts DEF Good
  <2>3. Laid((o \o x) \o w, z, k)
    BY <1>3, <1>7, LaidMore
  <2>. HIDE DEF o, w
  <2>4. (o \o x) \o w = o \o (x \o w)
    <3>1. o \in Seq(Pieces) /\ x \in Seq(Pieces) /\ w \in Seq(Pieces)
      BY <1>2, <2>2
    <3>2. Associate(o, x, w)
      BY <3>1, PiecesJoin
    <3>. QED  BY <3>2 DEF Associate
  <2>5. Laid(o \o (x \o w), z, k)
    BY <2>3, <2>4
  <2>6. o = Opening(z[k + 1]) /\ h = HeaderOf(z[k + 1])
    BY <1>7, <2>1 DEF o
  <2>. HIDE DEF z
  <2>7. Aligned(x \o w, k, z, r, h, t)
    BY <1>3, <1>4, <1>5, <2>1, <2>5, <2>6 DEF Aligned
  <2>. QED  BY <2>7 DEF z, w
<1>. QED  BY <1>6, <1>7 DEF Aligned

LEMMA AstraySends ==
    ASSUME NEW S, NEW s \in Seq(S), NEW m \in S, Keeps(m), NEW r \in Seq(S),
           NEW h, NEW t, NEW x \in Seq(Pieces), Astray(x, s, r, h, t)
    PROVE  Astray(x \o Whole(m), Append(s, m), r, h, t)
<1>. DEFINE z == Append(s, m)
            w == Whole(m)
            n == Len(s)
<1>1. t >= 1 /\ h = NoHeader /\ s # << >> /\ PickedFrom(r, s, n - 1) /\ x # << >> /\ ~IsMagic(x[1])
  BY DEF Astray
<1>2. /\ n \in Nat /\ n # 0 /\ z \in Seq(S) /\ Len(z) = n + 1 /\ \A i \in 1 .. n : z[i] = s[i]
  BY <1>1, AppendProperties
<1>3. w \in Seq(Pieces)
  BY WholeFacts
<1>. HIDE DEF z, w, n
<1>4. x \o w # << >> /\ (x \o w)[1] = x[1]
  BY <1>1, <1>3, ConcatFirst
<1>5. n - 1 \in Nat /\ n \in Nat /\ n - 1 <= n /\ Len(z) - 1 = n /\ z # << >> /\ \A i \in 1 .. n - 1 : z[i] = s[i]
  BY <1>2
<1>6. PickedFrom(r, z, n)
  BY <1>1, <1>5, PickedKeeps
<1>7. Astray(x \o w, z, r, h, t)
  BY <1>1, <1>4, <1>5, <1>6 DEF Astray
<1>. QED  BY <1>7 DEF z, w

\* Four pieces ahead of an aligned reader are the opening of the next frame.
LEMMA HeaderRead ==
    ASSUME NEW S, NEW s \in Seq(S), Good(s), NEW r, NEW k, NEW t,
           NEW g \in Seq(Pieces), NEW y \in Seq(Pieces), Len(g) = 4,
           Aligned(g \o y, k, s, r, NoHeader, t)
    PROVE  /\ k \in 0 .. Len(s) - 1 /\ g = Opening(s[k + 1])
           /\ Aligned(y, k, s, r, HeaderOf(s[k + 1]), t)
<1>. DEFINE n == Len(s)
<1>1. n \in Nat /\ k \in 0 .. n /\ PickedFrom(r, s, k) /\ (t < 2 => Len(r) = k)
  BY DEF Aligned
<1>2. Laid(g \o y, s, k)
  <2>1. CASE k < n /\ NoHeader = HeaderOf(s[k + 1])
    <3>1. Keeps(s[k + 1])
      BY <1>1, <2>1 DEF Good
    <3>. QED  BY <2>1, <3>1, HeaderFacts
  <2>. QED  BY <2>1 DEF Aligned
<1>3. g \o y # << >>
  <2>1. g # << >>
    OBVIOUS
  <2>. QED  BY <2>1, ConcatFirst
<1>4. k # n
  BY <1>2, <1>3, LaidNone
<1>5. k \in 0 .. n - 1 /\ k + 1 \in 1 .. n
  BY <1>1, <1>4
<1>6. Keeps(s[k + 1])
  BY <1>5 DEF Good
<1>. DEFINE o == Opening(s[k + 1])
            p == Payload(s[k + 1])
<1>7. o \in Seq(Pieces) /\ Len(o) = 4 /\ p \in Seq(Pieces) /\ Whole(s[k + 1]) = o \o p
  BY <1>6, WholeFacts DEF Whole
<1>8. PICK rest : g \o y = Whole(s[k + 1]) \o rest /\ Laid(rest, s, k + 1)
  BY <1>2, <1>5, LaidFirst
<1>9. rest \in Seq(Pieces)
  BY <1>8 DEF Laid
<1>. HIDE DEF o, p, n
<1>10. g \o y = (o \o p) \o rest
  BY <1>7, <1>8, Zenon
<1>11. g = o
  <2>1. /\ o \in Seq(Pieces) /\ p \in Seq(Pieces) /\ rest \in Seq(Pieces) /\ Len(g) = Len(o)
        /\ g \o y = (o \o p) \o rest
    BY <1>7, <1>9, <1>10
  <2>. QED  BY <2>1, OpeningSplit, Zenon
<1>12. Laid(o \o y, s, k)
  BY <1>2, <1>11
<1>13. Aligned(y, k, s, r, HeaderOf(s[k + 1]), t)
  BY <1>1, <1>5, <1>12 DEF Aligned, o, n
<1>. QED  BY <1>5, <1>11, <1>13 DEF o, n

\* As many pieces as the header says are the payload of the frame.
LEMMA PayloadRead ==
    ASSUME NEW S, NEW s \in Seq(S), Good(s), NEW r \in Seq(S), NEW k, NEW h, NEW t,
           NEW g \in Seq(Pieces), NEW y \in Seq(Pieces), h # NoHeader, Len(g) = h.len,
           Aligned(g \o y, k, s, r, h, t)
    PROVE  /\ k \in 0 .. Len(s) - 1 /\ h = HeaderOf(s[k + 1]) /\ g = Payload(s[k + 1])
           /\ Aligned(y, k + 1, s, Append(r, s[k + 1]), NoHeader, t)
<1>. DEFINE n == Len(s)
            m == s[k + 1]
            o == Opening(m)
            p == Payload(m)
<1>1. n \in Nat /\ k \in 0 .. n /\ PickedFrom(r, s, k) /\ (t < 2 => Len(r) = k)
  BY DEF Aligned
<1>2. k < n /\ h = HeaderOf(m) /\ Laid(o \o (g \o y), s, k)
  BY DEF Aligned
<1>3. k \in 0 .. n - 1 /\ k + 1 \in 1 .. n /\ k \in Nat /\ k + 1 \in 0 .. n
  BY <1>1, <1>2
<1>4. m \in S /\ Keeps(m)
  BY <1>3 DEF Good
<1>5. o \in Seq(Pieces) /\ Len(o) = 4 /\ p \in Seq(Pieces) /\ Whole(m) = o \o p /\ Len(p) = Len(Encode(m))
  BY <1>4, WholeFacts DEF Whole
<1>6. PICK rest : o \o (g \o y) = Whole(m) \o rest /\ Laid(rest, s, k + 1)
  BY <1>2, <1>3, LaidFirst
<1>7. rest \in Seq(Pieces)
  BY <1>6 DEF Laid
<1>8. Len(g) = Len(p)
  BY <1>2, <1>5 DEF HeaderOf
<1>. HIDE DEF o, p, n, m
<1>10. o \o (g \o y) = (o \o p) \o rest
  BY <1>5, <1>6, Zenon
<1>11. g = p /\ y = rest
  <2>1. /\ o \in Seq(Pieces) /\ p \in Seq(Pieces) /\ rest \in Seq(Pieces) /\ Len(g) = Len(p)
        /\ o \o (g \o y) = (o \o p) \o rest
    BY <1>5, <1>7, <1>8, <1>10
  <2>2. Associate(o, p, rest)
    BY <2>1, PiecesJoin
  <2>. DEFINE x == g \o y
              z == p \o rest
  <2>3. x \in Seq(Pieces) /\ z \in Seq(Pieces)
    BY <2>1, ConcatProperties
  <2>4. o \o x = o \o z
    BY <2>1, <2>2 DEF Associate
  <2>. HIDE DEF x, z
  <2>5. x = z
    BY <2>1, <2>3, <2>4, ConcatSplit
  <2>6. g \o y = p \o rest
    BY <2>5 DEF x, z
  <2>. QED  BY <2>1, <2>6, ConcatSplit
<1>12. PickedFrom(Append(r, m), s, k + 1)
  BY <1>1, <1>3, <1>4, PickedMore DEF m
<1>13. t < 2 => Len(Append(r, m)) = k + 1
  BY <1>1, <1>4, AppendProperties
<1>14. Aligned(y, k + 1, s, Append(r, m), NoHeader, t)
  BY <1>3, <1>6, <1>11, <1>12, <1>13 DEF Aligned, n
<1>. QED  BY <1>2, <1>3, <1>11, <1>14 DEF n, m, p

\* What is owed when a frame is begun.
LEMMA OwedBegins ==
    ASSUME NEW s \in Seq(DOMAIN Frames), NEW m \in DOMAIN Frames, Keeps(m)
    PROVE  Owed(Whole(m), Frames[m], Append(s, m))
<1>. DEFINE f == Frames[m]
            z == Append(s, m)
<1>1. f \in Seq(Seq(Pieces)) /\ Len(f) \in 4 .. 6 /\ Rest(m, 1) = Whole(m)
  BY FrameIsWhole
<1>2. z # << >> /\ z[Len(z)] = m
  BY AppendProperties
<1>3. SubSeq(f, 1, Len(f)) = f
  BY <1>1, SubSeqFull
<1>4. 1 \in 1 .. Len(f) + 1
  BY <1>1
<1>. HIDE DEF f, z
<1>5. Owed(Whole(m), f, z)
  BY <1>1, <1>2, <1>3, <1>4 DEF Owed, f
<1>. QED  BY <1>5 DEF f, z

\* What is owed when a piece is written.
LEMMA OwedWrites ==
    ASSUME NEW s \in Seq(DOMAIN Frames), Good(s), NEW u, NEW rest, Owed(u, rest, s), rest # << >>
    PROVE  \E v \in Seq(Pieces) : /\ Owed(v, Tail(rest), s) /\ u = Head(rest) \o v
                                 /\ Head(rest) \in Seq(Pieces)
<1>. DEFINE m == s[Len(s)]
            f == Frames[m]
            l == Len(f)
<1>1. s # << >> /\ m \in DOMAIN Frames /\ Keeps(m)
  BY DEF Owed, Good
<1>2. PICK w \in 1 .. l + 1 : rest = SubSeq(f, w, l) /\ u = Rest(m, w)
  BY <1>1 DEF Owed
<1>3. /\ f \in Seq(Seq(Pieces)) /\ l \in 4 .. 6
      /\ \A i \in 1 .. 7 : Rest(m, i) \in Seq(Pieces)
      /\ \A i \in 1 .. l : Rest(m, i) = f[i] \o Rest(m, i + 1)
  BY <1>1, FrameIsWhole
<1>. HIDE DEF m, f, l
<1>4. w \in 1 .. l /\ l \in w .. l
  <2>1. CASE w = l + 1
    <3>1. w \in Int /\ l \in Int /\ l < w
      BY <1>3, <2>1
    <3>2. SubSeq(f, w, l) = << >>
      BY <3>1, SubSeqEmpty
    <3>. QED  BY <1>2, <3>2
  <2>. QED  BY <1>3, <2>1
<1>5. Head(rest) = f[w] /\ Tail(rest) = SubSeq(f, w + 1, l)
  BY <1>2, <1>3, <1>4, HeadTailOfSubSeq DEF l
<1>6. w + 1 \in 1 .. l + 1 /\ w + 1 \in 1 .. 7 /\ f[w] \in Seq(Pieces)
  <2>1. l \in Nat /\ l <= 6 /\ w \in Nat /\ w <= l
    BY <1>3, <1>4
  <2>2. f[w] \in Seq(Pieces)
    <3>1. f \in Seq(Seq(Pieces)) /\ w \in 1 .. Len(f)
      BY <1>3, <1>4 DEF l
    <3>. QED  BY <3>1, ElementOfSeq, Zenon
  <2>. QED  BY <2>1, <2>2
<1>7. Owed(Rest(m, w + 1), Tail(rest), s)
  BY <1>1, <1>5, <1>6 DEF Owed, m, f, l
<1>8. Rest(m, w + 1) \in Seq(Pieces) /\ u = Head(rest) \o Rest(m, w + 1) /\ Head(rest) \in Seq(Pieces)
  BY <1>2, <1>3, <1>4, <1>5, <1>6
<1>. QED  BY <1>7, <1>8

\* Nothing, a whole frame, or what does not look like one.
LEMMA OwedFacts ==
    ASSUME NEW s \in Seq(DOMAIN Frames), Good(s), NEW u, NEW rest, Owed(u, rest, s)
    PROVE  /\ u \in Seq(Pieces) /\ rest \in Seq(Seq(Pieces))
           /\ rest = << >> => u = << >>
           /\ u # << >> => s # << >> /\ (u = Whole(s[Len(s)]) \/ (Free(s[Len(s)]) => ~IsMagic(u[1])))
<1>1. CASE s = << >>
  BY <1>1 DEF Owed
<1>2. CASE s # << >>
  <2>. DEFINE m == s[Len(s)]
              f == Frames[m]
              l == Len(f)
              c == Whole(m)
  <2>1. m \in DOMAIN Frames /\ Keeps(m)
    BY <1>2 DEF Good
  <2>2. PICK w \in 1 .. l + 1 : rest = SubSeq(f, w, l) /\ u = Rest(m, w)
    BY <1>2 DEF Owed
  <2>3. /\ f \in Seq(Seq(Pieces)) /\ l \in 4 .. 6
        /\ Rest(m, 1) = c /\ Rest(m, l + 1) = << >>
        /\ \A i \in 1 .. 7 : Rest(m, i) \in Seq(Pieces)
    BY <2>1, FrameIsWhole
  <2>4. /\ c \in Seq(Pieces) /\ Len(c) \in Nat /\ Len(c) >= 4
        /\ Free(m) => \A i \in 2 .. Len(c) : ~IsMagic(c[i])
    BY <2>1, WholeFacts
  <2>5. \A i \in 1 .. 5 : i <= Len(c) => Rest(m, i) = << c[i] >> \o Rest(m, i + 1)
    <3>. HIDE DEF c
    <3>1. \A i \in 1 .. 5 : i <= Len(c) => Left(c, i) = << c[i] >> \o Left(c, i + 1)
      BY <2>4, LeftFacts
    <3>. QED  BY <3>1 DEF Rest, c
  <2>. HIDE DEF m, f, l, c
  <2>6. w \in 1 .. 7 /\ u \in Seq(Pieces)
    <3>1. l \in Nat /\ l <= 6 /\ w \in Nat /\ 1 <= w /\ w <= l + 1
      BY <2>2, <2>3
    <3>2. w \in 1 .. 7
      BY <3>1
    <3>. QED  BY <2>2, <2>3, <3>2
  <2>7. rest \in Seq(Seq(Pieces)) /\ (rest = << >> => w = l + 1)
    <3>1. w \in Int /\ l \in Int /\ \A i \in w .. l : f[i] \in Seq(Pieces)
      <4>1. w \in Nat /\ 1 <= w /\ l \in Nat
        BY <2>2, <2>3
      <4>2. \A i \in 1 .. l : f[i] \in Seq(Pieces)
        <5>1. f \in Seq(Seq(Pieces))
          BY <2>3
        <5>. QED  BY <5>1 DEF l
      <4>3. \A i \in w .. l : i \in 1 .. l
        BY <4>1
      <4>. QED  BY <4>1, <4>2, <4>3
    <3>2. SubSeq(f, w, l) \in Seq(Seq(Pieces)) /\ Len(SubSeq(f, w, l)) = IF w <= l THEN l - w + 1 ELSE 0
      BY <3>1, SubSeqProperties
    <3>3. rest = << >> => Len(SubSeq(f, w, l)) = 0
      BY <2>2
    <3>4. w <= l => l - w + 1 # 0
      BY <3>1
    <3>5. w <= l \/ w = l + 1
      BY <2>2, <3>1
    <3>. QED  BY <2>2, <3>2, <3>3, <3>4, <3>5
  <2>8. ASSUME w # 1, u # << >>, Free(m) PROVE ~IsMagic(u[1])
    <3>1. CASE w \in 2 .. 5 /\ w <= Len(c)
      <4>1. u = << c[w] >> \o Rest(m, w + 1) /\ Rest(m, w + 1) \in Seq(Pieces) /\ c[w] \in Pieces
        <5>1. w \in 1 .. 5 /\ w \in 1 .. Len(c) /\ w + 1 \in 1 .. 7
          BY <2>4, <3>1
        <5>2. Rest(m, w) = << c[w] >> \o Rest(m, w + 1)
          BY <2>5, <3>1, <5>1
        <5>3. Rest(m, w + 1) \in Seq(Pieces)
          BY <2>3, <5>1
        <5>4. c[w] \in Pieces
          BY <2>4, <5>1
        <5>. QED  BY <2>2, <5>2, <5>3, <5>4
      <4>2. << c[w] >> \in Seq(Pieces) /\ << c[w] >> # << >> /\ << c[w] >>[1] = c[w]
        BY <4>1
      <4>3. u[1] = c[w]
        BY <4>1, <4>2, ConcatFirst
      <4>. QED  BY <2>4, <2>8, <3>1, <4>3
    <3>2. CASE w \in 2 .. 6 /\ ~(w \in 2 .. 5 /\ w <= Len(c))
      <4>1. u = SubSeq(c, w, Len(c))
        BY <2>2, <3>2 DEF Rest, Left, c
      <4>2. w \in Int /\ Len(c) \in Int /\ \A i \in w .. Len(c) : c[i] \in Pieces
        BY <2>4, <3>2
      <4>3. w <= Len(c)
        <5>1. Len(c) < w => u = << >>
          BY <4>1, <4>2, SubSeqEmpty
        <5>. QED  BY <2>8, <4>2, <5>1
      <4>4. \A i \in 1 .. Len(c) - w + 1 : SubSeq(c, w, Len(c))[i] = c[w + i - 1]
        BY <4>2, SubSeqProperties
      <4>5. 1 \in 1 .. Len(c) - w + 1 /\ w + 1 - 1 = w
        BY <4>2, <4>3
      <4>6. u[1] = c[w] /\ w \in 2 .. Len(c)
        BY <3>2, <4>1, <4>2, <4>3, <4>4, <4>5
      <4>. QED  BY <2>4, <2>8, <4>6
    <3>3. CASE w = 7
      BY <2>2, <2>8, <3>3 DEF Rest, Left
    <3>. QED  BY <2>6, <2>8, <3>1, <3>2, <3>3
  <2>9. w = 1 => u = c
    BY <2>2, <2>3
  <2>10. w = l + 1 => u = << >>
    BY <2>2, <2>3
  <2>. QED  BY <1>2, <2>6, <2>7, <2>8, <2>9, <2>10 DEF c, m
<1>. QED  BY <1>1, <1>2

\* An aligned reader that has nothing of the next frame but what it took,
\* and took less than it wants, stands behind every frame but the last or
\* behind the last too.
LEMMA AlignedEnds ==
    ASSUME NEW s \in Seq(DOMAIN Frames), Good(s), NEW r, NEW k, NEW h, NEW t,
           NEW g \in Seq(Pieces), NEW u \in Seq(Pieces), Aligned(g \o u, k, s, r, h, t),
           Len(g) < IF h = NoHeader THEN 4 ELSE h.len,
           u # << >> => Len(s) # 0
    PROVE  /\ u = << >> => k = Len(s) /\ g = << >> /\ h = NoHeader
           /\ u # << >> => k \in 0 .. Len(s) - 1
           /\ u # << >> /\ u = Whole(s[Len(s)]) => k = Len(s) - 1
<1>. DEFINE n == Len(s)
            x == g \o u
<1>1. n \in Nat /\ k \in 0 .. n
  BY DEF Aligned
<1>2. x \in Seq(Pieces) /\ Len(x) = Len(g) + Len(u) /\ Len(g) \in Nat /\ Len(u) \in Nat
  BY ConcatProperties
\* The frame it stands before is longer than what it has of it.
<1>3. ASSUME k # n
      PROVE  \E tape : /\ Laid(tape, s, k) /\ tape \in Seq(Pieces)
                       /\ Len(tape) < Len(Whole(s[k + 1])) + Len(u)
                       /\ Len(Whole(s[k + 1])) \in Nat
  <2>1. k + 1 \in 1 .. n
    BY <1>1, <1>3
  <2>2. Keeps(s[k + 1])
    BY <2>1 DEF Good
  <2>. DEFINE o == Opening(s[k + 1])
              v == Len(Encode(s[k + 1]))
              c == Len(Whole(s[k + 1]))
  <2>3. o \in Seq(Pieces) /\ Len(o) = 4 /\ v \in Nat /\ c = 4 + v
    BY <2>2, WholeFacts
  <2>4. CASE h = NoHeader /\ Laid(x, s, k)
    <3>1. Len(x) < c + Len(u)
      <4>. HIDE DEF x, c, v
      <4>. QED  BY <1>2, <2>3, <2>4
    <3>2. Laid(x, s, k) /\ x \in Seq(Pieces) /\ c \in Nat
      BY <1>2, <2>3, <2>4
    <3>. HIDE DEF x
    <3>. QED  BY <3>1, <3>2, Zenon DEF c
  <2>5. CASE k < n /\ h = HeaderOf(s[k + 1]) /\ Laid(o \o x, s, k)
    <3>1. h # NoHeader /\ h.len = v
      BY <2>2, <2>5, HeaderFacts DEF HeaderOf
    <3>2. o \o x \in Seq(Pieces) /\ Len(o \o x) = 4 + Len(x)
      <4>. HIDE DEF o, x
      <4>1. o \o x \in Seq(Pieces) /\ Len(o \o x) = Len(o) + Len(x)
        BY <1>2, <2>3, ConcatProperties
      <4>. QED  BY <2>3, <4>1
    <3>3. Len(o \o x) < c + Len(u)
      <4>. HIDE DEF o, x, c, v
      <4>. QED  BY <1>2, <2>3, <3>1, <3>2
    <3>4. Laid(o \o x, s, k) /\ c \in Nat
      BY <2>3, <2>5
    <3>. DEFINE y == o \o x
    <3>5. Laid(y, s, k) /\ y \in Seq(Pieces) /\ Len(y) < c + Len(u) /\ c \in Nat
      BY <3>2, <3>3, <3>4
    <3>. HIDE DEF y
    <3>. QED  BY <3>5, Zenon DEF c
  <2>. QED  BY <2>4, <2>5 DEF Aligned
<1>4. CASE k = n
  <2>1. h = NoHeader /\ Laid(x, s, n)
    BY <1>1, <1>4 DEF Aligned
  <2>2. x = << >>
    BY <2>1, LaidNone
  <2>3. g = << >> /\ u = << >>
    BY <2>2, ConcatEqualIffEmpty
  <2>. QED  BY <1>4, <2>1, <2>3
<1>5. CASE k # n
  <2>1. PICK tape : /\ Laid(tape, s, k) /\ tape \in Seq(Pieces)
                    /\ Len(tape) < Len(Whole(s[k + 1])) + Len(u)
                    /\ Len(Whole(s[k + 1])) \in Nat
    BY <1>3, <1>5
  <2>2. k \in 0 .. n - 1
    BY <1>1, <1>5
  <2>3. u # << >>
    <3>1. PICK rest : tape = Whole(s[k + 1]) \o rest /\ Laid(rest, s, k + 1)
      BY <2>1, <2>2, LaidFirst
    <3>2. rest \in Seq(Pieces) /\ Whole(s[k + 1]) \in Seq(Pieces)
      <4>1. k + 1 \in 1 .. n
        BY <1>1, <2>2
      <4>2. Keeps(s[k + 1])
        BY <4>1 DEF Good
      <4>. QED  BY <3>1, <4>2, WholeFacts DEF Laid
    <3>3. Len(tape) = Len(Whole(s[k + 1])) + Len(rest) /\ Len(rest) \in Nat
      BY <3>1, <3>2, ConcatProperties
    <3>. DEFINE a == Len(tape)
                b == Len(Whole(s[k + 1]))
                d == Len(rest)
                e == Len(u)
    <3>4. a < b + e /\ a = b + d /\ b \in Nat /\ d \in Nat /\ e \in Nat
      BY <1>2, <2>1, <3>3
    <3>. HIDE DEF a, b, d, e
    <3>5. e # 0
      BY <3>4
    <3>. QED  BY <3>5 DEF e
  <2>4. ASSUME u = Whole(s[n]) PROVE k = n - 1
    <3>1. SUFFICES ASSUME k # n - 1 PROVE FALSE
      OBVIOUS
    <3>2. k \in 0 .. Len(s) - 2
      BY <1>1, <2>2, <3>1
    <3>3. Len(tape) >= Len(Whole(s[k + 1])) + Len(Whole(s[Len(s)]))
      BY <2>1, <3>2, LaidLength
    <3>. DEFINE a == Len(tape)
                b == Len(Whole(s[k + 1]))
                e == Len(u)
    <3>4. a < b + e /\ a >= b + e /\ a \in Nat /\ b \in Nat /\ e \in Nat
      BY <1>2, <2>1, <2>4, <3>3
    <3>. HIDE DEF a, b, e
    <3>. QED  BY <3>4
  <2>. QED  BY <2>2, <2>3, <2>4
<1>. QED  BY <1>4, <1>5

\* A timeout, which finds the stream empty.
LEMMA TimesOut ==
    ASSUME NEW s \in Seq(DOMAIN Frames), Good(s), \A i \in DOMAIN s : Free(s[i]), NEW rest, NEW u, Owed(u, rest, s),
           NEW r \in Seq(DOMAIN Frames), NEW h, NEW t \in Nat, NEW g \in Seq(Pieces),
           Len(g) < IF h = NoHeader THEN 4 ELSE h.len,
           (\E k : Aligned(g \o u, k, s, r, h, t)) \/ Astray(g \o u, s, r, h, t)
    PROVE  (\E k : Aligned(u, k, s, r, NoHeader, t + 1)) \/ Astray(u, s, r, NoHeader, t + 1)
<1>. DEFINE n == Len(s)
<1>1. u \in Seq(Pieces) /\ (u # << >> => s # << >> /\ (u = Whole(s[n]) \/ ~IsMagic(u[1])))
  <2>1. s # << >> => n \in DOMAIN s
    OBVIOUS
  <2>. QED  BY <2>1, OwedFacts
<1>2. n \in Nat /\ t + 1 >= 1 /\ (s # << >> => n # 0)
  OBVIOUS
\* Where it stands afterwards.
<1>3. ASSUME u = << >>, PickedFrom(r, s, n), t + 1 < 2 => Len(r) = n
      PROVE  Aligned(u, n, s, r, NoHeader, t + 1)
  <2>1. Laid(u, s, n)
    BY <1>3, LaidNone
  <2>. QED  BY <1>2, <1>3, <2>1 DEF Aligned
<1>4. ASSUME s # << >>, u = Whole(s[n]), PickedFrom(r, s, n - 1), t + 1 < 2 => Len(r) = n - 1
      PROVE  Aligned(u, n - 1, s, r, NoHeader, t + 1)
  <2>1. Laid(u, s, n - 1)
    BY <1>4, LaidLast
  <2>2. n - 1 \in 0 .. n
    BY <1>2, <1>4
  <2>. QED  BY <1>4, <2>1, <2>2 DEF Aligned
<1>5. ASSUME u # << >>, s # << >>, ~IsMagic(u[1]), PickedFrom(r, s, n - 1)
      PROVE  Astray(u, s, r, NoHeader, t + 1)
  BY <1>2, <1>5 DEF Astray
<1>6. ASSUME NEW k, Aligned(g \o u, k, s, r, h, t)
      PROVE  (\E l : Aligned(u, l, s, r, NoHeader, t + 1)) \/ Astray(u, s, r, NoHeader, t + 1)
  <2>1. k \in 0 .. n /\ PickedFrom(r, s, k) /\ (t < 2 => Len(r) = k)
    BY <1>6 DEF Aligned
  <2>2. t + 1 < 2 => Len(r) = k
    BY <2>1
  <2>3. u # << >> => n # 0
    BY <1>1, <1>2
  <2>4. /\ u = << >> => k = n
        /\ u # << >> => k \in 0 .. n - 1
        /\ u # << >> /\ u = Whole(s[n]) => k = n - 1
    BY <1>1, <1>6, <2>3, AlignedEnds
  <2>5. CASE u = << >>
    BY <1>3, <2>1, <2>2, <2>4, <2>5
  <2>6. CASE u # << >> /\ u = Whole(s[n])
    BY <1>1, <1>4, <2>1, <2>2, <2>4, <2>6
  <2>7. CASE u # << >> /\ u # Whole(s[n])
    <3>1. k \in Nat /\ n - 1 \in Nat /\ k <= n - 1
      BY <1>2, <2>4, <2>7
    <3>2. PickedFrom(r, s, n - 1)
      BY <2>1, <3>1, PickedKeeps
    <3>. QED  BY <1>1, <1>5, <2>7, <3>2
  <2>. QED  BY <2>5, <2>6, <2>7
<1>7. CASE Astray(g \o u, s, r, h, t)
  <2>1. t >= 1 /\ s # << >> /\ PickedFrom(r, s, n - 1)
    BY <1>7 DEF Astray
  <2>2. ~(t + 1 < 2)
    BY <2>1
  <2>3. PickedFrom(r, s, n)
    <3>1. n - 1 \in Nat /\ n \in Nat /\ n - 1 <= n
      BY <1>2, <2>1
    <3>. HIDE DEF n
    <3>. QED  BY <2>1, <3>1, PickedKeeps
  <2>. QED  BY <1>1, <1>3, <1>4, <1>5, <2>1, <2>2, <2>3
<1>. QED  BY <1>6, <1>7

-----------------------------------------------------------------------------
(* The invariant of the connection.                                        *)

(* The reader can go on.                                                   *)
Ahead(x, s, r, h, t) == (\E k : Aligned(x, k, s, r, h, t)) \/ Astray(x, s, r, h, t)

WireTypes ==
  /\ sent \in Seq(DOMAIN Frames) /\ received \in Seq(DOMAIN Frames) /\ torn \in Nat
  /\ stream \in Seq(Pieces) /\ got \in Seq(Pieces)
  /\ header \in [kind : Nat, len : Nat] /\ Len(got) <= Wanted

InOrder ==
  /\ PickedFrom(received, sent, Len(sent))
  /\ torn < 2 => /\ Len(received) <= Len(sent)
                 /\ \A i \in 1 .. Len(received) : received[i] = sent[i]

ConnectionInv ==
  \E u : /\ Owed(u, unwritten, sent)
         /\ reader = "reading" => Ahead((got \o stream) \o u, sent, received, header, torn)

FailureInv ==
  reader # "reading" =>
    \/ torn > 0
    \/ /\ reader = "payload too large" /\ Len(received) < Len(sent)
       /\ sent[Len(received) + 1].kind = "Attach"

WireInv == WireTypes /\ InOrder /\ ConnectionInv /\ FailureInv

LEMMA WireStarts == WireInit => WireInv
<1>. SUFFICES ASSUME WireInit PROVE WireInv
  OBVIOUS
<1>1. /\ sent = << >> /\ unwritten = << >> /\ stream = << >> /\ got = << >> /\ header = NoHeader
      /\ received = << >> /\ reader = "reading" /\ torn = 0
  BY DEF WireInit
<1>2. Len(<< >>) = 0 /\ \A S : << >> \in Seq(S)
  OBVIOUS
<1>3. WireTypes
  BY <1>1, <1>2 DEF WireTypes, Wanted, NoHeader, HEADER_LEN
<1>4. PickedFrom(<< >>, << >>, 0)
  <2>1. [i \in 1 .. 0 |-> 1] \in [1 .. 0 -> 1 .. 0]
    OBVIOUS
  <2>. DEFINE at == [i \in 1 .. 0 |-> 1]
  <2>2. at \in [1 .. Len(<< >>) -> 1 .. 0]
    BY <1>2, <2>1
  <2>3. \A i \in 1 .. Len(<< >>) : FALSE
    BY <1>2
  <2>. HIDE DEF at
  <2>. QED  BY <2>2, <2>3, Zenon DEF PickedFrom
<1>5. InOrder
  BY <1>1, <1>2, <1>4 DEF InOrder
<1>6. Laid(<< >>, << >>, 0)
  <2>. DEFINE e == << >>
  <2>1. e \in Seq({}) /\ Len(e) = 0
    BY <1>2
  <2>. HIDE DEF e
  <2>2. Laid(<< >>, e, Len(e))
    BY <2>1, LaidNone
  <2>. QED  BY <2>1, <2>2 DEF e
<1>7. (<< >> \o << >>) \o << >> = << >>
  <2>1. << >> \in Seq({})
    BY <1>2
  <2>2. << >> \o << >> = << >>
    BY <2>1, ConcatEmptySeq
  <2>. QED  BY <2>2
<1>8. Aligned((got \o stream) \o << >>, 0, sent, received, header, torn)
  BY <1>1, <1>2, <1>4, <1>6, <1>7 DEF Aligned
<1>9. Owed(<< >>, unwritten, sent)
  BY <1>1 DEF Owed
<1>10. ConnectionInv
  BY <1>8, <1>9 DEF ConnectionInv, Ahead
<1>11. FailureInv
  BY <1>1 DEF FailureInv
<1>. QED  BY <1>3, <1>5, <1>10, <1>11 DEF WireInv

LEMMA SendKeeps ==
    ASSUME WireInv, NEW m \in Messages, Send(m)
    PROVE  WireInv'
<1>1. /\ unwritten = << >> /\ m \in DOMAIN Frames
      /\ sent' = Append(sent, m) /\ unwritten' = Frames[m]
      /\ UNCHANGED <<stream, got, header, received, reader, torn>>
  BY DEF Send
<1>2. /\ sent \in Seq(DOMAIN Frames) /\ received \in Seq(DOMAIN Frames) /\ torn \in Nat
      /\ stream \in Seq(Pieces) /\ got \in Seq(Pieces)
      /\ Good(sent) /\ Keeps(m)
  BY <1>1, MessagesAreSendable DEF WireInv, WireTypes, Sendable, Good
<1>. DEFINE n == Len(sent)
<1>3. /\ n \in Nat /\ Len(received) \in Nat
      /\ sent' \in Seq(DOMAIN Frames) /\ Len(sent') = n + 1 /\ sent'[n + 1] = m
      /\ \A i \in 1 .. n : sent'[i] = sent[i]
  BY <1>1, <1>2, AppendProperties
<1>4. WireTypes'
  BY <1>1, <1>3 DEF WireInv, WireTypes, Wanted
<1>. HIDE DEF n
<1>5. InOrder'
  <2>1. PickedFrom(received, sent', n + 1)
    <3>1. PickedFrom(received, sent, n) /\ n + 1 \in Nat /\ n <= n + 1
      BY <1>3 DEF WireInv, InOrder, n
    <3>. QED  BY <1>2, <1>3, <3>1, PickedKeeps
  <2>2. torn < 2 => Len(received) <= n /\ \A i \in 1 .. Len(received) : received[i] = sent[i]
    BY DEF WireInv, InOrder, n
  <2>3. torn < 2 => Len(received) <= n + 1 /\ \A i \in 1 .. Len(received) : received[i] = sent'[i]
    BY <1>3, <2>2
  <2>. QED  BY <1>1, <1>3, <2>1, <2>3 DEF InOrder
<1>6. ConnectionInv'
  <2>1. PICK u : /\ Owed(u, unwritten, sent)
                 /\ reader = "reading" => Ahead((got \o stream) \o u, sent, received, header, torn)
    BY DEF WireInv, ConnectionInv
  <2>2. u = << >>
    BY <1>1, <1>2, <2>1, OwedFacts
  <2>. DEFINE x == got \o stream
  <2>3. x \in Seq(Pieces)
    BY <1>2, ConcatProperties
  <2>4. x \o u = x
    BY <2>2, <2>3, ConcatEmptySeq
  <2>. HIDE DEF x
  <2>5. Owed(Whole(m), unwritten', sent')
    BY <1>1, <1>2, OwedBegins
  <2>6. ASSUME reader = "reading" PROVE Ahead(x \o Whole(m), sent', received, header, torn)
    <3>1. Ahead(x, sent, received, header, torn)
      BY <2>1, <2>4, <2>6 DEF x
    <3>2. ASSUME NEW k, Aligned(x, k, sent, received, header, torn)
          PROVE  Ahead(x \o Whole(m), sent', received, header, torn)
      <4>1. Aligned(x \o Whole(m), k, Append(sent, m), received, header, torn)
        BY <1>1, <1>2, <2>3, <3>2, AlignedSends
      <4>. QED  BY <1>1, <4>1 DEF Ahead
    <3>3. ASSUME Astray(x, sent, received, header, torn)
          PROVE  Ahead(x \o Whole(m), sent', received, header, torn)
      <4>1. Astray(x \o Whole(m), Append(sent, m), received, header, torn)
        BY <1>1, <1>2, <2>3, <3>3, AstraySends
      <4>. QED  BY <1>1, <4>1 DEF Ahead
    <3>. QED  BY <3>1, <3>2, <3>3 DEF Ahead
  <2>7. reader' = reader /\ received' = received /\ header' = header /\ torn' = torn /\ got' \o stream' = x
    BY <1>1 DEF x
  <2>. QED  BY <2>5, <2>6, <2>7 DEF ConnectionInv
<1>7. FailureInv'
  <2>1. ASSUME Len(received) < n PROVE sent'[Len(received) + 1] = sent[Len(received) + 1] /\ Len(received) < n + 1
    <3>1. Len(received) + 1 \in 1 .. n
      BY <1>3, <2>1
    <3>. QED  BY <1>3, <2>1, <3>1
  <2>. QED  BY <1>1, <1>3, <2>1 DEF WireInv, FailureInv, n
<1>. QED  BY <1>4, <1>5, <1>6, <1>7 DEF WireInv

LEMMA WriteKeeps ==
    ASSUME WireInv, WritePiece
    PROVE  WireInv'
<1>1. /\ unwritten # << >> /\ stream' = stream \o Head(unwritten) /\ unwritten' = Tail(unwritten)
      /\ UNCHANGED <<sent, got, header, received, reader, torn>>
  BY DEF WritePiece
<1>2. sent \in Seq(DOMAIN Frames) /\ Good(sent) /\ stream \in Seq(Pieces) /\ got \in Seq(Pieces)
  BY MessagesAreSendable DEF WireInv, WireTypes, Sendable, Good
<1>3. PICK u : /\ Owed(u, unwritten, sent)
               /\ reader = "reading" => Ahead((got \o stream) \o u, sent, received, header, torn)
  BY DEF WireInv, ConnectionInv
<1>4. PICK v \in Seq(Pieces) : /\ Owed(v, Tail(unwritten), sent) /\ u = Head(unwritten) \o v
                               /\ Head(unwritten) \in Seq(Pieces)
  BY <1>1, <1>2, <1>3, OwedWrites
<1>. DEFINE w == Head(unwritten)
<1>5. w \in Seq(Pieces) /\ u = w \o v
  BY <1>4
<1>. HIDE DEF w
<1>6. stream \o w \in Seq(Pieces) /\ got \o stream \in Seq(Pieces)
  BY <1>2, <1>5, ConcatProperties
<1>7. (got \o stream) \o u = (got \o (stream \o w)) \o v
  <2>1. (got \o stream) \o (w \o v) = ((got \o stream) \o w) \o v
    <3>1. Associate(got \o stream, w, v)
      BY <1>5, <1>6, PiecesJoin
    <3>. QED  BY <3>1 DEF Associate
  <2>2. (got \o stream) \o w = got \o (stream \o w)
    <3>1. Associate(got, stream, w)
      BY <1>2, <1>5, PiecesJoin
    <3>. QED  BY <3>1 DEF Associate
  <2>. QED  BY <1>5, <2>1, <2>2
<1>8. stream' = stream \o w
  BY <1>1 DEF w
<1>9. WireTypes'
  BY <1>1, <1>6, <1>8 DEF WireInv, WireTypes, Wanted
<1>10. InOrder' /\ FailureInv'
  BY <1>1 DEF WireInv, InOrder, FailureInv
<1>11. ConnectionInv'
  BY <1>1, <1>3, <1>4, <1>7, <1>8 DEF ConnectionInv
<1>. QED  BY <1>9, <1>10, <1>11 DEF WireInv

LEMMA TakeKeeps ==
    ASSUME WireInv, Take
    PROVE  WireInv'
<1>. DEFINE n == Lesser(Len(stream), Wanted - Len(got))
            a == SubSeq(stream, 1, n)
            b == SubSeq(stream, n + 1, Len(stream))
<1>1. /\ ~Complete /\ stream # << >>
      /\ got' = got \o a /\ stream' = b
      /\ UNCHANGED <<sent, unwritten, header, received, reader, torn>>
  BY DEF Take, After
<1>2. stream \in Seq(Pieces) /\ got \in Seq(Pieces) /\ Wanted \in Nat /\ Len(got) <= Wanted
  BY DEF WireInv, WireTypes, Wanted, HEADER_LEN
<1>3. n \in 1 .. Len(stream) /\ n <= Wanted - Len(got)
  <2>. DEFINE c == Wanted
              d == Len(got)
              e == Len(stream)
  <2>1. c \in Nat /\ d \in Nat /\ d <= c /\ e \in Nat /\ e # 0 /\ d # c
    BY <1>1, <1>2 DEF Complete
  <2>. HIDE DEF c, d, e
  <2>2. Lesser(e, c - d) \in 1 .. e /\ Lesser(e, c - d) <= c - d
    BY <2>1 DEF Lesser
  <2>. QED  BY <2>2 DEF c, d, e
<1>. HIDE DEF n
<1>4. a \in Seq(Pieces) /\ Len(a) = n /\ b \in Seq(Pieces) /\ a \o b = stream
  <2>1. 1 \in 1 .. Len(stream) + 1 /\ n \in 1 - 1 .. Len(stream) /\ Len(stream) \in n .. Len(stream)
    BY <1>3
  <2>2. a \o b = SubSeq(stream, 1, Len(stream))
    BY <1>2, <2>1, ConcatAdjacentSubSeq
  <2>3. SubSeq(stream, 1, Len(stream)) = stream
    BY <1>2, SubSeqFull
  <2>4. a \in Seq(Pieces) /\ Len(a) = n
    <3>1. 1 \in Int /\ n \in Int /\ 1 <= n /\ \A i \in 1 .. n : stream[i] \in Pieces
      BY <1>2, <1>3
    <3>2. a \in Seq(Pieces) /\ Len(a) = n - 1 + 1
      BY <3>1, SubSeqProperties
    <3>. QED  BY <3>1, <3>2
  <2>5. b \in Seq(Pieces)
    <3>1. n + 1 \in Int /\ Len(stream) \in Int /\ \A i \in n + 1 .. Len(stream) : stream[i] \in Pieces
      BY <1>2, <1>3
    <3>. QED  BY <3>1, SubSeqProperties
  <2>. QED  BY <2>2, <2>3, <2>4, <2>5
<1>. HIDE DEF a, b
<1>5. got \o a \in Seq(Pieces) /\ Len(got \o a) = Len(got) + n
  BY <1>2, <1>4, ConcatProperties
<1>6. (got \o a) \o b = got \o stream
  <2>1. Associate(got, a, b)
    BY <1>2, <1>4, PiecesJoin
  <2>. QED  BY <1>4, <2>1 DEF Associate
<1>7. Wanted' = Wanted
  BY <1>1 DEF Wanted
<1>8. WireTypes'
  <2>1. Len(got \o a) <= Wanted
    BY <1>2, <1>3, <1>5
  <2>2. Len(got') <= Wanted'
    BY <1>1, <1>7, <2>1
  <2>. QED  BY <1>1, <1>4, <1>5, <2>2 DEF WireInv, WireTypes
<1>9. InOrder' /\ FailureInv'
  BY <1>1 DEF WireInv, InOrder, FailureInv
<1>10. ConnectionInv'
  <2>1. got' \o stream' = got \o stream
    BY <1>1, <1>6
  <2>. QED  BY <1>1, <2>1 DEF WireInv, ConnectionInv
<1>. QED  BY <1>8, <1>9, <1>10 DEF WireInv

LEMMA ReadHeaderKeeps ==
    ASSUME WireInv, ReadHeader
    PROVE  WireInv'
<1>1. /\ reader = "reading" /\ Len(got) = 4 /\ header = NoHeader
      /\ UNCHANGED <<sent, unwritten, stream, received, torn>>
  BY DEF ReadHeader, Complete, Wanted, HEADER_LEN
<1>2. /\ sent \in Seq(DOMAIN Frames) /\ Good(sent) /\ received \in Seq(DOMAIN Frames)
      /\ stream \in Seq(Pieces) /\ got \in Seq(Pieces) /\ torn \in Nat
      /\ \A m \in DOMAIN Frames : ~TooLong(m)
  BY MessagesAreSendable DEF WireInv, WireTypes, Sendable, Good, Frames
<1>3. PICK u : Owed(u, unwritten, sent) /\ Ahead((got \o stream) \o u, sent, received, header, torn)
  BY <1>1 DEF WireInv, ConnectionInv
<1>4. u \in Seq(Pieces)
  BY <1>2, <1>3, OwedFacts
<1>5. stream \o u \in Seq(Pieces) /\ (got \o stream) \o u = got \o (stream \o u)
  <2>1. stream \o u \in Seq(Pieces)
    BY <1>2, <1>4, ConcatProperties
  <2>2. Associate(got, stream, u)
    BY <1>2, <1>4, PiecesJoin
  <2>. QED  BY <2>1, <2>2 DEF Associate
<1>6. InOrder'
  BY <1>1 DEF WireInv, InOrder
\* What is left of a frame whose head was lost does not begin with the magic.
<1>7. ASSUME Astray(got \o (stream \o u), sent, received, header, torn) PROVE WireInv'
  <2>1. torn >= 1 /\ ~IsMagic((got \o (stream \o u))[1])
    BY <1>7 DEF Astray
  <2>2. ~IsMagic(got[1])
    <3>1. got # << >>
      BY <1>1
    <3>2. (got \o (stream \o u))[1] = got[1]
      BY <1>2, <1>5, <3>1, ConcatFirst
    <3>. QED  BY <2>1, <3>2
  <2>3. HeaderError = "bad magic"
    BY <2>2 DEF HeaderError
  <2>4. reader' = "bad magic" /\ UNCHANGED <<got, header>>
    BY <2>3 DEF ReadHeader
  <2>5. WireTypes'
    BY <1>1, <2>4 DEF WireInv, WireTypes, Wanted
  <2>6. ConnectionInv'
    BY <1>1, <1>3, <2>4 DEF ConnectionInv
  <2>7. FailureInv'
    <3>1. torn >= 1 /\ torn \in Nat /\ torn' = torn
      BY <1>1, <1>2, <2>1
    <3>2. torn' > 0
      BY <3>1
    <3>. QED  BY <3>2 DEF FailureInv
  <2>. QED  BY <1>6, <2>5, <2>6, <2>7 DEF WireInv
<1>8. ASSUME NEW k, Aligned(got \o (stream \o u), k, sent, received, header, torn) PROVE WireInv'
  <2>. DEFINE m == sent[k + 1]
  <2>1. /\ k \in 0 .. Len(sent) - 1 /\ got = Opening(m)
        /\ Aligned(stream \o u, k, sent, received, HeaderOf(m), torn)
    BY <1>1, <1>2, <1>5, <1>8, HeaderRead
  <2>2. m \in DOMAIN Frames /\ Keeps(m)
    <3>1. k + 1 \in 1 .. Len(sent)
      BY <1>2, <2>1
    <3>. QED  BY <1>2, <3>1 DEF Good
  <2>. HIDE DEF m
  <2>3. /\ IsMagic(got[1]) /\ IsVersion(got[2])
        /\ NumberIn(got[3]) = NumberOf(m.kind) /\ NumberIn(got[4]) = Len(Encode(m))
    BY <2>1 DEF Opening, Piece, IsMagic, IsVersion, NumberIn
  <2>4. KindOf(NumberIn(got[3])) # "unknown"
    BY <2>2, <2>3, KindFacts DEF Keeps
  <2>5. CASE Len(Encode(m)) > MAX_PAYLOAD_LEN
    <3>1. m.kind = "Attach"
      BY <1>2, <2>2, <2>5 DEF TooLong
    <3>2. HeaderError = "payload too large"
      BY <2>3, <2>4, <2>5 DEF HeaderError
    <3>3. reader' = "payload too large" /\ UNCHANGED <<got, header>>
      BY <3>2 DEF ReadHeader
    <3>4. WireTypes'
      BY <1>1, <3>3 DEF WireInv, WireTypes, Wanted
    <3>5. FailureInv'
      <4>1. CASE torn > 0
        BY <1>1, <4>1 DEF FailureInv
      <4>2. CASE ~(torn > 0)
        <5>1. Len(received) = k
          BY <1>2, <1>8, <4>2 DEF Aligned
        <5>2. Len(received) < Len(sent)
          BY <1>2, <2>1, <5>1
        <5>. QED  BY <1>1, <3>1, <3>3, <5>1, <5>2 DEF FailureInv, m
      <4>. QED  BY <4>1, <4>2
    <3>6. ConnectionInv'
      BY <1>1, <1>3, <3>3 DEF ConnectionInv
    <3>. QED  BY <1>6, <3>4, <3>5, <3>6 DEF WireInv
  <2>6. CASE ~(Len(Encode(m)) > MAX_PAYLOAD_LEN)
    <3>1. HeaderError = "none"
      BY <2>3, <2>4, <2>6 DEF HeaderError
    <3>2. header' = HeaderOf(m) /\ got' = << >> /\ reader' = reader
      BY <2>3, <3>1 DEF ReadHeader, HeaderOf
    <3>3. HeaderOf(m) \in [kind : Nat, len : Nat] /\ HeaderOf(m) # NoHeader
      BY <2>2, HeaderFacts
    <3>4. WireTypes'
      <4>1. got' \in Seq(Pieces) /\ Len(got') = 0
        BY <3>2
      <4>2. Wanted' = HeaderOf(m).len /\ HeaderOf(m).len \in Nat
        BY <3>2, <3>3 DEF Wanted
      <4>3. Len(got') <= Wanted'
        BY <4>1, <4>2
      <4>. QED  BY <1>1, <3>2, <3>3, <4>1, <4>3 DEF WireInv, WireTypes
    <3>5. FailureInv'
      BY <1>1, <3>2 DEF FailureInv
    <3>6. ConnectionInv'
      <4>1. (got' \o stream') \o u = stream \o u
        <5>1. << >> \o stream = stream
          BY <1>2, ConcatEmptySeq
        <5>. QED  BY <1>1, <3>2, <5>1
      <4>2. Ahead(stream \o u, sent, received, HeaderOf(m), torn)
        BY <2>1 DEF Ahead
      <4>. QED  BY <1>1, <1>3, <3>2, <4>1, <4>2 DEF ConnectionInv
    <3>. QED  BY <1>6, <3>4, <3>5, <3>6 DEF WireInv
  <2>. QED  BY <2>5, <2>6
<1>. QED  BY <1>3, <1>5, <1>7, <1>8 DEF Ahead

LEMMA ReadPayloadKeeps ==
    ASSUME WireInv, ReadPayload
    PROVE  WireInv'
<1>1. /\ reader = "reading" /\ Len(got) = header.len /\ header # NoHeader
      /\ UNCHANGED <<sent, unwritten, stream, torn>>
  BY DEF ReadPayload, Complete, Wanted
<1>2. /\ sent \in Seq(DOMAIN Frames) /\ Good(sent) /\ received \in Seq(DOMAIN Frames)
      /\ stream \in Seq(Pieces) /\ got \in Seq(Pieces) /\ torn \in Nat
  BY MessagesAreSendable DEF WireInv, WireTypes, Sendable, Good
<1>3. PICK u : Owed(u, unwritten, sent) /\ Ahead((got \o stream) \o u, sent, received, header, torn)
  BY <1>1 DEF WireInv, ConnectionInv
<1>4. u \in Seq(Pieces)
  BY <1>2, <1>3, OwedFacts
<1>5. stream \o u \in Seq(Pieces) /\ (got \o stream) \o u = got \o (stream \o u)
  <2>1. stream \o u \in Seq(Pieces)
    BY <1>2, <1>4, ConcatProperties
  <2>2. Associate(got, stream, u)
    BY <1>2, <1>4, PiecesJoin
  <2>. QED  BY <2>1, <2>2 DEF Associate
<1>6. PICK k : Aligned(got \o (stream \o u), k, sent, received, header, torn)
  BY <1>1, <1>3, <1>5 DEF Ahead, Astray
<1>. DEFINE m == sent[k + 1]
            n == Len(sent)
<1>7. /\ k \in 0 .. n - 1 /\ header = HeaderOf(m) /\ got = Payload(m)
      /\ Aligned(stream \o u, k + 1, sent, Append(received, m), NoHeader, torn)
  BY <1>1, <1>2, <1>5, <1>6, PayloadRead
<1>8. n \in Nat /\ k \in Nat /\ k + 1 \in 1 .. n /\ k + 1 \in Nat /\ k + 1 <= n
  BY <1>2, <1>7
<1>9. m \in DOMAIN Frames /\ Keeps(m)
  BY <1>2, <1>8 DEF Good
<1>. HIDE DEF m, n
\* The message decoded is the message encoded.
<1>10. Decode(KindOf(header.kind), [i \in DOMAIN got |-> got[i].n]) = m
  <2>1. KindOf(header.kind) = m.kind
    BY <1>7, <1>9, KindFacts DEF Keeps, HeaderOf
  <2>2. [i \in DOMAIN got |-> got[i].n] = Encode(m)
    <3>1. DOMAIN got = DOMAIN Encode(m) /\ \A i \in DOMAIN Encode(m) : got[i].n = Encode(m)[i]
      BY <1>7 DEF Payload, Piece
    <3>2. Encode(m) = [i \in DOMAIN Encode(m) |-> Encode(m)[i]]
      BY <1>9 DEF Keeps
    <3>. QED  BY <3>1, <3>2
  <2>. QED  BY <1>9, <2>1, <2>2 DEF Keeps
<1>11. m # Malformed
  BY <1>9, KindFacts DEF Keeps, Malformed, Message
<1>12. /\ received' = Append(received, m) /\ got' = << >> /\ header' = NoHeader
       /\ reader' = reader
  BY <1>10, <1>11 DEF ReadPayload
<1>. DEFINE r == Append(received, m)
<1>13. /\ r \in Seq(DOMAIN Frames) /\ Len(r) = Len(received) + 1 /\ Len(received) \in Nat
       /\ r[Len(received) + 1] = m /\ \A i \in 1 .. Len(received) : r[i] = received[i]
  BY <1>2, <1>9, AppendProperties
<1>. HIDE DEF r
<1>14. received' = r /\ Aligned(stream \o u, k + 1, sent, r, NoHeader, torn)
  BY <1>7, <1>12 DEF r
<1>15. WireTypes'
  <2>1. got' \in Seq(Pieces) /\ Len(got') = 0 /\ header' \in [kind : Nat, len : Nat] /\ header' = NoHeader
    BY <1>12 DEF NoHeader
  <2>2. Wanted' = 4
    BY <2>1 DEF Wanted, HEADER_LEN
  <2>3. Len(got') <= Wanted'
    BY <2>1, <2>2
  <2>. QED  BY <1>1, <1>2, <1>13, <1>14, <2>1, <2>3 DEF WireTypes
<1>16. InOrder'
  <2>1. PickedFrom(r, sent, n)
    <3>1. PickedFrom(r, sent, k + 1)
      BY <1>14 DEF Aligned
    <3>. QED  BY <1>8, <1>13, <3>1, PickedKeeps
  <2>2. ASSUME torn < 2 PROVE Len(r) <= n /\ \A i \in 1 .. Len(r) : r[i] = sent[i]
    <3>1. Len(received) = k
      BY <1>6, <2>2 DEF Aligned
    <3>2. \A i \in 1 .. Len(received) : received[i] = sent[i]
      BY <2>2 DEF WireInv, InOrder
    <3>3. r[k + 1] = sent[k + 1] /\ Len(r) = k + 1
      BY <1>13, <3>1 DEF m
    <3>4. \A i \in 1 .. k + 1 : i \in 1 .. k \/ i = k + 1
      BY <1>8
    <3>. QED  BY <1>8, <1>13, <3>1, <3>2, <3>3, <3>4
  <2>. QED  BY <1>1, <1>14, <2>1, <2>2 DEF InOrder, n
<1>17. ConnectionInv'
  <2>1. (got' \o stream') \o u = stream \o u
    <3>1. << >> \o stream = stream
      BY <1>2, ConcatEmptySeq
    <3>. QED  BY <1>1, <1>12, <3>1
  <2>2. Ahead(stream \o u, sent, r, NoHeader, torn)
    BY <1>14 DEF Ahead
  <2>. QED  BY <1>1, <1>3, <1>12, <1>14, <2>1, <2>2 DEF ConnectionInv
<1>18. FailureInv'
  BY <1>1, <1>12 DEF FailureInv
<1>. QED  BY <1>15, <1>16, <1>17, <1>18 DEF WireInv

LEMMA TimeoutKeeps ==
    ASSUME WireInv, ReadTimeout, \A i \in DOMAIN sent : Free(sent[i])
    PROVE  WireInv'
<1>1. /\ reader = "reading" /\ ~Complete /\ stream = << >>
      /\ torn' = torn + 1 /\ got' = << >> /\ header' = NoHeader
      /\ UNCHANGED <<sent, unwritten, stream, received, reader>>
  BY DEF ReadTimeout
<1>2. /\ sent \in Seq(DOMAIN Frames) /\ Good(sent) /\ received \in Seq(DOMAIN Frames)
      /\ got \in Seq(Pieces) /\ torn \in Nat /\ header \in [kind : Nat, len : Nat] /\ Len(got) <= Wanted
  BY MessagesAreSendable DEF WireInv, WireTypes, Sendable, Good
<1>3. PICK u : Owed(u, unwritten, sent) /\ Ahead((got \o stream) \o u, sent, received, header, torn)
  BY <1>1 DEF WireInv, ConnectionInv
<1>4. u \in Seq(Pieces)
  BY <1>2, <1>3, OwedFacts
<1>5. got \o stream = got
  BY <1>1, <1>2, ConcatEmptySeq
<1>6. Len(got) < IF header = NoHeader THEN 4 ELSE header.len
  <2>. DEFINE c == Wanted
              d == Len(got)
  <2>1. c \in Nat /\ d \in Nat /\ d <= c /\ d # c
    BY <1>1, <1>2 DEF Complete, Wanted, HEADER_LEN
  <2>2. c = IF header = NoHeader THEN 4 ELSE header.len
    BY DEF Wanted, HEADER_LEN
  <2>. HIDE DEF c, d
  <2>3. d < c
    BY <2>1
  <2>. QED  BY <2>2, <2>3 DEF d
<1>7. Ahead(u, sent, received, NoHeader, torn + 1)
  <2>1. (\E k : Aligned(got \o u, k, sent, received, header, torn)) \/ Astray(got \o u, sent, received, header, torn)
    BY <1>3, <1>5 DEF Ahead
  <2>2. (\E k : Aligned(u, k, sent, received, NoHeader, torn + 1)) \/ Astray(u, sent, received, NoHeader, torn + 1)
    BY <1>2, <1>3, <1>6, <2>1, TimesOut
  <2>. QED  BY <2>2 DEF Ahead
<1>8. (got' \o stream') \o u = u
  <2>1. << >> \o << >> = << >> /\ << >> \o u = u
    <3>1. << >> \in Seq(Pieces)
      OBVIOUS
    <3>. QED  BY <1>4, <3>1, ConcatEmptySeq
  <2>. QED  BY <1>1, <2>1
<1>9. ConnectionInv'
  BY <1>1, <1>3, <1>7, <1>8 DEF ConnectionInv
<1>10. WireTypes'
  <2>1. got' \in Seq(Pieces) /\ Len(got') = 0 /\ header' \in [kind : Nat, len : Nat] /\ header' = NoHeader
    BY <1>1 DEF NoHeader
  <2>2. Wanted' = 4
    BY <2>1 DEF Wanted, HEADER_LEN
  <2>3. Len(got') <= Wanted' /\ torn' \in Nat /\ stream' \in Seq(Pieces)
    BY <1>1, <1>2, <2>1, <2>2
  <2>. QED  BY <1>1, <1>2, <2>1, <2>3 DEF WireTypes
<1>11. InOrder'
  <2>1. torn + 1 < 2 => torn < 2
    BY <1>2
  <2>. QED  BY <1>1, <2>1 DEF WireInv, InOrder
<1>12. FailureInv'
  BY <1>1 DEF FailureInv
<1>. QED  BY <1>9, <1>10, <1>11, <1>12 DEF WireInv

(* The invariant holds as long as no payload can be taken for a frame.     *)
CountInv == torn \in Nat
ClearInv == CountInv /\ (Clear => WireInv)

LEMMA ClearAgain ==
    ASSUME ClearInv, WireNext, Clear'
    PROVE  Clear /\ (torn' # torn => \A i \in DOMAIN sent : Free(sent[i]))
<1>1. torn \in Nat /\ (torn' = torn \/ (torn' = torn + 1 /\ sent' = sent))
  BY DEF WireNext, Send, WritePiece, Take, ReadHeader, ReadPayload, ReadTimeout, ClearInv, CountInv
<1>2. \/ torn' = 0
      \/ \A i \in DOMAIN sent' : MagicFree[sent'[i]]
  BY DEF Clear
<1>3. CASE torn' = 0
  BY <1>1, <1>3 DEF Clear
<1>4. CASE torn' # 0 /\ torn = 0
  <2>1. sent' = sent /\ \A i \in DOMAIN sent : MagicFree[sent[i]]
    BY <1>1, <1>2, <1>4
  <2>2. Clear /\ WireInv
    BY <1>4 DEF Clear, ClearInv
  <2>3. ASSUME NEW i \in DOMAIN sent PROVE Free(sent[i])
    <3>1. sent[i] \in DOMAIN Frames
      BY <2>2, ElementOfSeq DEF WireInv, WireTypes
    <3>. QED  BY <2>1, <3>1 DEF MagicFree, Free
  <2>. QED  BY <2>2, <2>3
<1>5. CASE torn' # 0 /\ torn # 0
  <2>1. \A i \in DOMAIN sent : i \in DOMAIN sent' /\ sent'[i] = sent[i]
    <3>1. CASE sent' = sent
      BY <3>1
    <3>2. ASSUME NEW m \in Messages, Send(m) PROVE \A i \in DOMAIN sent : i \in DOMAIN sent' /\ sent'[i] = sent[i]
      BY <3>2 DEF Send
    <3>. QED  BY <3>1, <3>2 DEF WireNext, WritePiece, Take, ReadHeader, ReadPayload, ReadTimeout
  <2>2. \A i \in DOMAIN sent : MagicFree[sent[i]]
    BY <1>2, <1>5, <2>1
  <2>3. Clear /\ WireInv
    BY <2>2 DEF Clear, ClearInv
  <2>4. ASSUME NEW i \in DOMAIN sent PROVE Free(sent[i])
    <3>1. sent[i] \in DOMAIN Frames
      BY <2>3, ElementOfSeq DEF WireInv, WireTypes
    <3>. QED  BY <2>2, <3>1 DEF MagicFree, Free
  <2>. QED  BY <2>3, <2>4
<1>. QED  BY <1>3, <1>4, <1>5

LEMMA WireInvariant == WireSpec => []ClearInv
<1>1. WireInit => ClearInv
  BY WireStarts DEF WireInit, ClearInv, CountInv
<1>2. ASSUME ClearInv, [WireNext]_wireVars PROVE ClearInv'
  <2>1. CASE UNCHANGED wireVars
    BY <1>2, <2>1 DEF wireVars, ClearInv, CountInv, Clear, WireInv, WireTypes, InOrder,
                      ConnectionInv, FailureInv, Wanted
  <2>2. CASE WireNext
    <3>1. CountInv'
      <4>1. torn' = torn \/ torn' = torn + 1
        BY <2>2 DEF WireNext, Send, WritePiece, Take, ReadHeader, ReadPayload, ReadTimeout
      <4>. QED  BY <1>2, <4>1 DEF ClearInv, CountInv
    <3>2. ASSUME Clear' PROVE WireInv'
      <4>1. WireInv /\ (torn' # torn => \A i \in DOMAIN sent : Free(sent[i]))
        BY <1>2, <2>2, <3>2, ClearAgain DEF ClearInv
      <4>2. CASE ReadTimeout
        <5>1. torn' # torn
          BY <1>2, <4>2 DEF ReadTimeout, ClearInv, CountInv
        <5>. QED  BY <4>1, <4>2, <5>1, TimeoutKeeps
      <4>. QED  BY <2>2, <4>1, <4>2, SendKeeps, WriteKeeps, TakeKeeps, ReadHeaderKeeps,
                   ReadPayloadKeeps DEF WireNext
    <3>. QED  BY <3>1, <3>2 DEF ClearInv
  <2>. QED  BY <1>2, <2>1, <2>2
<1>. QED  BY <1>1, <1>2, PTL DEF WireSpec

-----------------------------------------------------------------------------
(* What follows from it.                                                   *)

(* For every set of messages: what arrives was sent, in its order, and     *)
(* after timeouts too if no payload sent holds the magic, when until a     *)
(* second timeout nothing is left out.                                     *)
THEOREM ArrivalsWereSent == WireSpec => []Faithful
<1>1. ASSUME WireInv, Clear PROVE Faithful
  <2>1. /\ sent \in Seq(DOMAIN Frames) /\ received \in Seq(DOMAIN Frames)
        /\ DOMAIN received = 1 .. Len(received) /\ DOMAIN sent = 1 .. Len(sent)
    BY <1>1 DEF WireInv, WireTypes
  <2>2. PICK at \in [1 .. Len(received) -> 1 .. Len(sent)] :
          \A i \in 1 .. Len(received) : /\ received[i] = sent[at[i]]
                                        /\ \A j \in 1 .. i - 1 : at[j] < at[i]
    BY <1>1 DEF WireInv, InOrder, PickedFrom
  <2>3. ASSUME torn < 2 PROVE IsPrefix(received, sent)
    <3>1. Len(received) <= Len(sent) /\ \A i \in 1 .. Len(received) : sent[i] = received[i]
      BY <1>1, <2>3 DEF WireInv, InOrder
    <3>2. << >> \in Seq(DOMAIN Frames)
      OBVIOUS
    <3>3. IsPrefix(received, sent \o << >>)
      BY <2>1, <3>1, <3>2, PrefixByPlaces
    <3>4. sent \o << >> = sent
      BY <2>1, ConcatEmptySeq
    <3>. QED  BY <3>3, <3>4
  <2>. QED  BY <2>1, <2>2, <2>3 DEF Faithful
<1>2. ClearInv => Faithful
  BY <1>1 DEF ClearInv, Faithful
<1>. QED  BY <1>2, WireInvariant, PTL

(* The reader gives up only over a torn frame, or over the one message     *)
(* whose length its sender does not check.                                 *)
THEOREM FailuresHaveTheirReason == WireSpec => []FailureExplained
<1>1. ASSUME ClearInv PROVE FailureExplained
  <2>1. CASE torn > 0
    BY <2>1 DEF FailureExplained
  <2>2. CASE ~(torn > 0)
    <3>1. torn = 0
      BY <1>1, <2>2 DEF ClearInv, CountInv
    <3>2. WireInv
      BY <1>1, <3>1 DEF ClearInv, Clear
    <3>. QED  BY <3>2 DEF WireInv, FailureInv, FailureExplained
  <2>. QED  BY <2>1, <2>2
<1>. QED  BY <1>1, WireInvariant, PTL

(* On a connection that no timeout tore, a reader that waits with nothing  *)
(* under way has returned every message sent, and no read is half done.    *)
THEOREM WaitingOwesNothing == WireSpec => []NothingOwed
<1>1. ASSUME WireInv, torn = 0, reader = "reading", unwritten = << >>, stream = << >>, ~Complete
      PROVE  received = sent /\ header = NoHeader /\ got = << >>
  <2>1. /\ sent \in Seq(DOMAIN Frames) /\ Good(sent) /\ received \in Seq(DOMAIN Frames)
        /\ got \in Seq(Pieces) /\ header \in [kind : Nat, len : Nat] /\ Len(got) <= Wanted
    BY <1>1, MessagesAreSendable DEF WireInv, WireTypes, Sendable, Good
  <2>2. PICK u : Owed(u, unwritten, sent) /\ Ahead((got \o stream) \o u, sent, received, header, torn)
    BY <1>1 DEF WireInv, ConnectionInv
  <2>3. u = << >> /\ u \in Seq(Pieces)
    BY <1>1, <2>1, <2>2, OwedFacts
  <2>4. got \o stream = got
    BY <1>1, <2>1, ConcatEmptySeq
  <2>5. PICK k : Aligned(got \o u, k, sent, received, header, torn)
    BY <1>1, <2>2, <2>4 DEF Ahead, Astray
  <2>6. Len(got) < IF header = NoHeader THEN 4 ELSE header.len
    <3>. DEFINE c == Wanted
                d == Len(got)
    <3>1. c \in Nat /\ d \in Nat /\ d <= c /\ d # c
      BY <1>1, <2>1 DEF Complete, Wanted, HEADER_LEN
    <3>2. c = IF header = NoHeader THEN 4 ELSE header.len
      BY DEF Wanted, HEADER_LEN
    <3>. HIDE DEF c, d
    <3>3. d < c
      BY <3>1
    <3>. QED  BY <3>2, <3>3 DEF d
  <2>7. k = Len(sent) /\ got = << >> /\ header = NoHeader
    <3>1. u # << >> => Len(sent) # 0
      BY <2>3
    <3>2. /\ u = << >> => k = Len(sent) /\ got = << >> /\ header = NoHeader
          /\ u # << >> => k \in 0 .. Len(sent) - 1
          /\ u # << >> /\ u = Whole(sent[Len(sent)]) => k = Len(sent) - 1
      <4>1. sent \in Seq(DOMAIN Frames) /\ got \in Seq(Pieces) /\ u \in Seq(Pieces)
        BY <2>1, <2>3
      <4>2. Good(sent)
        BY <2>1
      <4>. QED  BY <2>5, <2>6, <3>1, <4>1, <4>2, AlignedEnds
    <3>. QED  BY <2>3, <3>2
  <2>8. Len(received) = Len(sent)
    BY <1>1, <2>5, <2>7 DEF Aligned
  <2>9. \A i \in 1 .. Len(received) : received[i] = sent[i]
    BY <1>1 DEF WireInv, InOrder
  <2>10. received = sent
    BY <2>1, <2>8, <2>9, SeqEqual
  <2>. QED  BY <2>7, <2>10
<1>2. ClearInv => NothingOwed
  BY <1>1 DEF NothingOwed, ClearInv, Clear
<1>. QED  BY <1>2, WireInvariant, PTL
=============================================================================

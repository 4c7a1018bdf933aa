--------------------------- MODULE RequestsProofs ---------------------------
(***************************************************************************)
(* Theorems about module Requests: for any peers, passwords, users and     *)
(* scenarios, the handshake implements the promise of module Admission, an *)
(* attach without -x leaves nobody else inside, and what a command reports *)
(* as done is done.                                                        *)
(*                                                                         *)
(* The inductive invariant follows a peer from its connection to its end:  *)
(* until the daemon has read its greeting the peer has sent nothing else   *)
(* and has been answered nothing, so that whatever the daemon reads after  *)
(* it is the request of that peer, and the password in it the peer's own.  *)
(***************************************************************************)
EXTENDS Requests, BasicsProofs

Wants == {s.wants[p] : s \in Scenarios, p \in Peers}
Peer  == [wants : Wants, at : Stages, verdict : {"none", "ok", "failed"}]
Loop  == [at : {"accept", "hello", "command", "challenge", "ended", "failed"},
          peer : Peers \union {Nobody}]
Serving == {"hello", "command", "challenge"}

Replies == {"HelloAck", "PasswordChallenge", "PtyOutput", "BindingsUpdate", "Error", "Unexpected", "none",
            "WindowCreated", "WindowSelected", "WindowExited", "WindowTitle", "WindowInfo",
            "WindowList", "EmptyList", "ShutdownAck"}

Greeting(p) == [kind |-> IF peer[p].wants.form = "garbled" THEN "Garbled" ELSE "Hello"]
Said(p) == IF peer[p].wants.form = "attach"
           THEN {Attach(peer[p].wants, x) : x \in {Knows[p], NoPassword}} \union {Stray}
           ELSE {Request(peer[p].wants)}

\* The daemon has the socket and has not read the greeting.
Waits(p) == p \in Members(queue) \/ (loop.peer = p /\ loop.at = "hello")

LoopInv ==
  /\ loop \in Loop /\ (loop.peer \in Peers <=> loop.at \in Serving)
  /\ queue \in Seq(Peers) /\ loop.peer \notin Members(queue)
  /\ \A i, j \in DOMAIN queue : queue[i] = queue[j] => i = j

SessionInv == policy \in Policies /\ inside \in Seq(Peers) /\ SharedByConsent

TalkInv ==
  /\ peer \in [Peers -> Peer] /\ DOMAIN toDaemon = Peers /\ DOMAIN toPeer = Peers
  /\ \A p \in Peers : toDaemon[p] \in Seq({Greeting(p)} \union Said(p)) /\ toPeer[p] \in Seq(Replies)

\* Where a peer may be, by where the daemon is with it.
Placed(p) ==
  /\ peer[p].at = "idle" => ~Waits(p) /\ loop.peer # p /\ toPeer[p] = << >>
  /\ peer[p].at \in {"prompted", "inside"} => peer[p].wants.form = "attach"
  /\ peer[p].at \in {"idle", "connected"} =>
       /\ toDaemon[p] = << >> /\ p \notin Members(inside)
       /\ loop.peer = p => loop.at = "hello"
  /\ Waits(p) =>
       /\ peer[p].at \in {"connected", "greeted", "over"} /\ toPeer[p] = << >>
       /\ toDaemon[p] \in {<< >>, <<Greeting(p)>>}
       /\ toDaemon[p] # << >> => peer[p].wants.form \notin {"probe", "silent"}
  /\ Waits(p) \/ loop.peer = p =>
       peer[p].wants.form # "nothing" /\ Beforehand(peer[p].wants) = "asked"
  /\ loop.peer = p /\ loop.at \in {"command", "challenge"} =>
       peer[p].wants.form \in {"run", "query", "attach"} /\ toDaemon[p] \in Seq(Said(p))
  /\ loop.peer = p /\ loop.at = "challenge" => peer[p].wants.form = "attach"

\* What it is answered, and what it makes of that.
Asks(p) == peer[p].wants.form \in {"run", "query"}
Told(p) ==
  /\ peer[p].at = "asked" /\ Asks(p) =>
       \A k \in DOMAIN toPeer[p] : toPeer[p][k] = "Error" \/ p \in carriedOut
  /\ peer[p].verdict = "ok" /\ Asks(p) /\ Beforehand(peer[p].wants) = "asked"
       /\ peer[p].wants.verb \notin DOMAIN ControlVerbs => p \in carriedOut

IInv == LoopInv /\ SessionInv /\ TalkInv /\ \A p \in Peers : Placed(p) /\ Told(p)

-----------------------------------------------------------------------------
(* Commands and outcomes.                                                  *)

\* Of tables none of which sends an Attach, the union sends none.
LEMMA TableSends ==
  ASSUME NEW tables, \A t \in tables : \A v \in DOMAIN t : t[v] # "Attach"
  PROVE  \A v \in DOMAIN Table(tables) : Table(tables)[v] # "Attach"
<1>. SUFFICES ASSUME NEW t0 \in tables, NEW v \in DOMAIN t0
              PROVE  (CHOOSE t \in tables : v \in DOMAIN t)[v] # "Attach"
  BY DEF Table
<1>. QED  OBVIOUS

\* No command and no question sends an Attach.
LEMMA NeverAttach ==
  ASSUME NEW w, w.form \in {"run", "query"}, Beforehand(w) = "asked"
  PROVE  Sends(w) # "Attach"
<1>. DEFINE Plain(f) == \A x \in DOMAIN f : f[x] # "Attach"
<1>1. Plain(WindowVerbs) /\ Plain(DisplayVerbs) /\ Plain(WatchVerbs)
  BY DEF WindowVerbs, DisplayVerbs, WatchVerbs
<1>2. Plain(BufferVerbs) /\ Plain(FlowVerbs) /\ Plain(HistoryVerbs)
  BY DEF BufferVerbs, FlowVerbs, HistoryVerbs
<1>3. Plain(ConfigVerbs) /\ Plain(LineVerbs)
  BY DEF ConfigVerbs, LineVerbs
<1>4. Plain(CreateVerbs) /\ Plain(ListVerbs) /\ Plain(QuitVerbs)
  BY DEF CreateVerbs, ListVerbs, QuitVerbs
<1>5. Plain(MovingVerbs) /\ Plain(TypingVerbs) /\ Plain(ListQuestions) /\ Plain(InfoQuestions)
  BY DEF MovingVerbs, TypingVerbs, ListQuestions, InfoQuestions
<1>6. Plain(TellingVerbs)
  BY <1>1, <1>2, <1>3, TableSends DEF TellingVerbs
<1>7. Plain(AskingVerbs) /\ Plain(ControlVerbs) /\ Plain(Questions)
  BY <1>4, <1>5, TableSends DEF AskingVerbs, ControlVerbs, Questions
<1>8. Plain(Remote)
  BY <1>6, <1>7, TableSends DEF Remote
<1>9. w.verb \in (IF w.form = "query" THEN DOMAIN Questions ELSE DOMAIN Remote)
  BY DEF Beforehand
<1>. QED  BY <1>7, <1>8, <1>9 DEF Sends

\* No answer that counts as success is an error or the end of the stream.
LEMMA SuccessTells ==
  ASSUME NEW w, NEW answer, w.form \in {"run", "query"}, w.verb \notin DOMAIN ControlVerbs,
         Succeeds(w, answer)
  PROVE  answer \notin {"Error", "end"}
<1>1. "Error" \notin Wanted(w) /\ "end" \notin Wanted(w)
  BY DEF Wanted
<1>. QED  BY <1>1 DEF Succeeds

Ruled(m) ==
  /\ m.sets = "password" => m.value \in Passwords
  /\ m.sets = "acladd" => m.value \in Names \union {Anybody}

\* An outcome changes the rules or detaches, never both; an answer other than an
\* error comes with what was asked for.
Sound(o) ==
  /\ o.policy = policy \/ (o.policy \in Policies /\ ~o.detaches)
  /\ o.reply \in Replies /\ (o.reply \in {"none", "Error", "Unexpected"} \/ o.done)
  /\ o.loop \in {"accept", "ended", "failed"}

LEMMA OutcomesAreSound ==
  ASSUME NEW m, Ruled(m), policy \in Policies, NEW o \in Outcomes(m)
  PROVE  Sound(o)
<1>. DEFINE All(S) == \A x \in S : Sound(x)
<1>1. Sound(As) /\ Sound(Refusal) /\ Sound(Ignored)
  <2>1. As.policy = policy /\ As.reply = "none" /\ As.loop = "accept" /\ As.done
    BY DEF As
  <2>2. Refusal.policy = policy /\ Refusal.reply = "Error" /\ Refusal.loop = "accept"
    BY DEF As, Refusal
  <2>3. Ignored.policy = policy /\ Ignored.reply = "none" /\ Ignored.loop = "accept"
    BY DEF As, Ignored
  <2>. QED  BY <2>1, <2>2, <2>3 DEF Sound, Replies
<1>2. ASSUME NEW S, All(S) PROVE All(OrRefusal(S)) /\ All(OrIgnored(S))
  BY <1>1, <1>2 DEF OrRefusal, OrIgnored
<1>3. All(Creations) /\ All(Creating)
  <2>1. \A x \in Creations : /\ Sound(x) /\ Sound(Reply(x, "WindowCreated"))
    BY DEF Creations, Sound, Replies, As, Reply
  <2>. QED  BY <1>1, <2>1 DEF Creating
<1>4. \A n : All(Selecting(n)) /\ All(Killing(n)) /\ All(Titling(n)) /\ All(Renumbering(n))
  <2>. TAKE n
  <2>1. All({Reply([As EXCEPT !.selected = i], "WindowSelected") : i \in Live(n)})
    BY DEF Sound, Replies, As, Reply
  <2>2. All({Reply([As EXCEPT !.table = Killed(table, i)], "WindowExited") : i \in Bearing(n)})
    BY DEF Sound, Replies, As, Reply
  <2>3. All({Reply(As, "WindowTitle") : i \in Live(n)})
    BY DEF Sound, Replies, As, Reply
  <2>4. All({Reply([As EXCEPT !.table[i + 1].number = n], "WindowSelected")
             : i \in {j \in Current : n \notin Numbers(table)}})
    BY DEF Sound, Replies, As, Reply
  <2>. HIDE DEF All
  <2>. QED  BY <1>2, <2>1, <2>2, <2>3, <2>4 DEF Selecting, Killing, Titling, Renumbering
<1>5. \A i : All(Stepping(i))
  <2>. TAKE i
  <2>1. All({Reply([As EXCEPT !.selected = i], "WindowSelected")})
    BY DEF Sound, Replies, As, Reply
  <2>2. Stepping(i) \in {{Ignored}, {Reply([As EXCEPT !.selected = i], "WindowSelected")}}
    BY DEF Stepping
  <2>. QED  BY <1>1, <2>1, <2>2
<1>6. \A n : All(Removing(n))
  <2>. TAKE n
  <2>. DEFINE S == {[As EXCEPT !.table = Removed(i),
                        !.selected = IF selected >= Len(table) - 1 /\ Len(table) > 1
                                     THEN Len(table) - 2 ELSE selected]
             : i \in {j \in Bearing(n) : ~At(table, j).alive}}
  <2>1. All(S)
    BY DEF Sound, Replies, As
  <2>. HIDE DEF S, All
  <2>. QED  BY <1>2, <2>1 DEF Removing, S
<1>7. All(Wiping)
  BY DEF Wiping, Sound, Replies, As
<1>8. All(Commanding(m))
  <2>1. Configured(m.sets, m.value) \in Policies
    BY DEF Configured, Policies, Ruled
  <2>2. m.sets # "screen" => All(Commanding(m))
    BY <2>1 DEF Commanding, Sound, Replies, As
  <2>. HIDE DEF All
  <2>. QED  BY <1>2, <1>3, <2>2 DEF Commanding
<1>9. All(Stuffing)
  <2>1. Sound([As EXCEPT !.done = FALSE, !.loop = "failed"])
    BY DEF Sound, Replies, As
  <2>. QED  BY <1>1, <2>1 DEF Stuffing
<1>10. \A S : All(OrIgnored({As : i \in S}))
  BY <1>1 DEF OrIgnored
<1>11. All(OrIgnored({Reply(As, "WindowInfo") : i \in Current}))
       /\ All({Reply(As, IF table = << >> THEN "EmptyList" ELSE "WindowList")})
       /\ All({Reply([As EXCEPT !.loop = "ended"], "ShutdownAck")})
       /\ All({[As EXCEPT !.detaches = TRUE]})
       /\ All({[As EXCEPT !.reply = "Unexpected", !.done = FALSE]})
  BY <1>1 DEF OrIgnored, Sound, Replies, As, Reply
<1>12. All({As}) /\ All({As, Ignored})
  BY <1>1
<1>13. \A n : /\ All(OrIgnored({As : i \in Live(n)}))
              /\ All(OrIgnored({As : i \in Bearing(n)}) \union {Ignored})
  BY <1>1, <1>10
<1>. HIDE DEF All
<1>14. All(Outcomes(m))
  BY <1>3, <1>4, <1>5, <1>6, <1>7, <1>8, <1>9, <1>10, <1>11, <1>12, <1>13 DEF Outcomes
<1>. QED  BY <1>14 DEF All
-----------------------------------------------------------------------------
(* Frames.                                                                 *)

\* What the others do leaves a peer where it is.
LEMMA OthersStay ==
  ASSUME NEW p \in Peers, Placed(p), Told(p),
         loop' = loop \/ (loop.peer # p /\ loop'.peer # p),
         p \in Members(queue)' <=> p \in Members(queue),
         p \in Members(inside)' => p \in Members(inside),
         p \in carriedOut => p \in carriedOut',
         peer'[p] = peer[p], toDaemon'[p] = toDaemon[p], toPeer'[p] = toPeer[p]
  PROVE  Placed(p)' /\ Told(p)'
<1>1. Waits(p)' <=> Waits(p)
  BY DEF Waits
<1>2. Greeting(p)' = Greeting(p) /\ Said(p)' = Said(p)
  BY DEF Greeting, Said, Attach, Request, Stray
<1>3. Placed(p)'
  BY <1>1, <1>2 DEF Placed
<1>4. Told(p)'
  BY DEF Told, Asks
<1>. QED  BY <1>3, <1>4

\* A stage is all that changes in the record of a peer that goes on.
Keeps(p) ==
  /\ peer' \in [Peers -> Peer]
  /\ \A q \in Peers : peer'[q].wants = peer[q].wants /\ (q # p => peer'[q] = peer[q])
  /\ \A q \in Peers : Greeting(q)' = Greeting(q) /\ Said(q)' = Said(q)

LEMMA WantsKeep ==
  ASSUME NEW p \in Peers, peer' \in [Peers -> Peer],
         \A q \in Peers : peer'[q].wants = peer[q].wants /\ (q # p => peer'[q] = peer[q])
  PROVE  Keeps(p)
<1>1. ASSUME NEW q \in Peers PROVE Greeting(q)' = Greeting(q) /\ Said(q)' = Said(q)
  <2>1. peer'[q].wants = peer[q].wants
    OBVIOUS
  <2>. QED  BY ONLY <2>1 DEF Greeting, Said, Attach, Request, Stray
<1>. QED  BY <1>1 DEF Keeps

LEMMA GoesKeeps ==
  ASSUME TalkInv, NEW p \in Peers, NEW stage \in Stages, Goes(p, stage)
  PROVE  Keeps(p) /\ peer'[p].at = stage /\ peer'[p].verdict = peer[p].verdict
<1>1. /\ peer' \in [Peers -> Peer] /\ peer'[p].at = stage /\ peer'[p].verdict = peer[p].verdict
      /\ \A q \in Peers : peer'[q].wants = peer[q].wants /\ (q # p => peer'[q] = peer[q])
  BY DEF TalkInv, Peer, Goes
<1>. QED  BY <1>1, WantsKeep

LEMMA EndsKeeps ==
  ASSUME TalkInv, NEW p \in Peers, NEW verdict \in {"ok", "failed"}, Ends(p, verdict)
  PROVE  Keeps(p) /\ peer'[p].at = "over" /\ peer'[p].verdict = verdict
<1>1. /\ peer' \in [Peers -> Peer] /\ peer'[p].at = "over" /\ peer'[p].verdict = verdict
      /\ \A q \in Peers : peer'[q].wants = peer[q].wants /\ (q # p => peer'[q] = peer[q])
  <2>1. peer \in [Peers -> Peer] /\ peer[p] \in Peer /\ p \in Peers
    BY DEF TalkInv
  <2>. DEFINE r == [peer[p] EXCEPT !.at = "over", !.verdict = verdict]
  <2>2. r \in Peer /\ r.at = "over" /\ r.verdict = verdict /\ r.wants = peer[p].wants
    BY <2>1 DEF Peer, Stages
  <2>3. peer' = [peer EXCEPT ![p] = r]
    BY <2>1 DEF Ends
  <2>. HIDE DEF r
  <2>. QED  BY <2>1, <2>2, <2>3
<1>. QED  BY <1>1, WantsKeep

\* A peer that leaves: its answers go with it, what it has sent stays.
LEMMA EndStays ==
  ASSUME IInv, NEW p \in Peers, NEW verdict \in {"ok", "failed"}, Ends(p, verdict),
         UNCHANGED <<loop, queue, toDaemon, sessionVars>>,
         verdict = "ok" /\ Asks(p) /\ Beforehand(peer[p].wants) = "asked"
           /\ peer[p].wants.verb \notin DOMAIN ControlVerbs => p \in carriedOut
  PROVE  IInv'
<1>1. peer' = [peer EXCEPT ![p].at = "over", ![p].verdict = verdict]
      /\ toPeer' = [toPeer EXCEPT ![p] = << >>]
  BY DEF Ends
<1>2. LoopInv' /\ SessionInv /\ TalkInv /\ \A q \in Peers : Placed(q) /\ Told(q)
  BY DEF IInv, LoopInv
<1>3. Keeps(p) /\ peer'[p].at = "over" /\ peer'[p].verdict = verdict
  BY <1>2, EndsKeeps
<1>4. TalkInv'
  BY <1>1, <1>2, <1>3 DEF TalkInv, Keeps
<1>5. SessionInv'
  BY <1>2, <1>3 DEF Keeps, SessionInv, SharedByConsent, sessionVars
<1>6. toPeer'[p] = << >> /\ toDaemon' = toDaemon
      /\ \A q \in Peers : q # p => toPeer'[q] = toPeer[q]
  BY <1>1, <1>2 DEF TalkInv
<1>7. ASSUME NEW q \in Peers PROVE Placed(q)' /\ Told(q)'
  <2>1. CASE q # p
    BY <1>2, <1>3, <1>6, <2>1, OthersStay DEF Keeps, sessionVars, Members
  <2>2. CASE q = p
    <3>1. Waits(p)' <=> Waits(p)
      BY DEF Waits, Members
    <3>2. Placed(p)'
      BY <1>2, <1>3, <1>6, <3>1 DEF Keeps, Placed
    <3>3. Told(p)'
      BY <1>2, <1>3 DEF Keeps, Told, Asks, sessionVars
    <3>. QED  BY <2>2, <3>2, <3>3
  <2>. QED  BY <2>1, <2>2
<1>. QED  BY <1>2, <1>4, <1>5, <1>7 DEF IInv

\* A peer that sends what it has to send next.
LEMMA SendStays ==
  ASSUME IInv, NEW p \in Peers, NEW stage \in {"greeted", "asked"}, NEW message,
         Send(p, message, stage), UNCHANGED <<loop, queue, sessionVars>>,
         \/ /\ stage = "greeted" /\ peer[p].at = "connected" /\ message = Greeting(p)
            /\ peer[p].wants.form \notin {"probe", "silent"}
         \/ /\ stage = "asked" /\ peer[p].at \in {"greeted", "prompted"} /\ ~Waits(p)
            /\ message \in Said(p)
  PROVE  IInv'
<1>1. LoopInv' /\ SessionInv /\ TalkInv /\ \A q \in Peers : Placed(q) /\ Told(q)
  BY DEF IInv, LoopInv
<1>2. CASE ~Holds(p)
  <2>1. Ends(p, "failed") /\ UNCHANGED toDaemon
    BY <1>2 DEF Send
  <2>. QED  BY <2>1, EndStays
<1>3. CASE Holds(p)
  <2>1. /\ toDaemon' = [toDaemon EXCEPT ![p] = Append(@, message)] /\ Goes(p, stage)
        /\ toPeer' = [toPeer EXCEPT ![p] = << >>]
    BY <1>3 DEF Send
  <2>2. Keeps(p) /\ peer'[p].at = stage /\ peer'[p].verdict = peer[p].verdict
    <3>1. stage \in Stages
      BY DEF Stages
    <3>. QED  BY <1>1, <2>1, <3>1, GoesKeeps
  <2>3. DOMAIN toDaemon = Peers /\ DOMAIN toPeer = Peers
        /\ toDaemon[p] \in Seq({Greeting(p)} \union Said(p))
    BY <1>1 DEF TalkInv
  <2>4. /\ toDaemon'[p] = Append(toDaemon[p], message) /\ toPeer'[p] = << >>
        /\ DOMAIN toDaemon' = Peers /\ DOMAIN toPeer' = Peers
        /\ \A q \in Peers : q # p => toDaemon'[q] = toDaemon[q] /\ toPeer'[q] = toPeer[q]
    BY <2>1, <2>3
  <2>5. SessionInv'
    BY <1>1, <2>2 DEF Keeps, SessionInv, SharedByConsent, sessionVars
  <2>6. TalkInv'
    <3>1. toDaemon'[p] \in Seq({Greeting(p)} \union Said(p))
      BY <2>3, <2>4
    <3>2. ASSUME NEW q \in Peers
          PROVE  toDaemon'[q] \in Seq({Greeting(q)} \union Said(q)) /\ toPeer'[q] \in Seq(Replies)
      <4>1. toDaemon[q] \in Seq({Greeting(q)} \union Said(q)) /\ toPeer[q] \in Seq(Replies)
        BY <1>1 DEF TalkInv
      <4>2. << >> \in Seq(Replies)
        OBVIOUS
      <4>. QED  BY <2>4, <3>1, <4>1, <4>2
    <3>. QED  BY <2>2, <2>4, <3>2 DEF TalkInv, Keeps
  <2>7. ASSUME NEW q \in Peers PROVE Placed(q)' /\ Told(q)'
    <3>1. CASE q # p
      BY <1>1, <2>2, <2>4, <3>1, OthersStay DEF Keeps, sessionVars, Members
    <3>2. Waits(p)' <=> Waits(p)
      BY DEF Waits, Members
    <3>3. CASE stage = "greeted"
      <4>1. Waits(p) /\ toDaemon[p] = << >>
        BY <1>1, <1>3, <3>3 DEF Placed, Holds, Waits
      <4>2. toDaemon'[p] = <<Greeting(p)>>
        BY <2>4, <3>3, <4>1
      <4>3. Placed(p)'
        BY <1>1, <2>2, <2>4, <3>2, <3>3, <4>1, <4>2 DEF Placed, Keeps
      <4>. QED  BY <1>1, <2>2, <3>1, <3>3, <4>3 DEF Told, Keeps, Asks, sessionVars
    <3>4. CASE stage = "asked"
      <4>1. loop.peer = p /\ loop.at \in {"command", "challenge"} => toDaemon'[p] \in Seq(Said(p))
        BY <1>1, <2>4, <3>4 DEF Placed
      <4>2. Placed(p)'
        BY <1>1, <2>2, <2>4, <3>2, <3>4, <4>1 DEF Placed, Keeps
      <4>3. Told(p)'
        BY <1>1, <2>2, <2>4, <3>4 DEF Told, Keeps, Asks, sessionVars
      <4>. QED  BY <3>1, <4>2, <4>3
    <3>. QED  BY <3>3, <3>4
  <2>. QED  BY <1>1, <2>5, <2>6, <2>7 DEF IInv
<1>. QED  BY <1>2, <1>3

\* A peer that is let in, or has to type its password.
LEMMA GoStays ==
  ASSUME IInv, NEW p \in Peers, NEW stage \in {"prompted", "inside"}, Goes(p, stage),
         toPeer' = [toPeer EXCEPT ![p] = << >>], peer[p].at = "asked",
         peer[p].wants.form = "attach", UNCHANGED <<loop, queue, toDaemon, sessionVars>>
  PROVE  IInv'
<1>1. LoopInv' /\ SessionInv /\ TalkInv /\ \A q \in Peers : Placed(q) /\ Told(q)
  BY DEF IInv, LoopInv
<1>2. Keeps(p) /\ peer'[p].at = stage /\ peer'[p].verdict = peer[p].verdict
  <2>1. stage \in Stages
    BY DEF Stages
  <2>. QED  BY <1>1, <2>1, GoesKeeps
<1>3. /\ toPeer'[p] = << >> /\ DOMAIN toPeer' = Peers
      /\ \A q \in Peers : q # p => toPeer'[q] = toPeer[q]
  BY <1>1 DEF TalkInv
<1>4. SessionInv' /\ TalkInv'
  <2>1. TalkInv'
    BY <1>1, <1>2, <1>3 DEF Keeps, TalkInv
  <2>. QED  BY <1>1, <1>2, <2>1 DEF Keeps, SessionInv, SharedByConsent, sessionVars
<1>5. ASSUME NEW q \in Peers PROVE Placed(q)' /\ Told(q)'
  <2>1. CASE q # p
    BY <1>1, <1>2, <1>3, <2>1, OthersStay DEF Keeps, sessionVars, Members
  <2>2. Waits(p)' <=> Waits(p)
    BY DEF Waits, Members
  <2>3. Placed(p)'
    BY <1>1, <1>2, <1>3, <2>2 DEF Placed, Keeps
  <2>4. Told(p)'
    BY <1>1, <1>2 DEF Told, Keeps, Asks, sessionVars
  <2>. QED  BY <2>1, <2>3, <2>4
<1>. QED  BY <1>1, <1>4, <1>5 DEF IInv

\* A peer that connects.
LEMMA BeginStays ==
  ASSUME IInv, NEW p \in Peers, Begin(p)
  PROVE  IInv'
<1>1. LoopInv /\ SessionInv /\ TalkInv /\ \A q \in Peers : Placed(q) /\ Told(q)
  BY DEF IInv
<1>. DEFINE early == Beforehand(peer[p].wants)
<1>2. peer[p].at = "idle" /\ peer[p].wants.form # "nothing"
      /\ UNCHANGED <<loop, toDaemon, sessionVars>>
  BY DEF Begin
<1>3. CASE UNCHANGED queue
  <2>1. PICK verdict \in {"ok", "failed"} :
          Ends(p, verdict) /\ (verdict = "ok" => early # "asked")
    <3>1. early \in {"ok", "failed", "asked"}
      BY DEF Beforehand
    <3>2. early # "asked" => Ends(p, early)
      BY DEF Begin
    <3>3. early = "asked" => Ends(p, "failed")
      <4>1. queue # Append(queue, p)
        BY <1>1 DEF LoopInv
      <4>. QED  BY <1>3, <4>1 DEF Begin
    <3>. QED  BY <3>1, <3>2, <3>3
  <2>. QED  BY <1>2, <1>3, <2>1, EndStays
<1>4. CASE queue' # queue
  <2>1. early = "asked" /\ Goes(p, "connected") /\ queue' = Append(queue, p) /\ UNCHANGED toPeer
    BY <1>4 DEF Begin
  <2>2. Keeps(p) /\ peer'[p].at = "connected" /\ peer'[p].verdict = peer[p].verdict
    <3>1. "connected" \in Stages
      BY DEF Stages
    <3>. QED  BY <1>1, <2>1, <3>1, GoesKeeps
  <2>3. p \notin Members(queue) /\ loop.peer # p
    BY <1>1, <1>2 DEF Placed, Waits
  <2>4. Members(queue') = Members(queue) \union {p}
    BY <1>1, <2>1 DEF LoopInv, Members
  <2>5. LoopInv'
    BY <1>1, <1>2, <2>1, <2>3, <2>4 DEF LoopInv, Members
  <2>6. SessionInv' /\ TalkInv'
    BY <1>1, <1>2, <2>1, <2>2 DEF Keeps, SessionInv, SharedByConsent, sessionVars, TalkInv
  <2>7. ASSUME NEW q \in Peers PROVE Placed(q)' /\ Told(q)'
    <3>1. CASE q # p
      <4>1. q \in Members(queue)' <=> q \in Members(queue)
        BY <2>4, <3>1 DEF Members
      <4>. QED  BY <1>1, <1>2, <2>1, <2>2, <3>1, <4>1, OthersStay DEF Keeps, sessionVars, Members
    <3>2. Placed(p)'
      BY <1>1, <1>2, <2>1, <2>2, <2>3 DEF Placed, Keeps, sessionVars, Members
    <3>3. Told(p)'
      BY <1>1, <1>2, <2>2 DEF Told, Keeps, Asks, sessionVars
    <3>. QED  BY <3>1, <3>2, <3>3
  <2>. QED  BY <2>5, <2>6, <2>7 DEF IInv
<1>. QED  BY <1>3, <1>4

LEMMA PeerStep ==
  ASSUME IInv, NEW p \in Peers,
         \/ Greet(p) \/ Look(p) \/ Ask(p) \/ TurnedAway(p) \/ Answered(p) \/ AttachAnswered(p)
         \/ TypePassword(p) \/ Misspeak(p) \/ Dismissed(p) \/ Hangup(p)
  PROVE  IInv'
<1>1. Placed(p) /\ Told(p)
  BY DEF IInv
<1>. DEFINE w == peer[p].wants
<1>2. CASE Greet(p)
  BY <1>2, SendStays DEF Greet, Greeting
<1>3. CASE Ask(p)
  <2>1. ~Waits(p)
    BY <1>1, <1>3 DEF Placed, Ask, Answer
  <2>. DEFINE m == IF w.form = "attach" THEN Attach(w, IF w.upfront THEN Knows[p] ELSE NoPassword)
                                        ELSE Request(w)
  <2>2. m \in Said(p)
    BY DEF Said
  <2>3. peer[p].at = "greeted" /\ Send(p, m, "asked") /\ UNCHANGED <<loop, queue, sessionVars>>
    BY <1>3 DEF Ask
  <2>. HIDE DEF m
  <2>. QED  BY <2>1, <2>2, <2>3, SendStays
<1>4. CASE TypePassword(p)
  <2>1. ~Waits(p) /\ w.form = "attach"
    BY <1>1, <1>4 DEF Placed, TypePassword
  <2>2. Attach(w, Knows[p]) \in Said(p)
    BY <2>1 DEF Said
  <2>3. peer[p].at = "prompted" /\ Send(p, Attach(w, Knows[p]), "asked")
        /\ UNCHANGED <<loop, queue, sessionVars>>
    BY <1>4 DEF TypePassword
  <2>. QED  BY <2>1, <2>2, <2>3, SendStays
<1>45. CASE Misspeak(p)
  <2>1. ~Waits(p) /\ w.form = "attach"
    BY <1>1, <1>45 DEF Placed, Misspeak
  <2>2. Stray \in Said(p)
    BY <2>1 DEF Said
  <2>3. peer[p].at = "prompted" /\ Send(p, Stray, "asked") /\ UNCHANGED <<loop, queue, sessionVars>>
    BY <1>45 DEF Misspeak
  <2>. QED  BY <2>1, <2>2, <2>3, SendStays
<1>5. CASE Look(p) \/ TurnedAway(p) \/ Hangup(p) \/ Dismissed(p)
  <2>1. PICK verdict \in {"ok", "failed"} :
          /\ Ends(p, verdict) /\ (verdict = "ok" => ~Asks(p))
          /\ UNCHANGED <<loop, queue, toDaemon, sessionVars>>
    BY <1>1, <1>5 DEF Look, TurnedAway, Hangup, Dismissed, Asks, Placed
  <2>. QED  BY <2>1, EndStays
<1>6. CASE Answered(p)
  <2>1. PICK a \in Answer(p) : Ends(p, IF Succeeds(w, a) THEN "ok" ELSE "failed")
    BY <1>6 DEF Answered
  <2>2. Asks(p) /\ Succeeds(w, a) /\ w.verb \notin DOMAIN ControlVerbs => p \in carriedOut
    <3>1. SUFFICES ASSUME Asks(p), Succeeds(w, a), w.verb \notin DOMAIN ControlVerbs
                   PROVE  p \in carriedOut
      OBVIOUS
    <3>2. a \notin {"Error", "end"}
      BY <3>1, SuccessTells DEF Asks
    <3>3. toPeer[p] # << >> /\ a = Head(toPeer[p]) /\ toPeer[p] \in Seq(Replies)
      <4>1. toPeer[p] \in Seq(Replies)
        BY DEF IInv, TalkInv
      <4>. QED  BY <2>1, <3>2, <4>1 DEF Answer
    <3>. QED  BY <1>1, <1>6, <3>1, <3>2, <3>3 DEF Told, Answered
  <2>3. UNCHANGED <<loop, queue, toDaemon, sessionVars>>
    BY <1>6 DEF Answered
  <2>4. CASE Succeeds(w, a)
    BY <2>1, <2>2, <2>3, <2>4, EndStays
  <2>5. CASE ~Succeeds(w, a)
    BY <2>1, <2>3, <2>5, EndStays
  <2>. QED  BY <2>4, <2>5
<1>7. CASE AttachAnswered(p)
  <2>1. peer[p].at = "asked" /\ w.form = "attach" /\ UNCHANGED <<loop, queue, toDaemon, sessionVars>>
    BY <1>7 DEF AttachAnswered
  <2>2. \/ Ends(p, "failed")
        \/ \E stage \in {"prompted", "inside"} :
             Goes(p, stage) /\ toPeer' = [toPeer EXCEPT ![p] = << >>]
    BY <1>7 DEF AttachAnswered
  <2>. QED  BY <2>1, <2>2, EndStays, GoStays
<1>. QED  BY <1>2, <1>3, <1>4, <1>45, <1>5, <1>6, <1>7

-----------------------------------------------------------------------------
(* The daemon.                                                             *)

\* The daemon has served the peer, or goes on serving it.
Releases(p) == loop'.peer = Nobody /\ loop'.at \in {"accept", "ended", "failed"}
Retains(p) ==
  /\ loop'.peer = p /\ loop'.at \in {"command", "challenge"}
  /\ toDaemon'[p] \in Seq(Said(p)) /\ peer[p].at \notin {"idle", "connected"}
  /\ peer[p].wants.form \in {"run", "query", "attach"}
  /\ loop'.at = "challenge" => peer[p].wants.form = "attach"

LEMMA ServedStays ==
  ASSUME IInv, NEW p \in Peers, p = loop.peer, UNCHANGED <<queue, peer>>,
         loop' \in Loop, Releases(p) \/ Retains(p),
         UNCHANGED toDaemon \/ (toDaemon[p] # << >> /\ Consumed),
         NEW reply \in Replies, UNCHANGED toPeer \/ Tell(p, reply),
         policy' \in Policies, inside' \in Seq(Peers), SharedByConsent',
         \A q \in Members(inside') :
           q \in Members(inside) \/ (q = p /\ peer[p].at \notin {"idle", "connected"}),
         carriedOut \subseteq carriedOut',
         peer[p].at = "asked" /\ Asks(p) => reply = "Error" \/ p \in carriedOut'
  PROVE  IInv'
<1>1. LoopInv /\ SessionInv /\ TalkInv /\ \A q \in Peers : Placed(q) /\ Told(q)
  BY DEF IInv
<1>2. Nobody \notin Peers /\ loop.at \in Serving /\ p \notin Members(queue)
  BY <1>1, RequestsAssumption DEF LoopInv
<1>3. LoopInv'
  BY <1>1, <1>2 DEF LoopInv, Releases, Retains, Serving, Members
<1>4. SessionInv'
  BY DEF SessionInv
<1>5. \A q \in Peers : Greeting(q)' = Greeting(q) /\ Said(q)' = Said(q)
  BY DEF Greeting, Said, Attach, Request, Stray
<1>6. DOMAIN toDaemon = Peers /\ DOMAIN toPeer = Peers
      /\ toDaemon[p] \in Seq({Greeting(p)} \union Said(p)) /\ toPeer[p] \in Seq(Replies)
  BY <1>1 DEF TalkInv
<1>7. /\ DOMAIN toDaemon' = Peers /\ DOMAIN toPeer' = Peers
      /\ \A q \in Peers : q # p => toDaemon'[q] = toDaemon[q] /\ toPeer'[q] = toPeer[q]
  BY <1>6 DEF Consumed, Tell, Served
<1>8. toDaemon'[p] = toDaemon[p] \/ (toDaemon[p] # << >> /\ toDaemon'[p] = Tail(toDaemon[p]))
  BY <1>6 DEF Consumed, Served
<1>9. toPeer'[p] = toPeer[p] \/ (Open(p) /\ toPeer'[p] = Append(toPeer[p], reply))
  BY <1>6 DEF Tell
<1>10. toDaemon'[p] \in Seq({Greeting(p)} \union Said(p)) /\ toPeer'[p] \in Seq(Replies)
  <2>1. toDaemon[p] # << >> => Tail(toDaemon[p]) \in Seq({Greeting(p)} \union Said(p))
    BY <1>6
  <2>2. Append(toPeer[p], reply) \in Seq(Replies)
    BY <1>6
  <2>. QED  BY <1>6, <1>8, <1>9, <2>1, <2>2
<1>11. TalkInv'
  <2>1. ASSUME NEW q \in Peers
        PROVE  toDaemon'[q] \in Seq({Greeting(q)} \union Said(q)) /\ toPeer'[q] \in Seq(Replies)
    <3>1. toDaemon[q] \in Seq({Greeting(q)} \union Said(q)) /\ toPeer[q] \in Seq(Replies)
      BY <1>1 DEF TalkInv
    <3>. QED  BY <1>7, <1>10, <3>1
  <2>2. peer' \in [Peers -> Peer]
    BY <1>1 DEF TalkInv
  <2>. QED  BY <1>5, <1>7, <2>1, <2>2 DEF TalkInv
<1>12. ASSUME NEW q \in Peers PROVE Placed(q)' /\ Told(q)'
  <2>1. CASE q # p
    <3>1. q \in Members(inside)' => q \in Members(inside)
      BY <2>1 DEF Members
    <3>2. loop.peer # q /\ loop'.peer # q
      BY <1>2, <2>1 DEF Releases, Retains
    <3>3. q \in Members(queue)' <=> q \in Members(queue)
      BY DEF Members
    <3>. QED  BY <1>1, <1>7, <2>1, <3>1, <3>2, <3>3, OthersStay
  <2>2. ~Waits(p)'
    BY <1>2 DEF Waits, Members, Releases, Retains
  <2>3. Placed(p)'
    <3>1. peer[p].at # "idle" /\ (peer[p].at = "connected" =>
             toDaemon[p] = << >> /\ p \notin Members(inside))
      BY <1>1 DEF Placed
    <3>2. peer[p].at = "connected" => toDaemon'[p] = << >> /\ p \notin Members(inside)'
      BY <1>8, <3>1 DEF Members
    <3>3. peer[p].wants.form # "nothing" /\ Beforehand(peer[p].wants) = "asked"
          /\ (peer[p].at \in {"prompted", "inside"} => peer[p].wants.form = "attach")
      BY <1>1 DEF Placed
    <3>4. loop'.peer = p => Retains(p)
      BY <1>2 DEF Releases
    <3>. QED  BY <1>5, <2>2, <3>1, <3>2, <3>3, <3>4 DEF Placed, Retains
  <2>4. Told(p)'
    <3>1. Told(p)
      BY <1>1
    <3>2. ASSUME peer[p].at = "asked", Asks(p), NEW k \in DOMAIN toPeer'[p]
          PROVE  toPeer'[p][k] = "Error" \/ p \in carriedOut'
      <4>1. CASE k \in DOMAIN toPeer[p] /\ toPeer'[p][k] = toPeer[p][k]
        BY <3>1, <3>2, <4>1 DEF Told
      <4>2. CASE toPeer'[p][k] = reply
        BY <3>2, <4>2
      <4>3. \A n \in DOMAIN Append(toPeer[p], reply) :
              \/ n \in DOMAIN toPeer[p] /\ Append(toPeer[p], reply)[n] = toPeer[p][n]
              \/ Append(toPeer[p], reply)[n] = reply
        BY <1>6
      <4>. QED  BY <1>9, <3>2, <4>1, <4>2, <4>3
    <3>. QED  BY <3>1, <3>2 DEF Told, Asks
  <2>. QED  BY <2>1, <2>3, <2>4
<1>. QED  BY <1>3, <1>4, <1>11, <1>12 DEF IInv

LEMMA AcceptStays ==
  ASSUME IInv, Accept
  PROVE  IInv'
<1>1. LoopInv /\ SessionInv /\ TalkInv /\ \A q \in Peers : Placed(q) /\ Told(q)
  BY DEF IInv
<1>2. /\ loop.at = "accept" /\ queue # << >> /\ loop' = [at |-> "hello", peer |-> Head(queue)]
      /\ queue' = Tail(queue) /\ UNCHANGED <<peer, toDaemon, toPeer, sessionVars>>
  BY DEF Accept
<1>3. queue \in Seq(Peers) /\ loop.peer \notin Peers
  BY <1>1, <1>2 DEF LoopInv, Serving
<1>4. PICK p \in Peers : p = Head(queue)
  BY <1>2, <1>3
<1>5. Members(queue) = Members(queue') \union {p} /\ p \notin Members(queue')
  <2>1. /\ p = queue[1] /\ 1 \in DOMAIN queue
        /\ \A k \in DOMAIN queue' :
             k + 1 \in DOMAIN queue /\ k + 1 # 1 /\ queue'[k] = queue[k + 1]
        /\ \A k \in DOMAIN queue : k # 1 => k - 1 \in DOMAIN queue' /\ queue[k] = queue'[k - 1]
    BY <1>2, <1>3, <1>4
  <2>2. \A i, j \in DOMAIN queue : queue[i] = queue[j] => i = j
    BY <1>1 DEF LoopInv
  <2>3. p \notin Members(queue')
    BY <2>1, <2>2 DEF Members
  <2>4. Members(queue) = Members(queue') \union {p}
    BY <2>1 DEF Members
  <2>. QED  BY <2>3, <2>4
<1>6. LoopInv'
  <2>1. \A i, j \in DOMAIN queue' : queue'[i] = queue'[j] => i = j
    BY <1>1, <1>2, <1>3 DEF LoopInv
  <2>2. loop' \in Loop
    BY <1>2, <1>4 DEF Loop
  <2>. QED  BY <1>2, <1>3, <1>5, <1>4, <2>1, <2>2 DEF LoopInv, Serving, Members
<1>7. SessionInv' /\ TalkInv'
  BY <1>1, <1>2 DEF SessionInv, SharedByConsent, TalkInv, sessionVars, Greeting, Said, Attach, Request, Stray
<1>8. ASSUME NEW q \in Peers PROVE Placed(q)' /\ Told(q)'
  <2>1. CASE q # p
    <3>1. q \in Members(queue)' <=> q \in Members(queue)
      BY <1>5, <2>1 DEF Members
    <3>. QED  BY <1>1, <1>2, <1>3, <1>4, <2>1, <3>1, OthersStay DEF sessionVars, Members
  <2>2. Waits(p) /\ Waits(p)' /\ loop.peer # p
    BY <1>2, <1>3, <1>4, <1>5 DEF Waits, Members
  <2>3. Greeting(p)' = Greeting(p) /\ Said(p)' = Said(p)
    BY <1>2 DEF Greeting, Said, Attach, Request, Stray
  <2>4. Placed(p)
    BY <1>1, <1>4
  <2>5. Placed(p)'
    BY <1>2, <2>2, <2>3, <2>4 DEF Placed, sessionVars, Members
  <2>6. Told(p)'
    BY <1>1, <1>2, <1>4 DEF Told, Asks, sessionVars
  <2>. QED  BY <2>1, <2>5, <2>6
<1>. QED  BY <1>6, <1>7, <1>8 DEF IInv

\* What is known while the daemon serves a peer.
LEMMA ServedFacts ==
  ASSUME IInv, loop.at \in Serving
  PROVE  /\ loop.peer \in Peers /\ Placed(loop.peer) /\ Told(loop.peer)
         /\ policy \in Policies /\ inside \in Seq(Peers) /\ SharedByConsent
         /\ peer \in [Peers -> Peer]
         /\ loop.at # "hello" => peer[loop.peer].at \notin {"idle", "connected"}
         /\ RequestsAssumption
<1>1. loop.peer \in Peers
  BY DEF IInv, LoopInv
<1>. QED  BY <1>1, RequestsAssumption DEF IInv, SessionInv, TalkInv, Placed

\* Nobody is let in, and nothing is carried out.
LEMMA SessionStays ==
  ASSUME UNCHANGED <<peer, sessionVars>>, policy \in Policies, inside \in Seq(Peers),
         SharedByConsent
  PROVE  /\ policy' \in Policies /\ inside' \in Seq(Peers) /\ SharedByConsent'
         /\ Members(inside') = Members(inside) /\ carriedOut' = carriedOut
  BY DEF sessionVars, SharedByConsent

\* Refused, unheard or garbled: an error, and on with the next.
LEMMA RejectStays ==
  ASSUME IInv, loop.at \in Serving, Rejects, UNCHANGED <<queue, peer, sessionVars>>,
         UNCHANGED toDaemon \/ (toDaemon[Served] # << >> /\ Consumed)
  PROVE  IInv'
<1>1. PICK p \in Peers : p = loop.peer
  BY ServedFacts
<1>2. Tell(p, "Error") /\ loop' \in Loop /\ Releases(p) /\ "Error" \in Replies
  BY <1>1 DEF Rejects, Done, LoopAt, Loop, Releases, Served, Replies
<1>3. policy \in Policies /\ inside \in Seq(Peers) /\ SharedByConsent
  BY ServedFacts
<1>4. /\ policy' \in Policies /\ inside' \in Seq(Peers) /\ SharedByConsent'
      /\ Members(inside') = Members(inside) /\ carriedOut' = carriedOut
  BY <1>3, SessionStays
<1>. QED  BY <1>1, <1>2, <1>4, ServedStays DEF Served

LEMMA ReadHelloStays ==
  ASSUME IInv, ReadHello
  PROVE  IInv'
<1>1. /\ loop.at = "hello" /\ toDaemon[Served] # << >> /\ Consumed /\ loop.at \in Serving
      /\ UNCHANGED <<queue, peer, sessionVars>>
  BY DEF ReadHello, Listening, Serving
<1>2. CASE Rejects
  BY <1>1, <1>2, RejectStays
<1>3. CASE Heard.kind = "Hello" /\ Answers("HelloAck", "command")
  <2>1. PICK p \in Peers : p = loop.peer
    BY <1>1, ServedFacts
  <2>2. Placed(p) /\ Waits(p)
    BY <1>1, <2>1, ServedFacts DEF Waits
  <2>3. toDaemon[p] = <<Greeting(p)>> /\ peer[p].at \in {"greeted", "over"}
    BY <1>1, <2>1, <2>2 DEF Placed, Served
  <2>4. Heard = Greeting(p)
    BY <2>1, <2>3 DEF Heard, Served
  <2>5. peer[p].wants.form \notin {"garbled", "probe", "silent", "nothing"}
    BY <1>3, <2>2, <2>3, <2>4 DEF Placed, Greeting
  <2>6. peer[p].wants.form \in {"run", "query", "attach"}
    <3>1. peer[p].wants \in Wants
      BY <1>1, ServedFacts DEF Peer
    <3>2. peer[p].wants.form \in Forms
      BY <3>1, RequestsAssumption DEF Wants
    <3>. QED  BY <2>5, <3>2 DEF Forms
  <2>7. toDaemon'[p] \in Seq(Said(p))
    <3>1. DOMAIN toDaemon = Peers
      BY DEF IInv, TalkInv
    <3>2. toDaemon'[p] = Tail(toDaemon[p])
      BY <1>1, <2>1, <3>1 DEF Consumed, Served
    <3>3. Tail(<<Greeting(p)>>) = << >>
      OBVIOUS
    <3>4. << >> \in Seq(Said(p))
      OBVIOUS
    <3>. QED  BY <2>3, <3>2, <3>3, <3>4
  <2>8. Tell(p, "HelloAck") /\ loop' \in Loop /\ (Releases(p) \/ Retains(p))
    BY <1>3, <2>1, <2>3, <2>6, <2>7
      DEF Answers, LoopAt, Loop, Releases, Retains, Served
  <2>9. /\ policy' \in Policies /\ inside' \in Seq(Peers) /\ SharedByConsent'
        /\ Members(inside') = Members(inside) /\ carriedOut' = carriedOut
    <3>1. policy \in Policies /\ inside \in Seq(Peers) /\ SharedByConsent
      BY <1>1, ServedFacts
    <3>. QED  BY <1>1, <3>1, SessionStays
  <2>10. "HelloAck" \in Replies
    BY DEF Replies
  <2>. QED  BY <1>1, <2>1, <2>3, <2>8, <2>9, <2>10, ServedStays DEF Served
<1>. QED  BY <1>2, <1>3 DEF ReadHello

LEMMA GiveUpStays ==
  ASSUME IInv, GiveUp
  PROVE  IInv'
<1>1. loop.at \in Serving /\ Rejects /\ UNCHANGED <<queue, peer, toDaemon, sessionVars>>
  BY DEF GiveUp, Serving
<1>. QED  BY <1>1, RejectStays

\* What the daemon reads after the greeting is what the peer came for.
LEMMA HeardIsSaid ==
  ASSUME IInv, loop.at \in {"command", "challenge"}, toDaemon[Served] # << >>
  PROVE  /\ Heard \in Said(loop.peer)
         /\ IF peer[loop.peer].wants.form = "attach"
            THEN \/ \E x \in {Knows[loop.peer], NoPassword} : Heard = Attach(peer[loop.peer].wants, x)
                 \/ Heard = Stray /\ Ruled(Heard)
            ELSE /\ loop.at = "command" /\ Heard = Request(peer[loop.peer].wants)
                 /\ Asks(loop.peer) /\ Heard.kind # "Attach" /\ Ruled(Heard)
<1>1. loop.at \in Serving
  BY DEF Serving
<1>2. PICK p \in Peers : p = loop.peer /\ Placed(p)
  BY <1>1, ServedFacts
<1>3. toDaemon[p] \in Seq(Said(p)) /\ toDaemon[p] # << >> /\ Heard = Head(toDaemon[p])
  BY <1>2 DEF Placed, Served, Heard
<1>4. Heard \in Said(p)
  BY <1>3
<1>5. CASE peer[p].wants.form = "attach"
  BY <1>2, <1>4, <1>5 DEF Said, Ruled, Stray
<1>6. CASE peer[p].wants.form # "attach"
  <2>1. Heard = Request(peer[p].wants) /\ loop.at = "command" /\ Asks(p)
    BY <1>2, <1>4, <1>6 DEF Said, Placed, Asks
  <2>2. Beforehand(peer[p].wants) = "asked"
    BY <1>2 DEF Placed
  <2>3. Heard.kind # "Attach"
    BY <2>1, <2>2, NeverAttach DEF Request, Asks
  <2>4. Ruled(Heard)
    <3>1. peer[p].wants \in Wants
      BY <1>1, ServedFacts DEF Peer
    <3>. QED  BY <2>1, <3>1, RequestsAssumption DEF Wants, Ruled, Request
  <2>. QED  BY <1>2, <1>4, <1>6, <2>1, <2>3, <2>4
<1>. QED  BY <1>2, <1>5, <1>6

LEMMA ReadCommandStays ==
  ASSUME IInv, ReadCommand
  PROVE  IInv'
<1>1. /\ loop.at = "command" /\ toDaemon[Served] # << >> /\ Consumed /\ Heard.kind # "Attach"
      /\ UNCHANGED <<queue, peer, mishaps>>
  BY DEF ReadCommand, Listening
<1>2. PICK o \in Outcomes(Heard) : Execute(o)
  BY DEF ReadCommand
<1>3. PICK p \in Peers : p = loop.peer
  BY <1>1, ServedFacts DEF Serving
<1>4. /\ policy \in Policies /\ inside \in Seq(Peers) /\ SharedByConsent
      /\ peer[p].at \notin {"idle", "connected"}
  BY <1>1, <1>3, ServedFacts DEF Serving
<1>5. Ruled(Heard)
  BY <1>1, <1>3, HeardIsSaid DEF Attach
<1>6. Sound(o)
  BY <1>2, <1>4, <1>5, OutcomesAreSound
<1>7. policy' \in Policies /\ inside' \in Seq(Peers) /\ SharedByConsent'
      /\ Members(inside') \subseteq Members(inside)
  <2>1. policy' \in Policies
    BY <1>2, <1>4, <1>6 DEF Execute, Sound
  <2>2. inside' = inside \/ inside' = << >>
    BY <1>2 DEF Execute
  <2>3. CASE inside' = inside
    BY <1>1, <1>4, <2>1, <2>3 DEF SharedByConsent, Members
  <2>4. CASE inside' = << >>
    <3>1. DOMAIN inside' = {} /\ inside' \in Seq(Peers)
      BY <2>4
    <3>. QED  BY <2>1, <3>1 DEF SharedByConsent, Members
  <2>. QED  BY <2>2, <2>3, <2>4
<1>8. carriedOut' = (IF o.done THEN carriedOut \union {p} ELSE carriedOut)
  BY <1>2, <1>3 DEF Execute, Served
<1>9. loop' \in Loop /\ Releases(p)
  BY <1>2, <1>6 DEF Execute, Sound, LoopAt, Loop, Releases, Rejects, Done
<1>10. PICK reply \in Replies :
         /\ UNCHANGED toPeer \/ Tell(p, reply)
         /\ reply = "Error" \/ p \in carriedOut'
  <2>1. CASE o.reply = "none"
    <3>1. UNCHANGED toPeer /\ "Error" \in Replies
      BY <1>2, <2>1 DEF Execute, Replies
    <3>. QED  BY <3>1
  <2>2. CASE o.reply = "Unexpected"
    <3>1. Tell(p, "Error") /\ "Error" \in Replies
      BY <1>2, <1>3, <2>2 DEF Execute, Replies, Rejects, Served
    <3>. QED  BY <3>1
  <2>3. CASE o.reply \notin {"none", "Unexpected"}
    <3>1. Tell(p, o.reply)
      BY <1>2, <1>3, <2>3 DEF Execute, Served
    <3>2. o.reply \in Replies /\ (o.reply = "Error" \/ o.done)
      BY <1>6, <2>3 DEF Sound
    <3>. QED  BY <1>8, <3>1, <3>2
  <2>. QED  BY <2>1, <2>2, <2>3
<1>11. carriedOut \subseteq carriedOut'
  BY <1>8
<1>. QED  BY <1>1, <1>3, <1>7, <1>9, <1>10, <1>11, ServedStays DEF Served

\* Who is let in is let in beside others by its own wish.
LEMMA AdmitsShares ==
  ASSUME inside \in Seq(Peers), SharedByConsent, NEW p \in Peers, p = loop.peer, Admits,
         UNCHANGED peer
  PROVE  /\ inside' \in Seq(Peers) /\ SharedByConsent'
         /\ Members(inside') \subseteq Members(inside) \union {p}
<1>. DEFINE others == IF peer[p].wants.shared THEN inside ELSE << >>
<1>1. others \in Seq(Peers) /\ (others # << >> => peer[p].wants.shared)
      /\ \A k \in DOMAIN others : k \in DOMAIN inside /\ others[k] = inside[k]
  OBVIOUS
<1>2. inside' \in {Append(others, p), others}
  BY DEF Admits, Served
<1>. HIDE DEF others
<1>3. \A k \in DOMAIN Append(others, p) :
        \/ k \in DOMAIN others /\ Append(others, p)[k] = others[k]
        \/ Append(others, p)[k] = p /\ (k > 1 => peer[p].wants.shared)
  BY <1>1
<1>4. inside' \in Seq(Peers)
  BY <1>1, <1>2
<1>5. \A k \in DOMAIN inside' :
        \/ k \in DOMAIN inside /\ inside'[k] = inside[k]
        \/ inside'[k] = p /\ (k > 1 => peer[p].wants.shared)
  BY <1>1, <1>2, <1>3
<1>. QED  BY <1>4, <1>5 DEF SharedByConsent, Members

LEMMA DecideStays ==
  ASSUME IInv, loop.at \in {"command", "challenge"}, toDaemon[Served] # << >>, Consumed,
         NEW given, NEW user, Decide(given, user), UNCHANGED <<queue, peer>>,
         peer[loop.peer].wants.form = "attach"
  PROVE  IInv'
<1>1. UNCHANGED <<table, selected, nextNumber, policy, carriedOut, mishaps>>
  BY DEF Decide
<1>2. CASE Rejects /\ UNCHANGED inside
  BY <1>1, <1>2, RejectStays DEF sessionVars, Serving
<1>3. CASE Admits
  <2>1. PICK p \in Peers : p = loop.peer
    BY ServedFacts DEF Serving
  <2>2. /\ policy \in Policies /\ inside \in Seq(Peers) /\ SharedByConsent
        /\ peer[p].at \notin {"idle", "connected"}
    BY <2>1, ServedFacts DEF Serving
  <2>3. /\ inside' \in Seq(Peers) /\ SharedByConsent'
        /\ Members(inside') \subseteq Members(inside) \union {p}
    BY <1>3, <2>1, <2>2, AdmitsShares
  <2>4. PICK reply \in Replies : UNCHANGED toPeer \/ Tell(p, reply)
    BY <1>3, <2>1 DEF Admits, Answers, Replies, Served
  <2>45. loop' \in Loop /\ Releases(p)
    BY <1>3, <2>1 DEF Admits, Answers, Done, LoopAt, Loop, Releases, Served
  <2>5. ~Asks(p)
    BY <2>1 DEF Asks
  <2>. QED  BY <1>1, <2>1, <2>2, <2>3, <2>4, <2>45, <2>5, ServedStays DEF Served
<1>. QED  BY <1>2, <1>3 DEF Decide

LEMMA ReadAttachStays ==
  ASSUME IInv, ReadAttach
  PROVE  IInv'
<1>1. /\ loop.at = "command" /\ toDaemon[Served] # << >> /\ Consumed /\ Heard.kind = "Attach"
      /\ UNCHANGED <<queue, peer>>
  BY DEF ReadAttach, Listening
<1>2. PICK p \in Peers : p = loop.peer
  BY <1>1, ServedFacts DEF Serving
<1>3. peer[p].wants.form = "attach"
  BY <1>1, <1>2, HeardIsSaid
<1>4. CASE \E user \in UsersOf(Served) : Decide(Heard.password, user)
  BY <1>1, <1>2, <1>3, <1>4, DecideStays
<1>5. CASE Answers("PasswordChallenge", "challenge") /\ UNCHANGED sessionVars
  <2>1. /\ policy \in Policies /\ inside \in Seq(Peers) /\ SharedByConsent
        /\ peer[p].at \notin {"idle", "connected"} /\ toDaemon[p] \in Seq(Said(p))
    BY <1>1, <1>2, ServedFacts DEF Serving, Placed
  <2>2. toDaemon'[p] \in Seq(Said(p))
    <3>1. DOMAIN toDaemon = Peers
      BY DEF IInv, TalkInv
    <3>2. toDaemon'[p] = Tail(toDaemon[p])
      BY <1>1, <1>2, <3>1 DEF Consumed, Served
    <3>3. toDaemon[p] # << >>
      BY <1>1, <1>2 DEF Served
    <3>4. Tail(toDaemon[p]) \in Seq(Said(p))
      BY <2>1, <3>3
    <3>. QED  BY <3>2, <3>4
  <2>3. /\ Tell(p, "PasswordChallenge") /\ loop' \in Loop /\ (Releases(p) \/ Retains(p))
        /\ "PasswordChallenge" \in Replies
    BY <1>2, <1>3, <1>5, <2>1, <2>2
      DEF Answers, LoopAt, Loop, Releases, Retains, Replies, Served
  <2>4. /\ policy' \in Policies /\ inside' \in Seq(Peers) /\ SharedByConsent'
        /\ Members(inside') = Members(inside) /\ carriedOut' = carriedOut
    BY <1>1, <1>5, <2>1, SessionStays
  <2>5. ~Asks(p)
    BY <1>3 DEF Asks
  <2>. QED  BY <1>1, <1>2, <2>3, <2>4, <2>5, ServedStays DEF Served
<1>. QED  BY <1>4, <1>5 DEF ReadAttach

LEMMA ReadAnswerStays ==
  ASSUME IInv, ReadAnswer
  PROVE  IInv'
<1>1. /\ loop.at = "challenge" /\ toDaemon[Served] # << >> /\ Consumed
      /\ UNCHANGED <<queue, peer>>
  BY DEF ReadAnswer, Listening
<1>2. peer[loop.peer].wants.form = "attach"
  BY <1>1, HeardIsSaid
<1>3. CASE \E user \in UsersOf(Served) : Decide(Heard.password, user)
  BY <1>1, <1>2, <1>3, DecideStays
<1>4. CASE Rejects /\ UNCHANGED sessionVars
  BY <1>1, <1>4, RejectStays DEF Serving
<1>. QED  BY <1>3, <1>4 DEF ReadAnswer

\* A client that leaves, and a program that exits.
LEMMA DepartStays ==
  ASSUME IInv, NEW p \in Peers, Depart(p)
  PROVE  /\ IInv' /\ policy' = policy /\ Members(inside)' \subseteq Members(inside)
<1>1. LoopInv /\ SessionInv /\ TalkInv /\ \A q \in Peers : Placed(q) /\ Told(q)
  BY DEF IInv
<1>2. UNCHANGED <<loop, queue, peer, toDaemon, toPeer, policy, carriedOut>>
  BY DEF Depart
<1>3. PICK k \in DOMAIN inside :
        inside' = SubSeq(inside, 1, k - 1) \o SubSeq(inside, k + 1, Len(inside))
  BY DEF Depart
<1>4. /\ inside' \in Seq(Peers)
      /\ \A i \in DOMAIN inside' :
           \E j \in DOMAIN inside : inside'[i] = inside[j] /\ (i > 1 => j > 1)
  <2>1. inside \in Seq(Peers) /\ Len(inside) \in Nat /\ k \in 1 .. Len(inside)
    BY <1>1 DEF SessionInv
  <2>2. inside' = RemoveAt(inside, k)
    BY <1>3 DEF RemoveAt
  <2>3. /\ inside' \in Seq(Peers) /\ Len(inside') = Len(inside) - 1
        /\ \A i \in 1 .. Len(inside) - 1 : inside'[i] = inside[IF i < k THEN i ELSE i + 1]
    BY <2>1, <2>2, RemoveAtFacts
  <2>4. \A i \in 1 .. Len(inside) - 1 :
          LET j == IF i < k THEN i ELSE i + 1
          IN  j \in 1 .. Len(inside) /\ (i > 1 => j > 1)
    BY <2>1
  <2>5. DOMAIN inside' = 1 .. Len(inside) - 1 /\ DOMAIN inside = 1 .. Len(inside)
    BY <2>1, <2>3
  <2>6. ASSUME NEW i \in DOMAIN inside'
        PROVE  \E j \in DOMAIN inside : inside'[i] = inside[j] /\ (i > 1 => j > 1)
    <3>. DEFINE j == IF i < k THEN i ELSE i + 1
    <3>1. j \in DOMAIN inside /\ inside'[i] = inside[j] /\ (i > 1 => j > 1)
      BY <2>3, <2>4, <2>5, <2>6
    <3>. HIDE DEF j
    <3>. QED  BY <3>1
  <2>. QED  BY <2>3, <2>6
<1>5. SessionInv'
  BY <1>1, <1>2, <1>4 DEF SessionInv, SharedByConsent
<1>6. Members(inside)' \subseteq Members(inside)
  BY <1>4 DEF Members
<1>7. TalkInv' /\ LoopInv'
  BY <1>1, <1>2 DEF TalkInv, LoopInv, Greeting, Said, Attach, Request, Stray
<1>8. \A q \in Peers : Placed(q)' /\ Told(q)'
  <2>. TAKE q \in Peers
  <2>1. q \in Members(queue)' <=> q \in Members(queue)
    BY <1>2 DEF Members
  <2>. QED  BY <1>1, <1>2, <1>6, <2>1, OthersStay
<1>. QED  BY <1>2, <1>5, <1>6, <1>7, <1>8 DEF IInv

LEMMA ExitStays ==
  ASSUME IInv, NEW i, Exit(i)
  PROVE  IInv'
<1>1. LoopInv /\ SessionInv /\ TalkInv /\ \A q \in Peers : Placed(q) /\ Told(q)
  BY DEF IInv
<1>2. /\ UNCHANGED <<queue, peer, toDaemon, toPeer, policy, inside, carriedOut>>
      /\ loop.at = "accept" /\ (loop' = loop \/ loop' = [at |-> "ended", peer |-> Nobody])
  BY DEF Exit, LoopAt
<1>3. loop.peer \notin Peers /\ Nobody \notin Peers
  BY <1>1, <1>2, RequestsAssumption DEF LoopInv, Serving
<1>4. LoopInv' /\ SessionInv' /\ TalkInv'
  <2>1. LoopInv'
    <3>1. loop' \in Loop /\ loop'.peer \notin Peers /\ loop'.at \notin Serving
      BY <1>1, <1>2, <1>3 DEF LoopInv, Loop, Serving
    <3>2. Members(queue) \subseteq Peers
      BY <1>1 DEF LoopInv, Members
    <3>. QED  BY <1>1, <1>2, <3>1, <3>2 DEF LoopInv, Members
  <2>. QED  BY <1>1, <1>2, <2>1 DEF SessionInv, SharedByConsent, TalkInv, Greeting, Said, Attach, Request, Stray
<1>5. \A q \in Peers : Placed(q)' /\ Told(q)'
  <2>. TAKE q \in Peers
  <2>1. loop.peer # q /\ loop'.peer # q
    BY <1>2, <1>3
  <2>. QED  BY <1>1, <1>2, <2>1, OthersStay DEF Members
<1>. QED  BY <1>4, <1>5 DEF IInv

-----------------------------------------------------------------------------
(* The theorems.                                                           *)

LEMMA Start == Init => IInv
<1>. SUFFICES ASSUME Init PROVE IInv
  OBVIOUS
<1>1. PICK s \in Scenarios :
        /\ peer = [p \in Peers |-> [wants |-> s.wants[p], at |-> "idle", verdict |-> "none"]]
        /\ policy = s.rules
  BY DEF Init
<1>2. /\ loop = [at |-> "accept", peer |-> Nobody] /\ queue = << >> /\ inside = << >>
      /\ toDaemon = [p \in Peers |-> << >>] /\ toPeer = [p \in Peers |-> << >>]
  BY DEF Init
<1>3. Nobody \notin Peers /\ s.rules \in Policies
  BY RequestsAssumption
<1>4. Members(queue) = {} /\ Members(inside) = {}
  BY <1>2 DEF Members
<1>5. LoopInv
  BY <1>2, <1>3, <1>4 DEF LoopInv, Loop, Serving
<1>6. SessionInv
  BY <1>1, <1>2, <1>3 DEF SessionInv, SharedByConsent
<1>7. TalkInv
  <2>1. peer \in [Peers -> Peer]
    BY <1>1 DEF Peer, Wants, Stages
  <2>2. \A S : << >> \in Seq(S)
    OBVIOUS
  <2>. QED  BY <1>2, <2>1, <2>2 DEF TalkInv
<1>8. ASSUME NEW p \in Peers PROVE Placed(p) /\ Told(p)
  <2>1. peer[p].at = "idle" /\ peer[p].verdict = "none" /\ toDaemon[p] = << >> /\ toPeer[p] = << >>
    BY <1>1, <1>2
  <2>2. ~Waits(p) /\ loop.peer # p
    BY <1>2, <1>3, <1>4 DEF Waits
  <2>. QED  BY <1>4, <2>1, <2>2 DEF Placed, Told
<1>. QED  BY <1>5, <1>6, <1>7, <1>8 DEF IInv

LEMMA Stutters == IInv /\ UNCHANGED vars => IInv'
<1>. SUFFICES ASSUME IInv, UNCHANGED vars PROVE IInv'
  OBVIOUS
<1>1. LoopInv' /\ SessionInv' /\ TalkInv'
  BY DEF IInv, vars, LoopInv, SessionInv, SharedByConsent, TalkInv, Greeting, Said, Attach, Request, Stray
<1>2. \A p \in Peers : Placed(p)' /\ Told(p)'
  BY OthersStay DEF IInv, vars, Members
<1>. QED  BY <1>1, <1>2 DEF IInv

LEMMA Steps == IInv /\ [Next]_vars => IInv'
<1>. SUFFICES ASSUME IInv, [Next]_vars PROVE IInv'
  OBVIOUS
<1>1. CASE \/ Accept \/ ReadHello \/ GiveUp \/ ReadCommand \/ ReadAttach \/ ReadAnswer
  BY <1>1, AcceptStays, ReadHelloStays, GiveUpStays, ReadCommandStays, ReadAttachStays,
     ReadAnswerStays
<1>2. CASE \E i \in Idx(table) : Exit(i)
  BY <1>2, ExitStays
<1>3. ASSUME NEW p \in Peers,
             \/ Begin(p) \/ Greet(p) \/ Look(p) \/ Ask(p) \/ TurnedAway(p) \/ Answered(p)
             \/ AttachAnswered(p) \/ TypePassword(p) \/ Misspeak(p) \/ Dismissed(p) \/ Hangup(p) \/ Depart(p)
      PROVE  IInv'
  BY <1>3, BeginStays, PeerStep, DepartStays
<1>4. CASE UNCHANGED vars
  BY <1>4, Stutters
<1>. QED  BY <1>1, <1>2, <1>3, <1>4 DEF Next

LEMMA Invariance == Spec => []IInv
  BY Start, Steps, PTL DEF Spec

(* accept_connections lets nobody share a session with clients that were   *)
(* there before unless it attached with -x, whatever the dialogue.         *)
THEOREM SharingIsWanted == Spec => []SharedByConsent
<1>1. IInv => SharedByConsent
  BY DEF IInv, SessionInv
<1>. QED  BY <1>1, Invariance, PTL

(* What screen -X or screen -Q reports as done after a look at its answer, *)
(* the daemon has carried out.                                             *)
THEOREM SuccessIsReal == Spec => []SuccessIsDone
<1>1. IInv => SuccessIsDone
  BY DEF IInv, Told, Asks, SuccessIsDone
<1>. QED  BY <1>1, Invariance, PTL

LEMMA AppendMembers ==
  ASSUME NEW s \in Seq(Peers), NEW p \in Peers
  PROVE  Members(Append(s, p)) = Members(s) \union {p}
<1>. DEFINE t == Append(s, p)
<1>1. Len(s) \in Nat /\ DOMAIN s = 1 .. Len(s) /\ DOMAIN t = 1 .. Len(s) + 1
  OBVIOUS
<1>2. (\A k \in 1 .. Len(s) : t[k] = s[k]) /\ t[Len(s) + 1] = p
  OBVIOUS
<1>. HIDE DEF t
<1>. QED  BY <1>1, <1>2 DEF Members

\* Each step of the daemon and its peers is one of the abstract admission, or none.
LEMMA DecideAdmits ==
  ASSUME IInv, NEW p \in Peers, p = loop.peer, NEW given \in {Knows[p], NoPassword},
         NEW user \in UsersOf(p), Decide(given, user)
  PROVE  [Promise!Next]_<<policy, Members(inside), "unknown" \in mishaps>>
<1>1. policy' = policy /\ ("unknown" \in mishaps)' = ("unknown" \in mishaps)
  BY DEF Decide
<1>2. CASE UNCHANGED inside
  BY <1>1, <1>2 DEF Members
<1>3. CASE PasswordRight(given) /\ AllowAttach(user) /\ Admits
  <2>1. Promise!Admissible(policy, p)
    BY <1>3 DEF PasswordRight, AllowAttach, UsersOf, Promise!Admissible, Promise!UsersOf
  <2>2. inside' \in {<<p>>, Append(inside, p), inside, << >>}
    <3>1. inside' \in {Append(<< >>, p), Append(inside, p), inside, << >>}
      BY <1>3 DEF Admits, Served
    <3>2. Append(<< >>, p) = <<p>>
      OBVIOUS
    <3>. QED  BY <3>1, <3>2
  <2>3. inside \in Seq(Peers)
    BY DEF IInv, SessionInv
  <2>4. Members(inside') \in {{p}, Members(inside) \union {p}, Members(inside), {}}
    <3>1. Members(<<p>>) = {p} /\ Members(<< >>) = {}
      BY DEF Members
    <3>2. Members(Append(inside, p)) = Members(inside) \union {p}
      BY <2>3, AppendMembers
    <3>. QED  BY <2>2, <3>1, <3>2
  <2>5. Members(inside)' = Members(inside')
    BY DEF Members
  <2>6. CASE Members(inside)' \in {{p}, Members(inside) \union {p}}
    BY <1>1, <2>1, <2>6 DEF Promise!Next, Promise!Admit
  <2>7. CASE Members(inside)' \in {Members(inside), {}}
    BY <1>1, <2>7 DEF Promise!Next, Promise!Leave
  <2>. QED  BY <2>4, <2>5, <2>6, <2>7
<1>. QED  BY <1>2, <1>3 DEF Decide

LEMMA Refines == IInv /\ [Next]_vars => [Promise!Next]_<<policy, Members(inside), "unknown" \in mishaps>>
<1>. SUFFICES ASSUME IInv, [Next]_vars PROVE [Promise!Next]_<<policy, Members(inside), "unknown" \in mishaps>>
  OBVIOUS
<1>0. mishaps' = mishaps
  BY DEF Next, vars, Accept, ReadHello, GiveUp, ReadCommand, ReadAttach, ReadAnswer, Decide, Exit,
         Begin, Greet, Look, Ask, TurnedAway, Answered, AttachAnswered, TypePassword, Misspeak,
         Dismissed, Hangup, Depart, sessionVars
<1>1. CASE UNCHANGED <<policy, inside>>
  BY <1>0, <1>1 DEF Members
<1>2. CASE ReadCommand
  <2>1. /\ loop.at = "command" /\ toDaemon[Served] # << >> /\ Heard.kind # "Attach"
    BY <1>2 DEF ReadCommand, Listening
  <2>2. PICK o \in Outcomes(Heard) : Execute(o)
    BY <1>2 DEF ReadCommand
  <2>3. loop.peer \in Peers /\ policy \in Policies
    BY <2>1, ServedFacts DEF Serving
  <2>4. Sound(o)
    BY <2>1, <2>2, <2>3, HeardIsSaid, OutcomesAreSound DEF Attach
  <2>5. CASE policy' = policy
    <3>1. inside' = inside \/ inside' = << >>
      BY <2>2 DEF Execute
    <3>2. Members(inside)' \subseteq Members(inside)
      BY <3>1 DEF Members
    <3>. QED  BY <1>0, <2>5, <3>2 DEF Promise!Next, Promise!Leave
  <2>6. CASE policy' \in Policies /\ inside' = inside
    BY <1>0, <2>6 DEF Promise!Next, Promise!Rule, Promise!Policies, Policies, Members
  <2>. QED  BY <2>2, <2>4, <2>5, <2>6 DEF Execute, Sound
<1>3. ASSUME loop.at \in {"command", "challenge"}, toDaemon[Served] # << >>,
             Heard.kind = "Attach", NEW user \in UsersOf(Served), Decide(Heard.password, user)
      PROVE  [Promise!Next]_<<policy, Members(inside), "unknown" \in mishaps>>
  <2>1. PICK p \in Peers : p = loop.peer
    BY <1>3, ServedFacts DEF Serving
  <2>2. Heard.password \in {Knows[p], NoPassword}
    BY <1>3, <2>1, HeardIsSaid DEF Attach, Stray
  <2>. QED  BY <1>3, <2>1, <2>2, DecideAdmits DEF Served
<1>4. CASE ReadAttach
  BY <1>1, <1>3, <1>4 DEF ReadAttach, Listening, sessionVars
<1>5. CASE ReadAnswer
  BY <1>1, <1>3, <1>5 DEF ReadAnswer, Listening, sessionVars
<1>6. ASSUME NEW p \in Peers, Depart(p) PROVE [Promise!Next]_<<policy, Members(inside), "unknown" \in mishaps>>
  BY <1>0, <1>6, DepartStays DEF Promise!Next, Promise!Leave
<1>7. CASE Accept \/ ReadHello \/ GiveUp \/ \E i \in Idx(table) : Exit(i)
  BY <1>1, <1>7 DEF Accept, ReadHello, GiveUp, Exit, sessionVars
<1>8. ASSUME NEW p \in Peers,
             \/ Begin(p) \/ Greet(p) \/ Look(p) \/ Ask(p) \/ TurnedAway(p) \/ Answered(p)
             \/ AttachAnswered(p) \/ TypePassword(p) \/ Misspeak(p) \/ Dismissed(p) \/ Hangup(p)
      PROVE  UNCHANGED <<policy, inside>>
  BY <1>8 DEF Begin, Greet, Look, Ask, TurnedAway, Answered, AttachAnswered, TypePassword,
              Misspeak, Dismissed, Hangup, sessionVars
<1>. QED  BY <1>1, <1>2, <1>4, <1>5, <1>6, <1>7, <1>8 DEF Next, vars

(* The handshake of accept_connections implements the abstract admission:  *)
(* nobody is attached but by the rules in force at that moment, and no     *)
(* change of the rules lets anybody in or throws anybody out.              *)
THEOREM HandshakeKeepsPromise == Spec => AdmissionKept
<1>1. Init => Promise!Init
  <2>1. SUFFICES ASSUME Init
                 PROVE  /\ policy \in Policies /\ Members(inside) = {}
                        /\ ("unknown" \in mishaps) \in BOOLEAN
    BY DEF Promise!Init, Promise!Policies, Policies
  <2>. QED  BY <2>1, RequestsAssumption DEF Init, Members
<1>. QED  BY <1>1, Refines, Invariance, PTL DEF Spec, AdmissionKept, Promise!Spec
=============================================================================

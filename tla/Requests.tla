------------------------------ MODULE Requests ------------------------------
(***************************************************************************)
(* Everybody who connects to a daemon's socket: remote commands, questions *)
(* clients that attach, peers that only look whether somebody listens, and *)
(* peers that fall silent.  The daemon serves them one after the other in  *)
(* the middle of its loop, and waits for each up to a timeout.             *)
(*                                                                         *)
(* Module ScreenSession shows what requests do to attached clients; this   *)
(* one, what becomes of those who send them.                               *)
(*                                                                         *)
(* An operator named Slip... is its neighbour with one likely slip in it,  *)
(* kept to see which property notices; no specification uses one.          *)
(***************************************************************************)
EXTENDS WindowTable, RemoteCommands

CONSTANTS Peers, Names, Passwords, Name, Knows, Root, Anybody, NoPassword,
          Nobody,          \* no peer
          Scenarios,       \* bounds what peers come for, the rules at first, and the
                           \* mishaps: programs that exit, peers that are killed or
                           \* confused, credentials that cannot be had
          MaxWindows       \* bounds the windows created

Policies == [password : Passwords \union {NoPassword}, multiuser : BOOLEAN,
             acl : SUBSET (Names \union {Anybody})]
Forms    == {"run", "query", "attach", "probe", "silent", "garbled", "nothing"}

\* What a peer comes for; a command that sets a rule sets it to what a rule may be.
ASSUME RequestsAssumption ==
  /\ Nobody \notin Peers /\ Root \in Names
  /\ \A s \in Scenarios :
       /\ s.rules \in Policies
       /\ \A p \in Peers :
            /\ s.wants[p].form \in Forms
            /\ s.wants[p].sets = "password" => s.wants[p].value \in Passwords
            /\ s.wants[p].sets = "acladd" => s.wants[p].value \in Names \union {Anybody}

VARIABLES loop,            \* where the daemon is, and whom it serves
          queue,           \* the peers connected and not yet accepted
          peer,            \* of each: what it wants, how far it is, how it ended
          toDaemon, toPeer,
          table, selected, nextNumber,
          policy,          \* the password asked for, and the list of users
          inside,          \* the peers attached, in the order they came
          carriedOut,      \* the peers whose request has been carried out
          mishaps          \* the mishaps of this scenario

vars == <<loop, queue, peer, toDaemon, toPeer, table, selected, nextNumber, policy, inside,
          carriedOut, mishaps>>
sessionVars == <<table, selected, nextNumber, policy, inside, carriedOut, mishaps>>

Stages == {"idle", "connected", "greeted", "asked", "prompted", "inside", "over"}

TypeOK ==
  /\ loop.at \in {"accept", "hello", "command", "challenge", "ended", "failed"}
  /\ loop.peer \in Peers \union {Nobody}
  /\ queue \in Seq(Peers) /\ inside \in Seq(Peers)
  /\ \A p \in Peers : peer[p].at \in Stages /\ peer[p].verdict \in {"none", "ok", "failed"}
  /\ \A k \in DOMAIN table : table[k] \in Window
  /\ selected \in Nat /\ nextNumber \in Nat
  /\ policy \in Policies /\ carriedOut \subseteq Peers

Init ==
  /\ loop = [at |-> "accept", peer |-> Nobody] /\ queue = << >>
  /\ \E s \in Scenarios :
       /\ peer = [p \in Peers |-> [wants |-> s.wants[p], at |-> "idle", verdict |-> "none"]]
       /\ policy = s.rules /\ mishaps = s.mishaps
  /\ toDaemon = [p \in Peers |-> << >>] /\ toPeer = [p \in Peers |-> << >>]
  /\ table = << [id |-> 0, number |-> 0, alive |-> TRUE, pty |-> "running"],
                [id |-> 1, number |-> 1, alive |-> TRUE, pty |-> "running"] >>
  /\ selected = 0 /\ nextNumber = 2
  /\ inside = << >> /\ carriedOut = {}

Members(s) == {s[k] : k \in DOMAIN s}
Ended == loop.at \in {"ended", "failed"}
Open(p) == peer[p].at \notin {"idle", "over"}

\* The sockets the daemon has; the peer of any other reads the end of the stream.
Holds(p) == ~Ended /\ p \in Members(queue) \union Members(inside) \union {loop.peer}

-----------------------------------------------------------------------------
(* The peers.                                                              *)

Goes(p, stage)   == peer' = [peer EXCEPT ![p].at = stage]
Ends(p, verdict) == /\ peer' = [peer EXCEPT ![p].at = "over", ![p].verdict = verdict]
                    /\ toPeer' = [toPeer EXCEPT ![p] = << >>]

\* What the peer reads next; nothing yet is no answer.
Answer(p) == IF toPeer[p] # << >> THEN {Head(toPeer[p])}
             ELSE IF Holds(p) THEN {} ELSE {"end"}

\* A write to a socket the daemon has closed fails.
Send(p, message, stage) ==
  IF Holds(p)
  THEN /\ toDaemon' = [toDaemon EXCEPT ![p] = Append(@, message)] /\ Goes(p, stage)
       /\ toPeer' = [toPeer EXCEPT ![p] = << >>]
  ELSE Ends(p, "failed") /\ UNCHANGED toDaemon

Request(w) == [kind |-> Sends(w), number |-> IF w.verb = "title" THEN 0 ELSE w.number,
               sets |-> w.sets, value |-> w.value]
Attach(w, password) == [kind |-> "Attach", password |-> password, shared |-> w.shared]

Begin(p) ==
  /\ peer[p].at = "idle" /\ peer[p].wants.form # "nothing"
  /\ LET early == Beforehand(peer[p].wants)
     IN  IF early # "asked" THEN Ends(p, early) /\ UNCHANGED queue
         ELSE IF Ended THEN Ends(p, "failed") /\ UNCHANGED queue
         ELSE Goes(p, "connected") /\ queue' = Append(queue, p) /\ UNCHANGED toPeer
  /\ UNCHANGED <<loop, toDaemon, sessionVars>>

\* A peer of another version greets with something else; some only look, or fall silent.
Greet(p) ==
  /\ peer[p].at = "connected" /\ peer[p].wants.form \notin {"probe", "silent"}
  /\ Send(p, [kind |-> IF peer[p].wants.form = "garbled" THEN "Garbled" ELSE "Hello"], "greeted")
  /\ UNCHANGED <<loop, queue, sessionVars>>

Look(p) ==
  /\ peer[p].at = "connected" /\ peer[p].wants.form = "probe"
  /\ Ends(p, "ok")
  /\ UNCHANGED <<loop, queue, toDaemon, sessionVars>>

Ask(p) ==
  /\ peer[p].at = "greeted" /\ "HelloAck" \in Answer(p)
  /\ LET w == peer[p].wants
     IN  Send(p, IF w.form = "attach" THEN Attach(w, IF w.upfront THEN Knows[p] ELSE NoPassword)
                                      ELSE Request(w), "asked")
  /\ UNCHANGED <<loop, queue, sessionVars>>

TurnedAway(p) ==
  /\ peer[p].at = "greeted" /\ \E a \in Answer(p) : a # "HelloAck"
  /\ Ends(p, "failed")
  /\ UNCHANGED <<loop, queue, toDaemon, sessionVars>>

Answered(p) ==
  /\ peer[p].at = "asked" /\ peer[p].wants.form \in {"run", "query"}
  /\ \E a \in Answer(p) : Ends(p, IF Succeeds(peer[p].wants, a) THEN "ok" ELSE "failed")
  /\ UNCHANGED <<loop, queue, toDaemon, sessionVars>>

AttachAnswered(p) ==
  /\ peer[p].at = "asked" /\ peer[p].wants.form = "attach"
  /\ \E a \in Answer(p) :
       CASE a = "PasswordChallenge" -> Goes(p, "prompted") /\ toPeer' = [toPeer EXCEPT ![p] = << >>]
         [] a \in {"Error", "end"}  -> Ends(p, "failed")
         [] OTHER                   -> Goes(p, "inside") /\ toPeer' = [toPeer EXCEPT ![p] = << >>]
  /\ UNCHANGED <<loop, queue, toDaemon, sessionVars>>

\* The user takes as long as the user takes.
TypePassword(p) ==
  /\ peer[p].at = "prompted" /\ Send(p, Attach(peer[p].wants, Knows[p]), "asked")
  /\ UNCHANGED <<loop, queue, sessionVars>>

(* A peer of another make answers the challenge with something else, which *)
(* would do harm if it were taken for a request.                           *)
Stray == [kind |-> "Shutdown", number |-> 0, sets |-> "none", value |-> "none"]
Misspeak(p) ==
  /\ "confusion" \in mishaps /\ peer[p].at = "prompted" /\ Send(p, Stray, "asked")
  /\ UNCHANGED <<loop, queue, sessionVars>>

Dismissed(p) ==
  /\ peer[p].at = "inside" /\ ~Holds(p) /\ Ends(p, "ok")
  /\ UNCHANGED <<loop, queue, toDaemon, sessionVars>>

\* The peer is killed.
Hangup(p) ==
  /\ "hangups" \in mishaps /\ Open(p) /\ Ends(p, "failed")
  /\ UNCHANGED <<loop, queue, toDaemon, sessionVars>>

-----------------------------------------------------------------------------
(* What a request does: the session after it, the answer, whether it has   *)
(* been carried out, whether all clients are detached, how the daemon ends.*)

As == [table |-> table, selected |-> selected, next |-> nextNumber, policy |-> policy,
       reply |-> "none", done |-> TRUE, detaches |-> FALSE, loop |-> "accept"]
Reply(outcome, reply) == [outcome EXCEPT !.reply = reply]
Refusal == [As EXCEPT !.reply = "Error", !.done = FALSE]
Ignored == [As EXCEPT !.done = FALSE]

Row(number) == [id |-> nextNumber, number |-> number, alive |-> TRUE, pty |-> "running"]
Creations ==
  IF Len(table) >= MaxWindows THEN {}
  ELSE {[As EXCEPT !.table = Append(table, Row(nextNumber)), !.selected = Len(table),
                   !.next = nextNumber + 1]}
Creating == {Reply(o, "WindowCreated") : o \in Creations} \union {Refusal}

Live(n)    == {i \in FirstLive(table) : At(table, i).number = n}
Bearing(n) == {i \in First(table) : At(table, i).number = n}
Current    == {i \in Idx(table) : i = selected}
OrRefusal(outcomes) == IF outcomes = {} THEN {Refusal} ELSE outcomes
OrIgnored(outcomes) == IF outcomes = {} THEN {Ignored} ELSE outcomes

Selecting(n) == OrRefusal({Reply([As EXCEPT !.selected = i], "WindowSelected") : i \in Live(n)})
Killing(n)   == OrRefusal({Reply([As EXCEPT !.table = Killed(table, i)], "WindowExited") : i \in Bearing(n)})
Stepping(i) ==
  IF LiveIdx(table) = {} THEN {Ignored}
  ELSE {Reply([As EXCEPT !.selected = i], "WindowSelected")}
Renumbering(n) ==
  OrIgnored({Reply([As EXCEPT !.table[i + 1].number = n], "WindowSelected")
             : i \in {j \in Current : n \notin Numbers(table)}})
Titling(n) == OrRefusal({Reply(As, "WindowTitle") : i \in Live(n)})

Removed(i) == SubSeq(table, 1, i) \o SubSeq(table, i + 2, Len(table))
Removing(n) ==
  OrIgnored({[As EXCEPT !.table = Removed(i),
                        !.selected = IF selected >= Len(table) - 1 /\ Len(table) > 1
                                     THEN Len(table) - 2 ELSE selected]
             : i \in {j \in Bearing(n) : ~At(table, j).alive}})
Wiping ==
  LET live == CHOOSE f \in Orders(LiveIdx(table)) : TRUE
      gone == Cardinality(DeadBefore(table, selected))
  IN  {[As EXCEPT !.table = [k \in DOMAIN live |-> At(table, live[k])],
                  !.selected = Lesser(SatSub(selected, gone), SatSub(Len(live), 1))]}

\* What a command line sets; ScreenSession has those that move windows and clients.
Configured(sets, value) ==
  CASE sets = "password"  -> [policy EXCEPT !.password = value]
    [] sets = "multiuser" -> [policy EXCEPT !.multiuser = (value # "off")]
    [] sets = "acladd"    -> [policy EXCEPT !.acl = @ \union {value}]
    [] sets = "acldel"    -> [policy EXCEPT !.acl = @ \ {value}]
    [] OTHER              -> policy
Commanding(m) ==
  IF m.sets = "screen" THEN OrIgnored(Creations)
  ELSE {[As EXCEPT !.policy = Configured(m.sets, m.value)]}

\* A write to a program that does not read, or has exited, ends the daemon.
Stuffing == {As} \union {[As EXCEPT !.done = FALSE, !.loop = "failed"] : i \in Current}

\* These only set, write or show, or find nothing to do it with; nobody is answered.
Settings == {"LogToggle", "LogFile", "FlowToggle", "Echo", "Redisplay"}
OfWindow == {"MonitorToggle", "Silence", "WrapToggle", "SearchHistory", "BreakSignal"}
Attempts == {"ReadBuf", "WriteBuf", "RemoveBuf", "Register", "Xoff", "Xon"}

Outcomes(m) ==
  CASE m.kind = "CreateWindow"   -> Creating
    [] m.kind = "SelectWindow"   -> Selecting(m.number)
    [] m.kind = "KillWindow"     -> Killing(m.number)
    [] m.kind = "NextWindow"     -> Stepping(NextIndex(table, selected))
    [] m.kind = "PrevWindow"     -> Stepping(PrevIndex(table, selected))
    [] m.kind = "RenumberWindow" -> Renumbering(m.number)
    [] m.kind = "WindowTitle"    -> Titling(m.number)
    [] m.kind = "RemoveWindow"   -> Removing(m.number)
    [] m.kind = "WipeDeadWindows" -> Wiping
    [] m.kind = "WindowInfo"     -> OrIgnored({Reply(As, "WindowInfo") : i \in Current})
    [] m.kind = "WindowList"     -> {Reply(As, IF table = << >> THEN "EmptyList" ELSE "WindowList")}
    [] m.kind = "Shutdown"       -> {Reply([As EXCEPT !.loop = "ended"], "ShutdownAck")}
    [] m.kind = "Detach"         -> {[As EXCEPT !.detaches = TRUE]}
    [] m.kind = "PtyInput"       -> Stuffing
    [] m.kind = "Command"        -> Commanding(m)
    [] m.kind = "AtWindow"       -> OrIgnored({As : i \in Live(m.number)})
    [] m.kind = "Hardcopy"       -> OrIgnored({As : i \in Bearing(m.number)}) \union {Ignored}
    [] m.kind \in Settings       -> {As}
    [] m.kind \in OfWindow       -> OrIgnored({As : i \in Current})
    [] m.kind \in Attempts       -> {As, Ignored}
    [] OTHER                     -> {[As EXCEPT !.reply = "Unexpected", !.done = FALSE]}
-----------------------------------------------------------------------------
(* The daemon.  Between two passes it accepts; while it serves a peer, it  *)
(* does nothing else.                                                      *)

Served == loop.peer
Heard  == Head(toDaemon[Served])
Listening(stage) == loop.at = stage /\ toDaemon[Served] # << >>
Consumed == toDaemon' = [toDaemon EXCEPT ![Served] = Tail(@)]
Tell(p, reply) == toPeer' = [toPeer EXCEPT ![p] = IF Open(p) THEN Append(@, reply) ELSE @]

LoopAt(stage) == loop' = [at |-> stage, peer |-> Nobody]
Done == LoopAt("accept")

\* write_to(..)?: a peer that is gone ends the daemon.
Answers(reply, stage) ==
  /\ Tell(Served, reply)
  /\ IF ~Open(Served) THEN LoopAt("failed")
     ELSE loop' = [at |-> stage, peer |-> IF stage = "accept" THEN Nobody ELSE Served]

\* write_protocol_error: whether the peer gets it or not.
Rejects == Tell(Served, "Error") /\ Done

Accept ==
  /\ loop.at = "accept" /\ queue # << >>
  /\ loop' = [at |-> "hello", peer |-> Head(queue)] /\ queue' = Tail(queue)
  /\ UNCHANGED <<peer, toDaemon, toPeer, sessionVars>>

ReadHello ==
  /\ Listening("hello") /\ Consumed
  /\ IF Heard.kind = "Hello" THEN Answers("HelloAck", "command") ELSE Rejects
  /\ UNCHANGED <<queue, peer, sessionVars>>

\* The peer has hung up, or has said nothing for as long as the timeout.
Unheard == toDaemon[Served] = << >>

SlipGiveUp ==
  /\ loop.at \in {"hello", "command", "challenge"} /\ Unheard
  /\ loop.at = "hello" => ~Open(Served)
  /\ Rejects
  /\ UNCHANGED <<queue, peer, toDaemon, sessionVars>>

GiveUp ==
  /\ loop.at \in {"hello", "command", "challenge"} /\ Unheard
  /\ Rejects
  /\ UNCHANGED <<queue, peer, toDaemon, sessionVars>>

Execute(o) ==
  /\ table' = o.table /\ selected' = o.selected /\ nextNumber' = o.next /\ policy' = o.policy
  /\ inside' = IF o.detaches THEN << >> ELSE inside
  /\ carriedOut' = IF o.done THEN carriedOut \union {Served} ELSE carriedOut
  /\ IF o.reply = "none" THEN LoopAt(o.loop) /\ UNCHANGED toPeer
     ELSE IF o.reply = "Unexpected" THEN Rejects
     ELSE Tell(Served, o.reply) /\ LoopAt(IF Open(Served) THEN o.loop ELSE "failed")

ReadCommand ==
  /\ Listening("command") /\ Consumed /\ Heard.kind # "Attach"
  /\ \E o \in Outcomes(Heard) : Execute(o)
  /\ UNCHANGED <<queue, peer, mishaps>>

(* The password before the list; an empty list admits nobody.  A peer      *)
(* whose credentials cannot be had counts as root.                         *)
PasswordRight(given) == policy.password \in {NoPassword, given}
UsersOf(p) == {Name[p]} \union (IF "unknown" \in mishaps THEN {Root} ELSE {})
SlipAllowAttach(user) == policy.multiuser /\ policy.acl # {} => {user, Anybody} \intersect policy.acl # {}
AllowAttach(user) == policy.multiuser => {user, Anybody} \intersect policy.acl # {}

SlipAdmits ==
  /\ inside' = IF Open(Served) THEN Append(inside, Served) ELSE inside
  /\ Answers("PtyOutput", "accept")

(* Without -x those inside are detached first.  The selected window is     *)
(* shown to the newcomer, who else is told nothing but the bindings, if    *)
(* there are any, and is on the list though it may be gone.                *)
Admits ==
  LET others == IF peer[Served].wants.shared THEN inside ELSE << >>
      shown  == selected \in Idx(table)
  IN  /\ inside' = IF shown => Open(Served) THEN Append(others, Served) ELSE others
      /\ \/ shown /\ Answers("PtyOutput", "accept")
         \/ ~shown /\ Done /\ UNCHANGED toPeer
         \/ ~shown /\ Done /\ Tell(Served, "BindingsUpdate")

Decide(given, user) ==
  /\ IF PasswordRight(given) /\ AllowAttach(user) THEN Admits
                                                  ELSE Rejects /\ UNCHANGED inside
  /\ UNCHANGED <<table, selected, nextNumber, policy, carriedOut, mishaps>>

ReadAttach ==
  /\ Listening("command") /\ Consumed /\ Heard.kind = "Attach"
  /\ IF policy.password # NoPassword /\ Heard.password = NoPassword
     THEN Answers("PasswordChallenge", "challenge") /\ UNCHANGED sessionVars
     ELSE \E user \in UsersOf(Served) : Decide(Heard.password, user)
  /\ UNCHANGED <<queue, peer>>

ReadAnswer ==
  /\ Listening("challenge") /\ Consumed
  /\ \/ Heard.kind = "Attach" /\ \E user \in UsersOf(Served) : Decide(Heard.password, user)
     \/ Heard.kind # "Attach" /\ Rejects /\ UNCHANGED sessionVars
  /\ UNCHANGED <<queue, peer>>

\* A client detaches, or its reader finds that it hung up.
Depart(p) ==
  /\ loop.at = "accept" /\ p \in Members(inside)
  /\ \E k \in DOMAIN inside :
       /\ inside[k] = p
       /\ inside' = SubSeq(inside, 1, k - 1) \o SubSeq(inside, k + 1, Len(inside))
  /\ UNCHANGED <<loop, queue, peer, toDaemon, toPeer, table, selected, nextNumber, policy,
                 carriedOut, mishaps>>

\* A program exits, and the loop notices; the last one's exit ends the daemon.
Exit(i) ==
  /\ "exits" \in mishaps /\ loop.at = "accept" /\ At(table, i).alive
  /\ table' = [table EXCEPT ![i + 1].alive = FALSE, ![i + 1].pty = "exited"]
  /\ IF LiveIdx(table) = {i} THEN LoopAt("ended") /\ UNCHANGED selected
     ELSE UNCHANGED loop /\ selected' = IF selected = i THEN NextIndex(table, i) ELSE selected
  /\ UNCHANGED <<queue, peer, toDaemon, toPeer, nextNumber, policy, inside, carriedOut, mishaps>>

-----------------------------------------------------------------------------
Serve == Accept \/ ReadHello \/ GiveUp \/ ReadCommand \/ ReadAttach \/ ReadAnswer

Speak(p) ==
  \/ Greet(p) \/ Look(p) \/ Ask(p) \/ TurnedAway(p) \/ Answered(p) \/ AttachAnswered(p)
  \/ Dismissed(p)

Next ==
  \/ Accept \/ ReadHello \/ GiveUp \/ ReadCommand \/ ReadAttach \/ ReadAnswer
  \/ \E i \in Idx(table) : Exit(i)
  \/ \E p \in Peers :
       \/ Begin(p) \/ Greet(p) \/ Look(p) \/ Ask(p) \/ TurnedAway(p) \/ Answered(p)
       \/ AttachAnswered(p) \/ TypePassword(p) \/ Misspeak(p) \/ Dismissed(p) \/ Hangup(p)
       \/ Depart(p)

Spec == Init /\ [][Next]_vars

(* The loop goes round, and a program that has an answer goes on; nothing  *)
(* is asked of users, of programs in windows, or of who falls silent.      *)
FairSpec == Spec /\ WF_vars(Serve) /\ \A p \in Peers : WF_vars(Speak(p))

-----------------------------------------------------------------------------
(* Whoever is attached beside others that were there before has asked for  *)
(* that (-x); an attach without -x leaves nobody else, whatever dialogue   *)
(* came before it.                                                         *)
SharedByConsent ==
  \A k \in DOMAIN inside : k > 1 => peer[inside[k]].wants.shared

(* What a command or a question that looks at its answer reports as done,  *)
(* the daemon has carried out, whatever ended, was refused, fell silent or *)
(* was detached meanwhile.                                                 *)
SuccessIsDone ==
  \A p \in Peers :
    LET w == peer[p].wants
    IN  peer[p].verdict = "ok" /\ w.form \in {"run", "query"} /\ Beforehand(w) = "asked"
          /\ w.verb \notin DOMAIN ControlVerbs => p \in carriedOut

\* Let in where there is no window to show: the daemon does not say so.
LeftWaiting(p) == p \in Members(inside) /\ selected \notin Idx(table)

(* Whoever has connected gets an answer or the end of the stream at last,  *)
(* behind however many that fall silent, and though the daemon may end;    *)
(* but for a client that is let in after the last window was killed and    *)
(* wiped, which reads without a timeout what nobody sends.                 *)
AnswersAtLast ==
  \A p \in Peers :
    peer[p].at \in {"connected", "greeted", "asked"} /\ peer[p].wants.form # "silent"
      ~> peer[p].at \in {"prompted", "inside", "over"} \/ LeftWaiting(p)

(* The handshake implements the promise of module Admission, whatever the  *)
(* peer answers to the challenge and whether or not its credentials can be *)
(* had; without them it counts as root, who is admitted where the list has *)
(* root or everybody.                                                      *)
Promise == INSTANCE Admission WITH inside <- Members(inside),
                                   anonymous <- "unknown" \in mishaps
AdmissionKept == Promise!Spec
=============================================================================

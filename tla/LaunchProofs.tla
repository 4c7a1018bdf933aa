---------------------------- MODULE LaunchProofs ----------------------------
(***************************************************************************)
(* What holds of the runtime directory for any number of runs of screen,   *)
(* any pids and names, and any scenario: the inductive invariant and the   *)
(* safety properties that follow from it.                                  *)
(*                                                                         *)
(* An action gives one run a new record (ActorMoves), or one daemon        *)
(* (DaemonMoves), or starts a daemon (SpawnStep).                          *)
(***************************************************************************)
EXTENDS Launch, FiniteSetTheorems, TLAPS

Past == {"opened", "waiting", "scanning", "removing", "connecting", "attached"}

\* What is done for what.
Errand(stage, form) ==
  /\ stage \in {"connecting", "attached"} => form \in {"attach", "reattach"}
  /\ stage = "removing" => form = "wipe"

(* A record that a run may have, with directory dir and its daemon d:      *)
(* whoever has got past the directory has found or made it private; a run  *)
(* starts one daemon, and its record tells whether it has.                 *)
Fit(r, dir, d) ==
  /\ DOMAIN r = {"want", "verdict", "reached", "at"}
  /\ DOMAIN r.want = {"form", "name", "aggressive"} /\ r.want.name \in Seq(Parts)
  /\ r.at \in Past => dir = "private"
  /\ r.at = "making" => dir # "absent"
  /\ r.at \notin {"waiting", "over"} /\ r.want.form # "attach" => d.at = "none"
  /\ r.at = "waiting" => d.at # "none"
  /\ r.verdict # "none" => r.at = "over"
  /\ Errand(r.at, r.want.form)

ActorsInv == DOMAIN actor = Actors /\ \A a \in Actors : Fit(actor[a], runtime, daemon[a])

\* A daemon that has been started, and the number and name it was given.
DaemonsInv ==
  /\ DOMAIN daemon = Actors
  /\ \A l \in Actors :
       /\ DOMAIN daemon[l] = {"at", "pid", "name", "age"}
       /\ daemon[l].name \in Seq(Parts) /\ daemon[l].age \in Nat
       /\ daemon[l].at # "none" => runtime = "private"

(* Every socket lies under the path of the daemon that bound it, which has *)
(* not ended by itself.                                                    *)
Binds(l, d) == d.at \notin {"none", "starting", "ended"} /\ d.age > 0
SocketsInv ==
  \A p \in DOMAIN files :
    files[p] \in Actors /\ Own(files[p]) = p /\ Binds(files[p], daemon[files[p]])

(* Of the daemons that have had one pid, at most one is alive, and none    *)
(* but its own while a run waits for its daemon.                           *)
PidsInv ==
  \A a, l \in Actors :
    a # l /\ daemon[a].at # "none" /\ daemon[l].at # "none" /\ daemon[a].pid = daemon[l].pid
      => /\ ~(Alive(a) /\ Alive(l))
         /\ actor[a].at = "waiting" => ~Alive(l)

IInv == ActorsInv /\ DaemonsInv /\ SocketsInv /\ PidsInv /\ HonestStart

-----------------------------------------------------------------------------
(* The three kinds of steps.                                               *)

\* A successful start has a daemon that bound, or an old socket in its way.
Honest(a) == \/ daemon[a].age # 0
             \/ \E l \in Actors \ {a} : daemon[l].at \in {"aborted", "killed"} /\ Own(l) = Own(a)

LEMMA ActorMoves ==
  ASSUME IInv, NEW a \in Actors, NEW r, actor' = [actor EXCEPT ![a] = r],
         UNCHANGED <<files, daemon>>,
         Fit(r, runtime', daemon[a]), actor[a].at # "over", r.at # "waiting",
         runtime = "private" => runtime' = "private",
         runtime # "absent" => runtime' # "absent",
         r.want.form = "create" /\ r.verdict = "ok" => Honest(a)
  PROVE  IInv'
<1>1. /\ DOMAIN actor' = Actors /\ actor'[a] = r
      /\ \A b \in Actors \ {a} : actor'[b] = actor[b]
  BY DEF IInv, ActorsInv
<1>2. ActorsInv'
  <2>1. ASSUME NEW b \in Actors \ {a} PROVE Fit(actor'[b], runtime', daemon'[b])
    BY <1>1 DEF IInv, ActorsInv, Fit
  <2>. QED  BY <1>1, <2>1 DEF ActorsInv, Fit
<1>3. DaemonsInv' /\ SocketsInv'
  BY DEF IInv, DaemonsInv, SocketsInv, Own, Path, Binds
<1>4. PidsInv'
  BY <1>1 DEF IInv, PidsInv, Alive
<1>5. HonestStart'
  <2>1. \A b \in Actors : Own(b)' = Own(b) /\ daemon'[b] = daemon[b]
    BY DEF Own, Path
  <2>2. ASSUME NEW b \in Actors, actor'[b].want.form = "create", actor'[b].verdict = "ok",
               daemon[b].age = 0
        PROVE  \E l \in Actors \ {b} : daemon[l].at \in {"aborted", "killed"} /\ Own(l) = Own(b)
    BY <1>1, <2>2 DEF IInv, HonestStart, Honest
  <2>. QED  BY <2>1, <2>2 DEF HonestStart
<1>. QED  BY <1>2, <1>3, <1>4, <1>5 DEF IInv

\* The sockets that may be there after daemon l has become d.
SocketsOf(l, d, p, f) ==
  \/ p \in DOMAIN files /\ f = files[p] /\ (f = l => Binds(l, d))
  \/ p = Own(l) /\ f = l /\ Binds(l, d)

LEMMA DaemonMoves ==
  ASSUME IInv, NEW l \in Actors, NEW d, daemon' = [daemon EXCEPT ![l] = d],
         UNCHANGED <<actor, runtime>>, Alive(l),
         DOMAIN d = {"at", "pid", "name", "age"}, d.at # "none",
         d.pid = daemon[l].pid, d.name = daemon[l].name,
         d.age \in Nat, d.age = 0 => daemon[l].age = 0,
         \A p \in DOMAIN files' : SocketsOf(l, d, p, files'[p])
  PROVE  IInv'
<1>1. /\ DOMAIN daemon' = Actors /\ daemon'[l] = d
      /\ \A b \in Actors \ {l} : daemon'[b] = daemon[b]
  BY DEF IInv, DaemonsInv
<1>2. \A b \in Actors : Own(b)' = Own(b) /\ daemon'[b].pid = daemon[b].pid
  BY <1>1 DEF Own, Path
<1>3. \A b \in Actors : (daemon'[b].at = "none" <=> daemon[b].at = "none") /\ (Alive(b)' => Alive(b))
  BY <1>1 DEF Alive
<1>4. ActorsInv'
  BY <1>3 DEF IInv, ActorsInv, Fit
<1>5. DaemonsInv'
  BY <1>1, <1>3 DEF IInv, DaemonsInv, Alive
<1>6. SocketsInv'
  BY <1>1, <1>2 DEF IInv, SocketsInv, SocketsOf, Binds
<1>7. PidsInv'
  BY <1>2, <1>3 DEF IInv, PidsInv
<1>8. HonestStart'
  <2>1. \A b \in Actors : daemon'[b].age = 0 => daemon[b].age = 0
    BY <1>1 DEF IInv, DaemonsInv
  <2>2. \A b \in Actors : daemon[b].at \in {"aborted", "killed"} => daemon'[b].at = daemon[b].at
    BY <1>1 DEF Alive
  <2>. QED  BY <1>2, <2>1, <2>2 DEF IInv, HonestStart
<1>. QED  BY <1>4, <1>5, <1>6, <1>7, <1>8 DEF IInv

LEMMA SpawnStep == ASSUME IInv, NEW a \in Actors, Spawn(a) PROVE IInv'
<1>. USE DEF IInv, ActorsInv, DaemonsInv, Fit
<1>1. actor[a].at = "opened" /\ daemon[a].at = "none" /\ UNCHANGED <<runtime, files>>
  BY DEF Spawn, Starts
<1>2. CASE Ends(a, "failed") /\ UNCHANGED daemon
  <2>. DEFINE r == [actor[a] EXCEPT !.at = "over", !.verdict = "failed"]
  <2>1. actor' = [actor EXCEPT ![a] = r] /\ Fit(r, runtime', daemon[a]) /\ r.at = "over" /\ r.verdict = "failed"
    BY <1>1, <1>2 DEF Ends, Past, Errand
  <2>. QED  BY <1>1, <1>2, <2>1, ActorMoves
<1>3. CASE \E p \in Pids : PidFree(p) /\ Goes(a, "waiting")
             /\ daemon' = [daemon EXCEPT ![a] = [at |-> "starting", pid |-> p,
                                name |-> SessionName(actor[a].want), age |-> 0]]
  <2>1. PICK p \in Pids : PidFree(p) /\ Goes(a, "waiting")
             /\ daemon' = [daemon EXCEPT ![a] = [at |-> "starting", pid |-> p,
                                name |-> SessionName(actor[a].want), age |-> 0]]
    BY <1>3
  <2>2. /\ daemon'[a] = [at |-> "starting", pid |-> p, name |-> SessionName(actor[a].want), age |-> 0]
        /\ DOMAIN daemon' = Actors /\ \A b \in Actors \ {a} : daemon'[b] = daemon[b]
    BY <2>1
  <2>3. /\ actor'[a] = [actor[a] EXCEPT !.at = "waiting"]
        /\ DOMAIN actor' = Actors /\ \A b \in Actors \ {a} : actor'[b] = actor[b]
    BY <2>1 DEF Goes
  <2>4. SessionName(actor[a].want) \in Seq(Parts)
    BY LaunchAssumption DEF SessionName
  <2>5. runtime = "private"
    BY <1>1 DEF Past
  <2>6. ActorsInv'
    <3>1. \A b \in Actors \ {a} : Fit(actor'[b], runtime', daemon'[b])
      BY <1>1, <2>2, <2>3
    <3>2. Fit(actor'[a], runtime', daemon'[a])
      BY <1>1, <2>2, <2>3, <2>5 DEF Errand
    <3>. QED  BY <2>3, <3>1, <3>2
  <2>7. DaemonsInv'
    <3>1. \A b \in Actors \ {a} : daemon'[b] = daemon[b]
      BY <2>2
    <3>2. DOMAIN daemon'[a] = {"at", "pid", "name", "age"} /\ daemon'[a].age = 0
          /\ daemon'[a].name = SessionName(actor[a].want)
      BY <2>2
    <3>3. runtime' = "private" /\ daemon'[a].name \in Seq(Parts)
      BY <1>1, <2>4, <2>5, <3>2
    <3>4. \A l \in Actors : DOMAIN daemon[l] = {"at", "pid", "name", "age"}
                            /\ daemon[l].name \in Seq(Parts) /\ daemon[l].age \in Nat
      <4>. HIDE DEF ActorsInv, Fit
      <4>. QED  OBVIOUS
    <3>5. \A l \in Actors : /\ DOMAIN daemon'[l] = {"at", "pid", "name", "age"}
                            /\ daemon'[l].name \in Seq(Parts) /\ daemon'[l].age \in Nat
      <4>. TAKE l \in Actors
      <4>1. CASE l = a
        BY ONLY <3>2, <3>3, <4>1
      <4>2. CASE l # a
        BY ONLY <3>1, <3>4, <4>2, l \in Actors
      <4>. QED  BY ONLY <4>1, <4>2
    <3>. QED  BY ONLY <2>2, <3>3, <3>5 DEF DaemonsInv
  <2>8. SocketsInv'
    <3>1. SocketsInv
      <4>. HIDE DEF ActorsInv, DaemonsInv, Fit
      <4>. QED  OBVIOUS
    <3>. QED  BY ONLY <1>1, <2>2, <3>1 DEF SocketsInv, Binds, Own, Path
  <2>9. PidsInv'
    <3>1. \A b \in Actors \ {a} : /\ Alive(b)' <=> Alive(b)
                                  /\ daemon'[b].at # "none" /\ daemon'[b].pid = p
                                       => ~Alive(b) /\ actor[b].at = "over"
      BY <2>1, <2>2 DEF PidFree, Alive
    <3>2. daemon'[a].pid = p
      BY <2>2
    <3>3. \A b \in Actors \ {a} : actor'[b] = actor[b] /\ daemon'[b] = daemon[b]
      BY <2>2, <2>3
    <3>4. ASSUME NEW b \in Actors \ {a}, NEW l \in Actors \ {a}, b # l,
                 daemon[b].at # "none", daemon[l].at # "none", daemon[b].pid = daemon[l].pid
          PROVE  ~(Alive(b) /\ Alive(l)) /\ (actor[b].at = "waiting" => ~Alive(l))
      BY <3>4 DEF PidsInv
    <3>. HIDE DEF IInv
    <3>5. ASSUME NEW b \in Actors, NEW l \in Actors, b # l,
                 daemon'[b].at # "none", daemon'[l].at # "none", daemon'[b].pid = daemon'[l].pid
          PROVE  ~(Alive(b)' /\ Alive(l)') /\ (actor'[b].at = "waiting" => ~Alive(l)')
      <4>1. CASE b = a
        BY <3>1, <3>2, <3>5, <4>1
      <4>2. CASE l = a
        BY <3>1, <3>2, <3>3, <3>5, <4>2
      <4>3. CASE b # a /\ l # a
        BY <3>1, <3>3, <3>4, <3>5, <4>3
      <4>. QED  BY <4>1, <4>2, <4>3
    <3>. QED  BY ONLY <3>5 DEF PidsInv
  <2>10. HonestStart'
    <3>1. \A b \in Actors : actor'[b].verdict = "ok" => b # a
      BY <1>1, <2>3
    <3>2. \A b \in Actors \ {a} : Own(b)' = Own(b)
      BY <2>2 DEF Own, Path
    <3>3. ASSUME NEW b \in Actors \ {a}, actor'[b].want.form = "create",
                 actor'[b].verdict = "ok", daemon'[b].age = 0
          PROVE  \E l \in Actors \ {b} : daemon'[l].at \in {"aborted", "killed"} /\ Own(l)' = Own(b)'
      <4>1. PICK l \in Actors \ {b} : daemon[l].at \in {"aborted", "killed"} /\ Own(l) = Own(b)
        BY <2>2, <2>3, <3>3 DEF HonestStart
      <4>2. l # a
        BY <1>1, <4>1
      <4>3. daemon'[l].at \in {"aborted", "killed"} /\ Own(l)' = Own(b)'
        BY <2>2, <3>2, <3>3, <4>1, <4>2
      <4>. QED  BY <4>3
    <3>. QED  BY <3>1, <3>3 DEF HonestStart
  <2>. QED  BY <2>6, <2>7, <2>8, <2>9, <2>10
<1>. QED  BY <1>2, <1>3 DEF Spawn

-----------------------------------------------------------------------------
(* The steps of a run of screen.                                           *)

LEMMA GoesOn ==
  ASSUME IInv, NEW a \in Actors, NEW stage, Goes(a, stage), UNCHANGED <<files, daemon>>,
         stage \notin {"waiting", "over"}, actor[a].at \notin {"waiting", "over"},
         stage \in Past => runtime' = "private", stage = "making" => runtime' # "absent",
         Errand(stage, actor[a].want.form),
         runtime = "private" => runtime' = "private",
         runtime # "absent" => runtime' # "absent"
  PROVE  IInv'
<1>. DEFINE r == [actor[a] EXCEPT !.at = stage]
<1>1. Fit(actor[a], runtime, daemon[a]) /\ DOMAIN actor = Actors
  BY DEF IInv, ActorsInv
<1>2. actor' = [actor EXCEPT ![a] = r]
  BY <1>1 DEF Goes
<1>3. r.at = stage /\ r.want = actor[a].want /\ r.verdict = actor[a].verdict /\ DOMAIN r = DOMAIN actor[a]
  BY <1>1 DEF Fit
<1>4. Fit(r, runtime', daemon[a]) /\ r.verdict = "none"
  BY <1>1, <1>3 DEF Fit
<1>. HIDE DEF r
<1>. QED  BY <1>2, <1>3, <1>4, ActorMoves

LEMMA EndsSo ==
  ASSUME IInv, NEW a \in Actors, NEW v, Ends(a, v), UNCHANGED <<runtime, files, daemon>>,
         actor[a].at # "over", actor[a].want.form = "create" /\ v = "ok" => Honest(a)
  PROVE  IInv'
<1>. DEFINE r == [actor[a] EXCEPT !.at = "over", !.verdict = v]
<1>1. Fit(actor[a], runtime, daemon[a]) /\ DOMAIN actor = Actors
  BY DEF IInv, ActorsInv
<1>2. actor' = [actor EXCEPT ![a] = r]
  BY <1>1 DEF Ends
<1>3. r.at = "over" /\ r.want = actor[a].want /\ r.verdict = v /\ DOMAIN r = DOMAIN actor[a]
  BY <1>1 DEF Fit
<1>4. Fit(r, runtime', daemon[a])
  BY <1>1, <1>3 DEF Fit, Past, Errand
<1>. HIDE DEF r
<1>. QED  BY <1>2, <1>3, <1>4, ActorMoves

LEMMA OpeningStep ==
  ASSUME IInv, NEW a \in Actors, OpenRuntime(a) \/ MakeRuntime(a) \/ RestrictRuntime(a)
  PROVE  IInv'
<1>1. CASE OpenRuntime(a)
  <2>1. actor[a].at = "idle" /\ UNCHANGED <<runtime, files, daemon>>
    BY <1>1 DEF OpenRuntime
  <2>2. CASE runtime = "absent" /\ Goes(a, "missing")
    BY <2>1, <2>2, GoesOn DEF Past, Errand
  <2>3. CASE runtime = "private" /\ Goes(a, "opened")
    BY <2>1, <2>3, GoesOn DEF Past, Errand
  <2>4. CASE Ends(a, "failed")
    BY <2>1, <2>4, EndsSo
  <2>. QED  BY <1>1, <2>2, <2>3, <2>4 DEF OpenRuntime, Trusted
<1>2. CASE MakeRuntime(a)
  BY <1>2, GoesOn DEF MakeRuntime, Past, Errand
<1>3. CASE RestrictRuntime(a)
  BY <1>3, GoesOn DEF RestrictRuntime, Past, Errand
<1>. QED  BY <1>1, <1>2, <1>3

LEMMA FirstOfPath ==
  ASSUME NEW p, NEW q, NEW n \in Seq(Parts), NEW m \in Seq(Parts), Path(p, n) = Path(q, m)
  PROVE  p = q
BY DEF Path

LEMMA StartedStep == ASSUME IInv, NEW a \in Actors, Started(a) PROVE IInv'
<1>1. /\ actor[a].at = "waiting" /\ Own(a) \in DOMAIN files
      /\ UNCHANGED <<runtime, files, daemon>>
  BY DEF Started, Seen
<1>2. Fit(actor[a], runtime, daemon[a]) /\ DOMAIN actor = Actors
  BY DEF IInv, ActorsInv
<1>3. Honest(a)
  <2>1. PICK l \in Actors : l = files[Own(a)] /\ Own(l) = Own(a) /\ Binds(l, daemon[l])
    BY <1>1 DEF IInv, SocketsInv
  <2>2. CASE l = a
    BY <2>1, <2>2 DEF Binds, Honest
  <2>3. CASE l # a
    <3>1. daemon[l].pid = daemon[a].pid
      <4>1. Path(daemon[l].pid, daemon[l].name) = Path(daemon[a].pid, daemon[a].name)
        BY <2>1 DEF Own
      <4>. QED  BY <4>1, FirstOfPath DEF IInv, DaemonsInv
    <3>2. daemon[a].at # "none"
      BY <1>1, <1>2 DEF Fit
    <3>3. ~Alive(l)
      BY <1>1, <2>1, <2>3, <3>1, <3>2 DEF IInv, PidsInv, Binds
    <3>. QED  BY <2>1, <2>3, <3>3 DEF Alive, Binds, Honest
  <2>. QED  BY <2>2, <2>3
<1>4. CASE Ends(a, "ok")
  BY <1>1, <1>3, <1>4, EndsSo
<1>5. CASE actor' = [actor EXCEPT ![a].at = "idle", ![a].want.form = "attach",
                                  ![a].want.name = SessionName(actor[a].want),
                                  ![a].want.aggressive = FALSE]
  <2>. DEFINE r == [actor[a] EXCEPT !.at = "idle", !.want.form = "attach",
                                    !.want.name = SessionName(actor[a].want),
                                    !.want.aggressive = FALSE]
  <2>1. actor' = [actor EXCEPT ![a] = r]
    BY <1>2, <1>5
  <2>2. /\ DOMAIN r = DOMAIN actor[a] /\ r.at = "idle" /\ r.verdict = "none"
        /\ DOMAIN r.want = DOMAIN actor[a].want /\ r.want.form = "attach"
        /\ r.want.name = SessionName(actor[a].want)
    BY <1>1, <1>2 DEF Fit
  <2>3. SessionName(actor[a].want) \in Seq(Parts)
    BY <1>2, LaunchAssumption DEF SessionName, Fit
  <2>4. Fit(r, runtime', daemon[a])
    BY <1>2, <2>2, <2>3 DEF Fit, Past, Errand
  <2>. HIDE DEF r
  <2>. QED  BY <1>1, <2>1, <2>2, <2>4, ActorMoves
<1>. QED  BY <1>4, <1>5 DEF Started

LEMMA WaitingStep ==
  ASSUME IInv, NEW a \in Actors, ChildExited(a) \/ GaveUp(a)
  PROVE  IInv'
BY EndsSo DEF ChildExited, GaveUp
-----------------------------------------------------------------------------
(* Who looks for sessions has got past the directory.                      *)

LEMMA FurtherOn ==
  ASSUME IInv, NEW a \in Actors, NEW stage, Goes(a, stage), UNCHANGED <<runtime, files, daemon>>,
         stage \notin {"waiting", "over", "making"}, Errand(stage, actor[a].want.form),
         actor[a].at \in Past \ {"waiting"}
  PROVE  IInv'
<1>1. runtime = "private" /\ actor[a].at \notin {"waiting", "over"}
  BY DEF IInv, ActorsInv, Fit, Past
<1>. QED  BY <1>1, GoesOn

\* A run that takes up another want, or is attached.
LEMMA TurnsTo ==
  ASSUME IInv, NEW a \in Actors, NEW r, actor' = [actor EXCEPT ![a] = r],
         UNCHANGED <<runtime, files, daemon>>,
         actor[a].at \in Past \ {"waiting"}, r.at \in {"idle", "opened", "attached"},
         DOMAIN r = DOMAIN actor[a], r.verdict = actor[a].verdict,
         DOMAIN r.want = DOMAIN actor[a].want, r.want.name = actor[a].want.name,
         r.want.form = "attach" \/ actor[a].want.form # "attach",
         r.at = "attached" => r.want.form \in {"attach", "reattach"}
  PROVE  IInv'
<1>1. Fit(actor[a], runtime, daemon[a])
  BY DEF IInv, ActorsInv
<1>2. Fit(r, runtime', daemon[a]) /\ r.verdict = "none"
  BY <1>1 DEF Fit, Past, Errand
<1>3. actor[a].at # "over" /\ r.at # "waiting"
  BY DEF Past
<1>. QED  BY <1>2, <1>3, ActorMoves

LEMMA Stutters == ASSUME IInv, UNCHANGED <<runtime, files, daemon, actor>> PROVE IInv'
<1>1. ActorsInv' /\ DaemonsInv'
  BY DEF IInv, ActorsInv, DaemonsInv
<1>2. SocketsInv' /\ PidsInv'
  BY DEF IInv, SocketsInv, PidsInv, Own, Path, Alive
<1>3. HonestStart'
  BY DEF IInv, HonestStart, Own, Path
<1>. QED  BY <1>1, <1>2, <1>3 DEF IInv

LEMMA ProbingStep ==
  ASSUME IInv, NEW a \in Actors, Read(a) \/ Probe(a) \/ Date(a) \/ Show(a) \/ Leave(a)
  PROVE  IInv'
<1>1. CASE Read(a)
  BY <1>1, FurtherOn, EndsSo DEF Read, Starts, Past, Errand
<1>2. CASE Probe(a) \/ Date(a)
  <2>1. UNCHANGED <<runtime, files, daemon, actor>>
    BY <1>2 DEF Probe, Date
  <2>. QED  BY <2>1, Stutters
<1>3. CASE Show(a)
  <2>1. PICK v : Ends(a, v)
    BY <1>3 DEF Show
  <2>. QED  BY <1>3, <2>1, EndsSo DEF Show, Scanned
<1>4. CASE Leave(a)
  <2>1. actor[a].want.form # "create"
    BY <1>4 DEF Leave, IInv, ActorsInv, Fit, Errand
  <2>. QED  BY <1>4, <2>1, EndsSo DEF Leave
<1>. QED  BY <1>1, <1>2, <1>3, <1>4
LEMMA ChooseStep == ASSUME IInv, NEW a \in Actors, Choose(a) PROVE IInv'
<1>1. /\ actor[a].at = "scanning" /\ actor[a].want.form \in {"attach", "reattach"}
      /\ UNCHANGED <<runtime, files, daemon>>
  BY DEF Choose, Scanned
<1>2. CASE Goes(a, "connecting")
  BY <1>1, <1>2, FurtherOn DEF Past, Errand
<1>3. CASE Ends(a, "missing") \/ Ends(a, "ambiguous")
  BY <1>1, <1>3, EndsSo
<1>4. CASE /\ actor[a].want.form # "attach"
           /\ actor' = [actor EXCEPT ![a].at = "idle", ![a].want.form = "screen"]
  <2>. DEFINE r == [actor[a] EXCEPT !.at = "idle", !.want.form = "screen"]
  <2>1. Fit(actor[a], runtime, daemon[a]) /\ DOMAIN actor = Actors
    BY DEF IInv, ActorsInv
  <2>2. actor' = [actor EXCEPT ![a] = r]
    BY <1>4, <2>1
  <2>3. /\ DOMAIN r = DOMAIN actor[a] /\ r.at = "idle" /\ r.verdict = actor[a].verdict
        /\ DOMAIN r.want = DOMAIN actor[a].want /\ r.want.name = actor[a].want.name
    BY <2>1 DEF Fit
  <2>. HIDE DEF r
  <2>. QED  BY <1>1, <1>4, <2>2, <2>3, TurnsTo DEF Past
<1>. QED  BY <1>2, <1>3, <1>4 DEF Choose

LEMMA ConnectStep == ASSUME IInv, NEW a \in Actors, Connect(a) PROVE IInv'
<1>1. actor[a].at = "connecting" /\ UNCHANGED <<runtime, files, daemon>>
  BY DEF Connect
<1>2. CASE Ends(a, "failed")
  BY <1>1, <1>2, EndsSo
<1>3. CASE actor' = [actor EXCEPT ![a].at = "attached", ![a].reached = files[scan[a].target]]
  <2>. DEFINE r == [actor[a] EXCEPT !.at = "attached", !.reached = files[scan[a].target]]
  <2>1. Fit(actor[a], runtime, daemon[a]) /\ DOMAIN actor = Actors
    BY DEF IInv, ActorsInv
  <2>2. actor' = [actor EXCEPT ![a] = r]
    BY <1>3, <2>1
  <2>3. /\ DOMAIN r = DOMAIN actor[a] /\ r.at = "attached" /\ r.verdict = actor[a].verdict
        /\ r.want = actor[a].want /\ r.want.form \in {"attach", "reattach"}
    BY <1>1, <2>1 DEF Fit, Errand
  <2>4. r.want.form = "attach" \/ actor[a].want.form # "attach"
    BY <2>3
  <2>. HIDE DEF r
  <2>. QED  BY <1>1, <2>2, <2>3, <2>4, TurnsTo DEF Past
<1>. QED  BY <1>2, <1>3 DEF Connect

\* A socket is removed.
LEMMA FilesGo ==
  ASSUME IInv, NEW p, files' = Without(p), UNCHANGED <<runtime, daemon, actor>>
  PROVE  IInv'
<1>1. DOMAIN files' \subseteq DOMAIN files /\ \A q \in DOMAIN files' : files'[q] = files[q]
  BY DEF Without
<1>2. ActorsInv' /\ DaemonsInv' /\ PidsInv'
  BY DEF IInv, ActorsInv, DaemonsInv, PidsInv, Alive
<1>3. SocketsInv' /\ HonestStart'
  BY <1>1 DEF IInv, SocketsInv, HonestStart, Own, Path
<1>. QED  BY <1>2, <1>3 DEF IInv

LEMMA WipingStep ==
  ASSUME IInv, NEW a \in Actors, Sweep(a) \/ Remove(a) \/ Swept(a)
  PROVE  IInv'
<1>1. CASE Sweep(a)
  BY <1>1, FurtherOn DEF Sweep, Scanned, Past, Errand
<1>2. CASE Remove(a)
  <2>1. PICK p : \/ p \in DOMAIN files /\ files' = Without(p) /\ UNCHANGED actor
                 \/ Ends(a, "failed") /\ UNCHANGED files
    BY <1>2 DEF Remove
  <2>2. UNCHANGED <<runtime, daemon>> /\ actor[a].at = "removing"
    BY <1>2 DEF Remove
  <2>3. CASE files' = Without(p) /\ UNCHANGED actor
    BY <2>2, <2>3, FilesGo
  <2>4. CASE Ends(a, "failed") /\ UNCHANGED files
    BY <2>2, <2>4, EndsSo
  <2>. QED  BY <2>1, <2>3, <2>4
<1>3. CASE Swept(a)
  <2>. DEFINE r == [actor[a] EXCEPT !.at = "opened", !.want.form = "list"]
  <2>1. Fit(actor[a], runtime, daemon[a]) /\ DOMAIN actor = Actors
    BY DEF IInv, ActorsInv
  <2>2. /\ actor' = [actor EXCEPT ![a] = r] /\ UNCHANGED <<runtime, files, daemon>>
        /\ actor[a].at = "removing"
    BY <1>3, <2>1 DEF Swept
  <2>3. /\ DOMAIN r = DOMAIN actor[a] /\ r.at = "opened" /\ r.verdict = actor[a].verdict
        /\ DOMAIN r.want = DOMAIN actor[a].want /\ r.want.name = actor[a].want.name
    BY <2>1 DEF Fit
  <2>4. actor[a].want.form # "attach"
    BY <2>1, <2>2 DEF Fit, Errand
  <2>. HIDE DEF r
  <2>. QED  BY <2>2, <2>3, <2>4, TurnsTo DEF Past
<1>. QED  BY <1>1, <1>2, <1>3

-----------------------------------------------------------------------------
(* The daemons.                                                            *)

\* A daemon that moves on, its socket as it was.
LEMMA MovesOn ==
  ASSUME IInv, NEW l \in Actors, NEW stage, Moves(l, stage), UNCHANGED <<runtime, files, actor>>,
         Alive(l), stage # "none",
         stage \in {"starting", "ended"} => ~\E p \in DOMAIN files : files[p] = l
  PROVE  IInv'
<1>. DEFINE d == [daemon[l] EXCEPT !.at = stage]
<1>1. /\ DOMAIN daemon = Actors /\ DOMAIN daemon[l] = {"at", "pid", "name", "age"}
      /\ daemon[l].age \in Nat
  BY DEF IInv, DaemonsInv
<1>2. daemon' = [daemon EXCEPT ![l] = d]
  BY <1>1 DEF Moves
<1>3. /\ DOMAIN d = {"at", "pid", "name", "age"} /\ d.at = stage
      /\ d.pid = daemon[l].pid /\ d.name = daemon[l].name /\ d.age = daemon[l].age
  BY <1>1
<1>. HIDE DEF d
<1>4. \A p \in DOMAIN files : SocketsOf(l, d, p, files[p])
  BY <1>3 DEF IInv, SocketsInv, SocketsOf, Binds
<1>. QED  BY <1>1, <1>2, <1>3, <1>4, DaemonMoves

LEMMA CloseStep ==
  ASSUME IInv, NEW l \in Actors, Close(l), UNCHANGED <<runtime, actor>>, Alive(l)
  PROVE  IInv'
<1>. DEFINE d == [daemon[l] EXCEPT !.at = "ended"]
<1>1. /\ DOMAIN daemon = Actors /\ DOMAIN daemon[l] = {"at", "pid", "name", "age"}
      /\ daemon[l].age \in Nat
  BY DEF IInv, DaemonsInv
<1>2. daemon' = [daemon EXCEPT ![l] = d]
  BY <1>1 DEF Close, Moves
<1>3. /\ DOMAIN d = {"at", "pid", "name", "age"} /\ d.at = "ended"
      /\ d.pid = daemon[l].pid /\ d.name = daemon[l].name /\ d.age = daemon[l].age
  BY <1>1
<1>. HIDE DEF d
<1>4. ASSUME NEW p \in DOMAIN files' PROVE SocketsOf(l, d, p, files'[p])
  <2>1. p \in DOMAIN files /\ files'[p] = files[p] /\ p # Own(l)
    BY DEF Close, Without
  <2>2. files[p] # l
    BY <2>1 DEF IInv, SocketsInv
  <2>. QED  BY <2>1, <2>2 DEF SocketsOf
<1>. QED  BY <1>1, <1>2, <1>3, <1>4, DaemonMoves

LEMMA BindStep == ASSUME IInv, NEW l \in Actors, Bind(l) PROVE IInv'
<1>1. /\ daemon[l].at = "starting" /\ Alive(l) /\ UNCHANGED <<runtime, actor>>
      /\ ~\E p \in DOMAIN files : files[p] = l
  BY DEF Bind, Alive, IInv, SocketsInv, Binds
<1>2. CASE Moves(l, "ended") /\ UNCHANGED files
  BY <1>1, <1>2, MovesOn
<1>3. CASE /\ files' = With(Own(l), l)
           /\ daemon' = [daemon EXCEPT ![l].at = "bound",
                            ![l].age = 1 + Cardinality({k \in Actors : daemon[k].age > 0})]
  <2>. DEFINE n == Cardinality({k \in Actors : daemon[k].age > 0})
              d == [daemon[l] EXCEPT !.at = "bound", !.age = 1 + n]
  <2>1. n \in Nat
    BY LaunchAssumption, FS_Subset, FS_CardinalityType
  <2>2. /\ DOMAIN daemon = Actors /\ DOMAIN daemon[l] = {"at", "pid", "name", "age"}
        /\ daemon[l].age \in Nat
    BY DEF IInv, DaemonsInv
  <2>. HIDE DEF n
  <2>3. daemon' = [daemon EXCEPT ![l] = d]
    BY <1>3, <2>2 DEF n
  <2>4. /\ DOMAIN d = {"at", "pid", "name", "age"} /\ d.at = "bound"
        /\ d.pid = daemon[l].pid /\ d.name = daemon[l].name /\ d.age = 1 + n
    BY <2>2
  <2>. HIDE DEF d
  <2>5. \A p \in DOMAIN files' : SocketsOf(l, d, p, files'[p])
    BY <1>1, <1>3, <2>1, <2>4 DEF SocketsOf, Binds, With
  <2>6. d.age \in Nat /\ d.age # 0
    BY <2>1, <2>4
  <2>. QED  BY <1>1, <2>3, <2>4, <2>5, <2>6, DaemonMoves
<1>. QED  BY <1>2, <1>3 DEF Bind
LEMMA DaemonStep ==
  ASSUME IInv, NEW l \in Actors,
         Listen(l) \/ Guard(l) \/ SetUp(l) \/ Finish(l) \/ Kill(l)
  PROVE  IInv'
<1>1. CASE Listen(l)
  BY <1>1, MovesOn DEF Listen, Alive
<1>2. CASE Guard(l)
  <2>1. /\ daemon[l].at = "listening" /\ Alive(l) /\ UNCHANGED <<runtime, files, actor>>
        /\ Moves(l, "guarded") \/ Moves(l, "aborted")
    BY <1>2 DEF Guard, Alive
  <2>. QED  BY <2>1, MovesOn
<1>3. CASE SetUp(l)
  BY <1>3, MovesOn, CloseStep DEF SetUp, Alive
<1>4. CASE Finish(l)
  BY <1>4, CloseStep DEF Finish, Alive
<1>5. CASE Kill(l)
  BY <1>5, MovesOn DEF Kill
<1>. QED  BY <1>1, <1>2, <1>3, <1>4, <1>5

-----------------------------------------------------------------------------
(* The theorems.                                                           *)

LEMMA Start == Init => IInv
<1>. SUFFICES ASSUME Init PROVE IInv
  OBVIOUS
<1>1. PICK s \in Scenarios :
    /\ runtime = s.runtime
    /\ actor = [a \in Actors |->
         [want |-> s.wants[a], verdict |-> "none", reached |-> a,
          at |-> IF a \in DOMAIN s.before \/ s.wants[a].form = "nothing" THEN "over" ELSE "idle"]]
    /\ daemon = [a \in Actors |-> IF a \in DOMAIN s.before THEN s.before[a] ELSE NoDaemon]
    /\ files = [p \in {<<s.before[a].pid>> \o s.before[a].name : a \in DOMAIN s.before} |->
                  CHOOSE a \in DOMAIN s.before : p = <<s.before[a].pid>> \o s.before[a].name]
  BY DEF Init
<1>. DEFINE B == DOMAIN s.before
<1>2. /\ B \subseteq Actors /\ (B # {} => runtime = "private")
      /\ \A a \in B : s.before[a] \in [at : {"serving", "killed"}, pid : Pids, name : Seq(Parts),
                                       age : Nat \ {0}]
      /\ \A a, b \in B : s.before[a].pid = s.before[b].pid => a = b
  BY <1>1, LaunchAssumption
<1>3. /\ \A a \in B : daemon[a] = s.before[a]
      /\ \A a \in Actors \ B : daemon[a] = NoDaemon
  BY <1>1, <1>2
<1>4. ActorsInv
  <2>1. ASSUME NEW a \in Actors PROVE Fit(actor[a], runtime, daemon[a])
    <3>1. DOMAIN s.wants[a] = {"form", "name", "aggressive"} /\ s.wants[a].name \in Seq(Parts)
      BY LaunchAssumption
    <3>2. actor[a].at = "idle" => daemon[a].at = "none"
      BY <1>1, <1>3 DEF NoDaemon
    <3>3. /\ actor[a].at \in {"idle", "over"} /\ actor[a].verdict = "none"
          /\ actor[a].want = s.wants[a]
          /\ DOMAIN actor[a] = {"want", "verdict", "reached", "at"}
      BY <1>1
    <3>. QED  BY <3>1, <3>2, <3>3 DEF Fit, Past, Errand
  <2>. QED  BY <1>1, <2>1 DEF ActorsInv
<1>5. DaemonsInv
  <2>1. << >> \in Seq(Parts)
    OBVIOUS
  <2>2. ASSUME NEW a \in Actors
        PROVE  /\ DOMAIN daemon[a] = {"at", "pid", "name", "age"}
               /\ daemon[a].name \in Seq(Parts) /\ daemon[a].age \in Nat
               /\ daemon[a].at # "none" => runtime = "private"
    <3>1. CASE a \in B
      <4>1. daemon[a] \in [at : {"serving", "killed"}, pid : Pids, name : Seq(Parts), age : Nat \ {0}]
        BY <1>2, <1>3, <3>1
      <4>. QED  BY <1>2, <3>1, <4>1
    <3>2. CASE a \notin B
      <4>1. daemon[a] = [at |-> "none", pid |-> 0, name |-> << >>, age |-> 0]
        BY <1>3, <3>2 DEF NoDaemon
      <4>2. /\ DOMAIN daemon[a] = {"at", "pid", "name", "age"} /\ daemon[a].at = "none"
            /\ daemon[a].name = << >> /\ daemon[a].age = 0
        BY <4>1
      <4>. QED  BY <2>1, <4>2
    <3>. QED  BY <3>1, <3>2
  <2>. QED  BY <1>1, <2>2 DEF DaemonsInv
<1>6. SocketsInv
  <2>1. ASSUME NEW p \in DOMAIN files
        PROVE  files[p] \in B /\ p = <<s.before[files[p]].pid>> \o s.before[files[p]].name
    BY <1>1, <2>1
  <2>2. ASSUME NEW p \in DOMAIN files
        PROVE  files[p] \in Actors /\ Own(files[p]) = p /\ Binds(files[p], daemon[files[p]])
    <3>1. daemon[files[p]] = s.before[files[p]] /\ files[p] \in Actors
      BY <1>2, <1>3, <2>1
    <3>2. daemon[files[p]].at \in {"serving", "killed"} /\ daemon[files[p]].age \in Nat \ {0}
      BY <1>2, <2>1, <3>1
    <3>. QED  BY <2>1, <3>1, <3>2 DEF Own, Path, Binds
  <2>. QED  BY <2>2 DEF SocketsInv
<1>7. PidsInv
  BY <1>2, <1>3 DEF PidsInv, NoDaemon
<1>8. HonestStart
  BY <1>1 DEF HonestStart
<1>. QED  BY <1>4, <1>5, <1>6, <1>7, <1>8 DEF IInv

LEMMA Step == IInv /\ [Next]_vars => IInv'
<1>. SUFFICES ASSUME IInv, [Next]_vars PROVE IInv'
  OBVIOUS
<1>1. CASE \E a \in Actors : OpenRuntime(a) \/ MakeRuntime(a) \/ RestrictRuntime(a)
  BY <1>1, OpeningStep
<1>2. CASE \E a \in Actors : Spawn(a) \/ Started(a) \/ ChildExited(a) \/ GaveUp(a)
  BY <1>2, SpawnStep, StartedStep, WaitingStep
<1>3. CASE \E a \in Actors : Read(a) \/ Probe(a) \/ Date(a) \/ Choose(a) \/ Connect(a) \/ Show(a)
  BY <1>3, ProbingStep, ChooseStep, ConnectStep
<1>4. CASE \E a \in Actors : Sweep(a) \/ Remove(a) \/ Swept(a) \/ Leave(a)
  BY <1>4, WipingStep, ProbingStep
<1>5. CASE \E l \in Actors : Bind(l) \/ Listen(l) \/ Guard(l) \/ SetUp(l) \/ Finish(l) \/ Kill(l)
  BY <1>5, BindStep, DaemonStep
<1>6. CASE UNCHANGED vars
  BY <1>6, Stutters DEF vars
<1>. QED  BY <1>1, <1>2, <1>3, <1>4, <1>5, <1>6 DEF Next

LEMMA AlwaysIInv == Spec => []IInv
BY Start, Step, PTL DEF Spec

(* However many runs of screen make the directory at once, and whatever    *)
(* the mask gave it at first, no socket is ever in one that others can     *)
(* write to.                                                               *)
THEOREM SocketsStayPrivate == Spec => []SocketsArePrivate
<1>1. IInv => SocketsArePrivate
  BY DEF IInv, SocketsInv, Binds, DaemonsInv, SocketsArePrivate
<1>. QED  BY <1>1, AlwaysIInv, PTL

(* Every socket in the directory is that of a daemon that is alive, that   *)
(* was killed, or that failed between its bind and its cleanup: no other   *)
(* way for a daemon to end leaves one.                                     *)
THEOREM EndsLeaveNothing == Spec => []NothingLeftBehind
<1>1. IInv => NothingLeftBehind
  BY DEF IInv, SocketsInv, Binds, NothingLeftBehind
<1>. QED  BY <1>1, AlwaysIInv, PTL

(* What a starter reports as started has bound its socket, but for the old *)
(* socket of a dead daemon whose pid has come round.                       *)
THEOREM StartsAreHonest == Spec => []HonestStart
<1>1. IInv => HonestStart
  BY DEF IInv
<1>. QED  BY <1>1, AlwaysIInv, PTL
-----------------------------------------------------------------------------
(* What a command has learnt, while it looks at the sockets one by one.    *)

Lasting(l) == daemon[l].at \in {"listening", "guarded", "serving", "ended", "aborted", "killed"}
Over(l)    == daemon[l].at \in {"ended", "aborted", "killed"}
Looking(a) == actor[a].at \in {"scanning", "removing"}
Denied(a)  == actor[a].verdict = "missing" \/ actor[a].want.form = "screen"

(* A session that is there all the while is among the active once it has   *)
(* been looked at, and never among the stale; what a dead one has left is. *)
LookInv ==
  /\ DOMAIN scan = Actors
  /\ \A a \in Actors :
       /\ DOMAIN scan[a] = {"todo", "active", "stale", "ages", "target", "there", "gone"}
       /\ \A l \in scan[a].there : l \in Actors /\ Lasting(l)
       /\ \A l \in scan[a].gone : l \in Actors /\ Over(l)
       /\ actor[a].at = "removing" => scan[a].todo = {}
       /\ actor[a].at = "scanning" =>
            \A l \in scan[a].there : Settled(l) => Own(l) \in scan[a].todo \union scan[a].active
       /\ Looking(a) =>
            /\ \A l \in scan[a].there : Settled(l) => Own(l) \notin scan[a].stale
            /\ \A p \in DOMAIN files :
                 files[p] \in scan[a].gone => p \in scan[a].todo \union scan[a].stale

\* No step brings a daemon back, or a socket that is gone.
Steady ==
  /\ \A l \in Actors :
       /\ Lasting(l) => Lasting(l)' /\ Own(l)' = Own(l) /\ (Settled(l)' => Settled(l))
                        /\ daemon'[l].name = daemon[l].name
       /\ Over(l) => Over(l)'
  /\ \A p \in DOMAIN files' : files'[p] \in Actors /\ Over(files'[p])
                               => p \in DOMAIN files /\ files[p] = files'[p]

LEMMA SteadyWhenStill == ASSUME UNCHANGED <<files, daemon>> PROVE Steady
BY DEF Steady, Lasting, Over, Settled, Listens, Own, Path

LEMMA SteadyStep == ASSUME IInv, [Next]_vars PROVE Steady
<1>1. ASSUME NEW l \in Actors, NEW stage, Moves(l, stage), Alive(l),
             stage \in {"bound", "listening"} => ~Lasting(l),
             stage # "starting", Lasting(l) => stage \in {"guarded", "serving", "ended", "aborted", "killed"},
             \A p \in DOMAIN files' : p \in DOMAIN files /\ files'[p] = files[p]
      PROVE  Steady
  <2>1. /\ \A b \in Actors \ {l} : daemon'[b] = daemon[b]
        /\ daemon'[l].at = stage /\ daemon'[l].pid = daemon[l].pid
        /\ daemon'[l].name = daemon[l].name
    BY <1>1 DEF Moves, IInv, DaemonsInv
  <2>2. \A b \in Actors : Own(b)' = Own(b)
    BY <2>1 DEF Own, Path
  <2>3. \A b \in Actors : (Over(b) => Over(b)') /\ (Lasting(b) => Lasting(b)')
    BY <1>1, <2>1 DEF Over, Lasting, Alive
  <2>4. ASSUME NEW b \in Actors, Lasting(b), Settled(b)' PROVE Settled(b)
    BY <1>1, <2>1, <2>2, <2>4 DEF Settled, Listens, Lasting, Alive
  <2>. QED  BY <1>1, <2>1, <2>2, <2>3, <2>4 DEF Steady
<1>2. ASSUME NEW l \in Actors, Bind(l) PROVE Steady
  <2>1. daemon[l].at = "starting" /\ ~Lasting(l) /\ Alive(l)
    BY <1>2 DEF Bind, Lasting, Alive
  <2>2. CASE Moves(l, "ended") /\ UNCHANGED files
    BY <1>1, <2>1, <2>2
  <2>3. CASE /\ files' = With(Own(l), l)
             /\ \A b \in Actors \ {l} : daemon'[b] = daemon[b]
    <3>1. \A b \in Actors \ {l} : Own(b)' = Own(b) /\ (Over(b)' <=> Over(b)) /\ (Lasting(b)' <=> Lasting(b))
                                  /\ (Listens(b)' <=> Listens(b))
      BY <2>3 DEF Own, Path, Over, Lasting, Listens
    <3>2. \A p \in DOMAIN files' : files'[p] # l => p \in DOMAIN files /\ files'[p] = files[p]
      BY <2>3 DEF With
    <3>3. ~Over(l)
      BY <2>1 DEF Over
    <3>4. \A b \in Actors \ {l} : Settled(b)' => Settled(b)
      BY <3>1, <3>2 DEF Settled
    <3>. QED  BY <2>1, <2>3, <3>1, <3>2, <3>3, <3>4 DEF Steady
  <2>. QED  BY <1>2, <2>2, <2>3 DEF Bind, IInv, DaemonsInv
<1>3. ASSUME NEW a \in Actors, Spawn(a) PROVE Steady
  <2>1. /\ UNCHANGED files /\ daemon[a].at = "none"
        /\ \A b \in Actors \ {a} : daemon'[b] = daemon[b]
    BY <1>3 DEF Spawn, Starts, IInv, ActorsInv, DaemonsInv, Fit
  <2>2. \A b \in Actors \ {a} : Own(b)' = Own(b) /\ (Over(b)' <=> Over(b)) /\ (Lasting(b)' <=> Lasting(b))
                                /\ (Listens(b)' <=> Listens(b))
    BY <2>1 DEF Own, Path, Over, Lasting, Listens
  <2>3. ~Over(a) /\ ~Lasting(a)
    BY <2>1 DEF Over, Lasting
  <2>4. \A b \in Actors \ {a} : Settled(b)' => Settled(b)
    BY <2>1, <2>2 DEF Settled
  <2>. QED  BY <2>1, <2>2, <2>3, <2>4 DEF Steady
<1>4. ASSUME NEW l \in Actors, Listen(l) \/ Guard(l) \/ Kill(l) PROVE Steady
  BY <1>1, <1>4 DEF Listen, Guard, Kill, Alive, Lasting
<1>5. ASSUME NEW l \in Actors, SetUp(l) \/ Finish(l) PROVE Steady
  BY <1>1, <1>5 DEF SetUp, Finish, Close, Without, Alive, Lasting
<1>6. ASSUME NEW a \in Actors, Remove(a) PROVE Steady
  <2>1. UNCHANGED daemon /\ \A p \in DOMAIN files' : p \in DOMAIN files /\ files'[p] = files[p]
    BY <1>6 DEF Remove, Without
  <2>. QED  BY <2>1 DEF Steady, Lasting, Over, Settled, Listens, Own, Path
<1>7. ASSUME NEW a \in Actors,
             \/ OpenRuntime(a) \/ MakeRuntime(a) \/ RestrictRuntime(a) \/ Started(a)
             \/ ChildExited(a) \/ GaveUp(a) \/ Read(a) \/ Probe(a) \/ Date(a) \/ Choose(a) \/ Connect(a)
             \/ Show(a) \/ Sweep(a) \/ Swept(a) \/ Leave(a)
      PROVE  Steady
  <2>1. UNCHANGED <<files, daemon>>
    BY <1>7 DEF OpenRuntime, MakeRuntime, RestrictRuntime, Started, ChildExited, GaveUp, Read,
                Probe, Date, Choose, Connect, Show, Sweep, Swept, Leave
  <2>. QED  BY <2>1, SteadyWhenStill
<1>8. CASE UNCHANGED vars
  BY <1>8, SteadyWhenStill DEF vars
<1>. QED  BY <1>2, <1>3, <1>4, <1>5, <1>6, <1>7, <1>8 DEF Next
\* Nothing is learnt or forgotten, and no look begins or ends with a denial.
LEMMA KeepsLooking ==
  ASSUME IInv, LookInv, FoundIfThere, Steady, scan' = scan,
         \A b \in Actors :
           /\ Looking(b)' => actor'[b].at = actor[b].at
           /\ Denied(b)' => Denied(b) /\ actor'[b].want.name = actor[b].want.name
  PROVE  LookInv' /\ FoundIfThere'
<1>1. ASSUME NEW b \in Actors, NEW l \in scan[b].there
      PROVE  /\ l \in Actors /\ Lasting(l)' /\ Own(l)' = Own(l) /\ (Settled(l)' => Settled(l))
             /\ daemon'[l].name = daemon[l].name
  BY <1>1 DEF LookInv, Steady
<1>2. ASSUME NEW b \in Actors, NEW l \in scan[b].gone PROVE l \in Actors /\ Over(l)'
  BY <1>2 DEF LookInv, Steady
<1>3. ASSUME NEW b \in Actors, NEW p \in DOMAIN files', files'[p] \in scan[b].gone
      PROVE  p \in DOMAIN files /\ files[p] \in scan[b].gone
  BY <1>3 DEF LookInv, Steady
<1>4. LookInv'
  <2>1. ASSUME NEW b \in Actors, Looking(b)'
        PROVE  /\ \A l \in scan[b].there : Settled(l)' => Own(l)' \notin scan[b].stale
               /\ \A p \in DOMAIN files' :
                    files'[p] \in scan[b].gone => p \in scan[b].todo \union scan[b].stale
    BY <1>1, <1>3, <2>1 DEF LookInv, Looking
  <2>2. ASSUME NEW b \in Actors, actor'[b].at = "scanning"
        PROVE  \A l \in scan[b].there : Settled(l)' => Own(l)' \in scan[b].todo \union scan[b].active
    BY <1>1, <2>2 DEF LookInv, Looking
  <2>3. \A b \in Actors : actor'[b].at = "removing" => scan[b].todo = {}
    BY DEF LookInv, Looking
  <2>. QED  BY <1>1, <1>2, <2>1, <2>2, <2>3 DEF LookInv
<1>5. FoundIfThere'
  BY <1>1 DEF FoundIfThere, Denied, Meant
<1>. QED  BY <1>4, <1>5

\* An action that gives run a another record, or none, and leaves the rest to the frame.
LEMMA LooksAway ==
  ASSUME IInv, LookInv, FoundIfThere, Steady, scan' = scan, NEW a \in Actors,
         \A b \in Actors \ {a} : actor'[b] = actor[b],
         ~Looking(a)' \/ actor'[a] = actor[a],
         Denied(a)' => Denied(a) /\ actor'[a].want.name = actor[a].want.name
  PROVE  LookInv' /\ FoundIfThere'
BY KeepsLooking DEF Looking, Denied

LEMMA ActorFacts ==
  ASSUME IInv, NEW a \in Actors
  PROVE  /\ DOMAIN actor = Actors
         /\ DOMAIN actor[a] = {"want", "verdict", "reached", "at"}
         /\ DOMAIN actor[a].want = {"form", "name", "aggressive"}
BY DEF IInv, ActorsInv, Fit

LEMMA GoesLooks ==
  ASSUME IInv, LookInv, FoundIfThere, Steady, scan' = scan, NEW a \in Actors,
         NEW stage, Goes(a, stage), stage \notin {"scanning", "removing"}
  PROVE  LookInv' /\ FoundIfThere'
<1>1. /\ \A b \in Actors \ {a} : actor'[b] = actor[b]
      /\ actor'[a].at = stage /\ actor'[a].want = actor[a].want
      /\ actor'[a].verdict = actor[a].verdict
  BY ActorFacts DEF Goes
<1>. QED  BY <1>1, LooksAway DEF Looking, Denied

LEMMA EndsLooks ==
  ASSUME IInv, LookInv, FoundIfThere, Steady, scan' = scan, NEW a \in Actors,
         NEW v, Ends(a, v), v # "missing"
  PROVE  LookInv' /\ FoundIfThere'
<1>1. /\ \A b \in Actors \ {a} : actor'[b] = actor[b]
      /\ actor'[a].at = "over" /\ actor'[a].want = actor[a].want /\ actor'[a].verdict = v
  BY ActorFacts DEF Ends
<1>. QED  BY <1>1, LooksAway DEF Looking, Denied

LEMMA OthersLook ==
  ASSUME IInv, LookInv, FoundIfThere, Steady, NEW a \in Actors,
         \/ OpenRuntime(a) \/ MakeRuntime(a) \/ RestrictRuntime(a) \/ Spawn(a) \/ Started(a)
         \/ ChildExited(a) \/ GaveUp(a) \/ Connect(a) \/ Show(a) \/ Swept(a) \/ Leave(a)
  PROVE  LookInv' /\ FoundIfThere'
<1>1. scan' = scan
  BY DEF OpenRuntime, MakeRuntime, RestrictRuntime, Spawn, Started, ChildExited, GaveUp,
         Connect, Show, Swept, Leave
<1>2. CASE \E stage : Goes(a, stage) /\ stage \notin {"scanning", "removing"}
  BY <1>1, <1>2, GoesLooks
<1>3. CASE \E v : Ends(a, v) /\ v # "missing"
  BY <1>1, <1>3, EndsLooks
<1>4. CASE OpenRuntime(a) \/ MakeRuntime(a) \/ RestrictRuntime(a) \/ Spawn(a)
  BY <1>2, <1>3, <1>4 DEF OpenRuntime, MakeRuntime, RestrictRuntime, Spawn
<1>5. CASE ChildExited(a) \/ GaveUp(a) \/ Show(a) \/ Leave(a)
  BY <1>3, <1>5 DEF ChildExited, GaveUp, Show, Leave
<1>6. CASE Started(a)
  <2>. DEFINE turned == [actor EXCEPT ![a].at = "idle", ![a].want.form = "attach",
                                      ![a].want.name = SessionName(actor[a].want),
                                      ![a].want.aggressive = FALSE]
  <2>1. CASE actor' = turned
    <3>1. /\ \A b \in Actors \ {a} : actor'[b] = actor[b]
          /\ actor'[a].at = "idle" /\ actor'[a].want.form = "attach"
          /\ actor'[a].verdict = actor[a].verdict
      BY <2>1, ActorFacts
    <3>2. actor[a].verdict = "none"
      BY <1>6 DEF Started, IInv, ActorsInv, Fit
    <3>. QED  BY <1>1, <3>1, <3>2, LooksAway DEF Looking, Denied
  <2>2. CASE Ends(a, "ok")
    BY <1>3, <2>2
  <2>3. actor' = turned \/ Ends(a, "ok")
    BY <1>6, Zenon DEF Started
  <2>. QED  BY <2>1, <2>2, <2>3
<1>7. CASE Connect(a)
  <2>1. CASE actor' = [actor EXCEPT ![a].at = "attached", ![a].reached = files[scan[a].target]]
    <3>1. /\ \A b \in Actors \ {a} : actor'[b] = actor[b]
          /\ actor'[a].at = "attached" /\ actor'[a].want = actor[a].want
          /\ actor'[a].verdict = actor[a].verdict
      BY <2>1, ActorFacts
    <3>. QED  BY <1>1, <3>1, LooksAway DEF Looking, Denied
  <2>. QED  BY <1>3, <1>7, <2>1 DEF Connect
<1>8. CASE Swept(a)
  <2>1. actor' = [actor EXCEPT ![a].at = "opened", ![a].want.form = "list"]
    BY <1>8 DEF Swept
  <2>2. /\ \A b \in Actors \ {a} : actor'[b] = actor[b]
        /\ actor'[a].at = "opened" /\ actor'[a].want.form = "list"
        /\ actor'[a].want.name = actor[a].want.name /\ actor'[a].verdict = actor[a].verdict
    BY <2>1, ActorFacts
  <2>. QED  BY <1>1, <2>2, LooksAway DEF Looking, Denied
<1>. QED  BY <1>4, <1>5, <1>6, <1>7, <1>8
LEMMA ReadLooks ==
  ASSUME IInv, LookInv, FoundIfThere, Steady, NEW a \in Actors, Read(a)
  PROVE  LookInv' /\ FoundIfThere'
<1>1. CASE Ends(a, "failed") /\ UNCHANGED scan
  BY <1>1, EndsLooks
<1>. DEFINE n == [NoScan EXCEPT !.todo = DOMAIN files,
                                !.there = {l \in Actors : Settled(l)},
                                !.gone = {files[p] : p \in {q \in DOMAIN files : ~Alive(files[q])}}]
<1>2. CASE Goes(a, "scanning") /\ scan' = [scan EXCEPT ![a] = n]
  <2>1. /\ DOMAIN n = {"todo", "active", "stale", "ages", "target", "there", "gone"}
        /\ n.todo = DOMAIN files /\ n.stale = {} /\ n.there = {l \in Actors : Settled(l)}
        /\ n.gone = {files[p] : p \in {q \in DOMAIN files : ~Alive(files[q])}}
    BY DEF NoScan
  <2>. HIDE DEF n
  <2>2. /\ DOMAIN scan' = Actors /\ scan'[a] = n
        /\ \A b \in Actors \ {a} : scan'[b] = scan[b] /\ actor'[b] = actor[b]
        /\ actor'[a].at = "scanning" /\ actor'[a].want = actor[a].want
        /\ actor'[a].verdict = actor[a].verdict
    BY <1>2, ActorFacts DEF LookInv, Goes
  <2>3. UNCHANGED <<files, daemon>>
    BY DEF Read
  <2>4. \A l \in Actors : (Settled(l)' <=> Settled(l)) /\ Own(l)' = Own(l) /\ (Over(l)' <=> Over(l))
                         /\ (Lasting(l)' <=> Lasting(l))
    BY <2>3 DEF Settled, Own, Path, Over, Lasting, Listens
  <2>5. \A l \in n.there : l \in Actors /\ Lasting(l) /\ Own(l) \in DOMAIN files
    BY <2>1 DEF Settled, Listens, Lasting
  <2>6. \A l \in n.gone : l \in Actors /\ Over(l)
    BY <2>1 DEF IInv, SocketsInv, Binds, Alive, Over
  <2>7. LookInv'
    BY <2>1, <2>2, <2>3, <2>4, <2>5, <2>6 DEF LookInv, Looking
  <2>8. actor[a].verdict = "none" /\ actor[a].want.form # "screen"
    BY DEF Read, Starts, IInv, ActorsInv, Fit
  <2>9. FoundIfThere'
    BY <2>2, <2>3, <2>4, <2>8 DEF LookInv, FoundIfThere, Meant
  <2>. QED  BY <2>7, <2>9
<1>. QED  BY <1>1, <1>2 DEF Read

\* The frame of an action that changes what run a has learnt and nothing else.
LEMMA ScanFrame ==
  ASSUME LookInv, NEW a \in Actors, NEW n, scan' = [scan EXCEPT ![a] = n],
         UNCHANGED <<files, daemon, actor>>,
         DOMAIN n = DOMAIN scan[a], n.there = scan[a].there, n.gone = scan[a].gone,
         actor[a].at = "removing" => n.todo = {},
         actor[a].at = "scanning" =>
            \A l \in n.there : Settled(l) => Own(l) \in n.todo \union n.active,
         Looking(a) =>
            /\ \A l \in n.there : Settled(l) => Own(l) \notin n.stale
            /\ \A p \in DOMAIN files : files[p] \in n.gone => p \in n.todo \union n.stale
  PROVE  LookInv' /\ (FoundIfThere => FoundIfThere')
<1>1. /\ DOMAIN scan' = Actors /\ scan'[a] = n
      /\ \A b \in Actors \ {a} : scan'[b] = scan[b]
  BY DEF LookInv
<1>2. \A l \in Actors : /\ Settled(l)' <=> Settled(l)
                        /\ Own(l)' = Own(l)
                        /\ Over(l)' <=> Over(l)
                        /\ Lasting(l)' <=> Lasting(l)
  BY DEF Settled, Own, Path, Over, Lasting, Listens
<1>3. LookInv'
  BY <1>1, <1>2 DEF LookInv, Looking
<1>4. FoundIfThere => FoundIfThere'
  BY <1>1, <1>2 DEF LookInv, FoundIfThere, Meant
<1>. QED  BY <1>3, <1>4

LEMMA ProbeLooks ==
  ASSUME IInv, LookInv, FoundIfThere, NEW a \in Actors, Probe(a)
  PROVE  LookInv' /\ FoundIfThere'
<1>1. PICK p \in scan[a].todo : scan' = [scan EXCEPT ![a] = Look(a, p)]
  BY DEF Probe
<1>2. UNCHANGED <<files, daemon, actor>> /\ actor[a].at = "scanning"
  BY DEF Probe
<1>. DEFINE n == Look(a, p)
<1>3. DOMAIN scan[a] = {"todo", "active", "stale", "ages", "target", "there", "gone"}
  BY DEF LookInv
<1>4. /\ DOMAIN n = DOMAIN scan[a] /\ n.there = scan[a].there /\ n.gone = scan[a].gone
      /\ n.todo = scan[a].todo \ {p}
      /\ n.active = IF Connectable(p) THEN scan[a].active \union {p} ELSE scan[a].active
      /\ n.stale = IF p \in DOMAIN files /\ ~Connectable(p)
                   THEN scan[a].stale \union {p} ELSE scan[a].stale
  BY <1>3 DEF Look
<1>5. scan' = [scan EXCEPT ![a] = n]
  BY <1>1
<1>. HIDE DEF n
<1>6. \A l \in n.there : Settled(l) => Own(l) \in n.todo \union n.active /\ Own(l) \notin n.stale
  BY <1>2, <1>4 DEF LookInv, Looking, Settled, Connectable
<1>7. \A q \in DOMAIN files : files[q] \in n.gone => q \in n.todo \union n.stale
  <2>1. ASSUME NEW q \in DOMAIN files, files[q] \in scan[a].gone PROVE ~Connectable(q)
    BY <2>1 DEF LookInv, Connectable, Listens, Over
  <2>. QED  BY <1>2, <1>4, <2>1 DEF LookInv, Looking
<1>. QED  BY <1>2, <1>4, <1>5, <1>6, <1>7, ScanFrame

LEMMA DateLooks ==
  ASSUME IInv, LookInv, FoundIfThere, NEW a \in Actors, Date(a)
  PROVE  LookInv' /\ FoundIfThere'
<1>1. PICK p \in Undated(a) : scan' = [scan EXCEPT ![a].ages =
            [q \in DOMAIN @ \union {p} |-> IF q = p THEN Age(p) ELSE @[q]]]
  BY DEF Date
<1>. DEFINE m == [q \in DOMAIN scan[a].ages \union {p} |-> IF q = p THEN Age(p) ELSE scan[a].ages[q]]
            n == [scan[a] EXCEPT !.ages = m]
<1>2. /\ DOMAIN scan = Actors
      /\ DOMAIN scan[a] = {"todo", "active", "stale", "ages", "target", "there", "gone"}
  BY DEF LookInv
<1>3. scan' = [scan EXCEPT ![a] = n]
  BY <1>1, <1>2
<1>. HIDE DEF m
<1>4. /\ DOMAIN n = DOMAIN scan[a] /\ n.there = scan[a].there /\ n.gone = scan[a].gone
      /\ n.todo = scan[a].todo /\ n.active = scan[a].active /\ n.stale = scan[a].stale
  BY <1>2
<1>. HIDE DEF n
<1>5. UNCHANGED <<files, daemon, actor>> /\ actor[a].at = "scanning"
  BY DEF Date
<1>. QED  BY <1>3, <1>4, <1>5, ScanFrame DEF LookInv, Looking

LEMMA TailOfPath == ASSUME NEW p, NEW n \in Seq(Parts) PROVE Tail(Path(p, n)) = n
BY DEF Path

LEMMA ChooseLooks ==
  ASSUME IInv, LookInv, FoundIfThere, Steady, NEW a \in Actors, Choose(a)
  PROVE  LookInv' /\ FoundIfThere'
<1>1. /\ actor[a].at = "scanning" /\ scan[a].todo = {} /\ UNCHANGED <<files, daemon>>
      /\ actor[a].want.form \in {"attach", "reattach"}
  BY DEF Choose, Scanned
<1>2. CASE Ends(a, "ambiguous") /\ UNCHANGED scan
  BY <1>2, EndsLooks
<1>3. CASE \E p \in Candidates(a) : Goes(a, "connecting") /\ scan' = [scan EXCEPT ![a].target = p]
  <2>1. PICK target : Goes(a, "connecting") /\ scan' = [scan EXCEPT ![a].target = target]
    BY <1>3
  <2>2. /\ DOMAIN scan' = Actors
        /\ \A b \in Actors : /\ DOMAIN scan'[b] = DOMAIN scan[b]
                             /\ scan'[b].there = scan[b].there /\ scan'[b].gone = scan[b].gone
                             /\ b # a => scan'[b] = scan[b]
    BY <2>1 DEF LookInv
  <2>3. /\ \A b \in Actors \ {a} : actor'[b] = actor[b]
        /\ actor'[a].at = "connecting" /\ actor'[a].want = actor[a].want
        /\ actor'[a].verdict = actor[a].verdict
    BY <2>1, ActorFacts DEF Goes
  <2>4. \A l \in Actors : /\ Settled(l)' <=> Settled(l)
                          /\ Own(l)' = Own(l)
                          /\ Over(l)' <=> Over(l)
                          /\ Lasting(l)' <=> Lasting(l)
    BY <1>1 DEF Settled, Own, Path, Over, Lasting, Listens
  <2>5. LookInv'
    <3>1. ASSUME NEW b \in Actors, Looking(b)'
          PROVE  Looking(b) /\ actor'[b].at = actor[b].at /\ scan'[b] = scan[b]
      <4>1. b # a
        BY <2>3, <3>1 DEF Looking
      <4>. QED  BY <2>2, <2>3, <3>1, <4>1 DEF Looking
    <3>2. ASSUME NEW b \in Actors
          PROVE  /\ \A l \in scan[b].there : l \in Actors /\ Lasting(l)'
                 /\ \A l \in scan[b].gone : l \in Actors /\ Over(l)'
      BY <2>4 DEF LookInv
    <3>3. ASSUME NEW b \in Actors, Looking(b)'
          PROVE  /\ \A l \in scan'[b].there : Settled(l)' => Own(l)' \notin scan'[b].stale
                 /\ \A p \in DOMAIN files' :
                      files'[p] \in scan'[b].gone => p \in scan'[b].todo \union scan'[b].stale
                 /\ actor'[b].at = "removing" => scan'[b].todo = {}
                 /\ actor'[b].at = "scanning" => \A l \in scan'[b].there :
                      Settled(l)' => Own(l)' \in scan'[b].todo \union scan'[b].active
      BY <1>1, <2>4, <3>1, <3>3 DEF LookInv
    <3>4. \A b \in Actors : DOMAIN scan'[b] = {"todo", "active", "stale", "ages", "target", "there", "gone"}
      BY <2>2 DEF LookInv
    <3>. QED  BY <2>2, <3>2, <3>3, <3>4 DEF LookInv, Looking
  <2>6. FoundIfThere'
    <3>1. \A b \in Actors : actor'[b].want = actor[b].want /\ actor'[b].verdict = actor[b].verdict
      BY <2>3
    <3>2. ASSUME NEW b \in Actors, NEW l \in scan[b].there, NEW name
          PROVE  (Settled(l)' <=> Settled(l)) /\ (Meant(l, name)' <=> Meant(l, name))
      BY <1>1, <2>4 DEF LookInv, Meant
    <3>. QED  BY <2>2, <3>1, <3>2 DEF FoundIfThere
  <2>. QED  BY <2>5, <2>6
<1>4. CASE /\ Found(a) = {} /\ UNCHANGED scan
           /\ \/ Ends(a, "missing")
              \/ actor' = [actor EXCEPT ![a].at = "idle", ![a].want.form = "screen"]
  <2>1. /\ \A b \in Actors \ {a} : actor'[b] = actor[b]
        /\ actor'[a].at \in {"over", "idle"} /\ actor'[a].want.name = actor[a].want.name
    BY <1>4, ActorFacts DEF Ends
  <2>2. \A l \in scan[a].there : Settled(l) => ~Meant(l, actor[a].want.name)
    <3>1. ASSUME NEW l \in scan[a].there, Settled(l) PROVE ~Matches(Own(l), actor[a].want.name)
      BY <1>1, <1>4, <3>1 DEF LookInv, Found
    <3>2. ASSUME NEW l \in scan[a].there PROVE Tail(Own(l)) = daemon[l].name
      <4>1. daemon[l].name \in Seq(Parts)
        BY <3>2 DEF LookInv, IInv, DaemonsInv
      <4>. QED  BY <4>1, TailOfPath DEF Own
    <3>. QED  BY <3>1, <3>2 DEF Matches, Meant
  <2>3. \A l \in Actors : (Settled(l)' <=> Settled(l)) /\ Own(l)' = Own(l) /\ daemon'[l] = daemon[l]
    BY <1>1 DEF Settled, Own, Path, Listens
  <2>4. FoundIfThere'
    BY <1>4, <2>1, <2>2, <2>3 DEF LookInv, FoundIfThere, Meant
  <2>5. LookInv'
    BY <1>1, <1>4, <2>1, <2>3 DEF LookInv, Looking, Lasting, Over
  <2>. QED  BY <2>4, <2>5
<1>. QED  BY <1>1, <1>2, <1>3, <1>4 DEF Choose

LEMMA SweepLooks ==
  ASSUME IInv, LookInv, FoundIfThere, NEW a \in Actors, Sweep(a)
  PROVE  LookInv' /\ FoundIfThere'
<1>1. /\ actor[a].at = "scanning" /\ scan[a].todo = {} /\ UNCHANGED <<files, daemon, scan>>
  BY DEF Sweep, Scanned
<1>2. /\ \A b \in Actors \ {a} : actor'[b] = actor[b]
      /\ actor'[a].at = "removing" /\ actor'[a].want = actor[a].want
      /\ actor'[a].verdict = actor[a].verdict
  BY ActorFacts DEF Sweep, Goes
<1>3. \A l \in Actors : (Settled(l)' <=> Settled(l)) /\ Own(l)' = Own(l) /\ daemon'[l] = daemon[l]
  BY <1>1 DEF Settled, Own, Path, Listens
<1>4. LookInv'
  BY <1>1, <1>2, <1>3 DEF LookInv, Looking, Lasting, Over
<1>5. FoundIfThere'
  BY <1>1, <1>2, <1>3 DEF LookInv, FoundIfThere, Meant
<1>. QED  BY <1>4, <1>5
LEMMA RemoveLooks ==
  ASSUME IInv, LookInv, FoundIfThere, Steady, NEW a \in Actors, Remove(a)
  PROVE  LookInv' /\ FoundIfThere'
<1>1. PICK p \in Dead(a) :
        /\ scan' = [scan EXCEPT ![a].stale = @ \ {p}]
        /\ \/ p \in DOMAIN files /\ files' = Without(p) /\ UNCHANGED actor
           \/ Ends(a, "failed") /\ UNCHANGED files
  BY DEF Remove
<1>2. /\ DOMAIN scan' = Actors
      /\ \A b \in Actors : /\ DOMAIN scan'[b] = DOMAIN scan[b]
                           /\ scan'[b].there = scan[b].there /\ scan'[b].gone = scan[b].gone
                           /\ scan'[b].todo = scan[b].todo /\ scan'[b].active = scan[b].active
                           /\ scan'[b].stale \subseteq scan[b].stale
                           /\ scan'[b].stale = IF b = a THEN scan[b].stale \ {p} ELSE scan[b].stale
  <2>1. /\ DOMAIN scan = Actors
        /\ DOMAIN scan[a] = {"todo", "active", "stale", "ages", "target", "there", "gone"}
    BY DEF LookInv
  <2>. DEFINE n == [scan[a] EXCEPT !.stale = @ \ {p}]
  <2>2. scan' = [scan EXCEPT ![a] = n]
    BY <1>1, <2>1
  <2>3. /\ DOMAIN n = DOMAIN scan[a] /\ n.there = scan[a].there /\ n.gone = scan[a].gone
        /\ n.todo = scan[a].todo /\ n.active = scan[a].active
        /\ n.stale = scan[a].stale \ {p}
    BY <2>1
  <2>. HIDE DEF n
  <2>4. DOMAIN scan' = Actors /\ scan'[a] = n /\ \A b \in Actors \ {a} : scan'[b] = scan[b]
    BY <2>1, <2>2
  <2>. QED  BY <2>3, <2>4
<1>3. /\ UNCHANGED daemon /\ \A q \in DOMAIN files' : q \in DOMAIN files /\ files'[q] = files[q]
      /\ p \in DOMAIN files' => Ends(a, "failed")
  BY <1>1 DEF Remove, Without
<1>4. \A b \in Actors : /\ actor'[b].want = actor[b].want /\ (actor'[b].verdict = "missing" => actor[b].verdict = "missing")
                        /\ actor'[b].at # "over" => actor'[b] = actor[b]
                        /\ b # a => actor'[b] = actor[b]
  BY <1>1, ActorFacts DEF Ends
<1>5. Ends(a, "failed") => actor'[a].at = "over"
  BY ActorFacts DEF Ends
<1>6. ASSUME NEW b \in Actors, NEW l \in scan[b].there
      PROVE  l \in Actors /\ Lasting(l)' /\ Own(l)' = Own(l) /\ (Settled(l)' => Settled(l))
  BY <1>6 DEF LookInv, Steady
<1>7. ASSUME NEW b \in Actors, NEW l \in scan[b].gone PROVE l \in Actors /\ Over(l)'
  BY <1>7 DEF LookInv, Steady
<1>8. ASSUME NEW b \in Actors, Looking(b)'
      PROVE  /\ \A l \in scan'[b].there : Settled(l)' => Own(l)' \notin scan'[b].stale
             /\ \A q \in DOMAIN files' :
                  files'[q] \in scan'[b].gone => q \in scan'[b].todo \union scan'[b].stale
             /\ actor'[b].at = "removing" => scan'[b].todo = {}
             /\ actor'[b].at = "scanning" => \A l \in scan'[b].there :
                  Settled(l)' => Own(l)' \in scan'[b].todo \union scan'[b].active
  <2>1. Looking(b) /\ actor'[b].at = actor[b].at
    BY <1>4, <1>8 DEF Looking
  <2>2. \A l \in scan'[b].there : Settled(l)' => Own(l)' \notin scan'[b].stale
    <3>1. \A l \in scan[b].there : Settled(l) => Own(l) \notin scan[b].stale
      BY <2>1 DEF LookInv
    <3>2. scan'[b].there = scan[b].there /\ scan'[b].stale \subseteq scan[b].stale
      BY <1>2
    <3>3. ASSUME NEW l \in scan[b].there, Settled(l)' PROVE Own(l)' \notin scan[b].stale
      BY <1>6, <3>1, <3>3
    <3>. QED  BY <3>2, <3>3
  <2>3. ASSUME NEW q \in DOMAIN files', files'[q] \in scan'[b].gone
        PROVE  q \in scan'[b].todo \union scan'[b].stale
    <3>1. q \in scan[b].todo \union scan[b].stale
      BY <1>2, <1>3, <2>1, <2>3 DEF LookInv
    <3>2. b = a => q # p
      BY <1>3, <1>5, <1>8 DEF Looking
    <3>. QED  BY <1>2, <3>1, <3>2
  <2>4. actor'[b].at = "removing" => scan'[b].todo = {}
    BY <1>2, <2>1 DEF LookInv
  <2>5. ASSUME actor'[b].at = "scanning", NEW l \in scan'[b].there, Settled(l)'
        PROVE  Own(l)' \in scan'[b].todo \union scan'[b].active
    <3>1. actor[b].at = "scanning" /\ l \in scan[b].there
      BY <1>2, <2>1, <2>5
    <3>2. Settled(l) => Own(l) \in scan[b].todo \union scan[b].active
      BY <3>1 DEF LookInv
    <3>. QED  BY <1>2, <1>6, <2>5, <3>1, <3>2
  <2>. QED  BY <2>2, <2>3, <2>4, <2>5
<1>9. LookInv'
  <2>1. \A b \in Actors : DOMAIN scan'[b] = {"todo", "active", "stale", "ages", "target", "there", "gone"}
    BY <1>2 DEF LookInv
  <2>2. ASSUME NEW b \in Actors
        PROVE  /\ \A l \in scan'[b].there : l \in Actors /\ Lasting(l)'
               /\ \A l \in scan'[b].gone : l \in Actors /\ Over(l)'
    BY <1>2, <1>6, <1>7
  <2>3. DOMAIN scan' = Actors
    BY <1>2
  <2>. QED  BY <1>8, <2>1, <2>2, <2>3 DEF LookInv, Looking
<1>10. FoundIfThere'
  <2>1. ASSUME NEW b \in Actors, NEW l \in scan[b].there, NEW name
        PROVE  Meant(l, name)' <=> Meant(l, name)
    BY <1>3, <1>6 DEF Meant
  <2>2. ASSUME NEW b \in Actors, actor'[b].verdict = "missing" \/ actor'[b].want.form = "screen",
               NEW l \in scan'[b].there
        PROVE  ~(Settled(l)' /\ Meant(l, actor[b].want.name)')
    <3>1. /\ actor[b].verdict = "missing" \/ actor[b].want.form = "screen"
          /\ actor'[b].want.name = actor[b].want.name /\ l \in scan[b].there
      BY <1>2, <1>4, <2>2
    <3>2. ~(Settled(l) /\ Meant(l, actor[b].want.name))
      BY <3>1 DEF FoundIfThere
    <3>. QED  BY <1>3, <1>6, <3>1, <3>2 DEF Meant
  <2>. QED  BY <2>2 DEF FoundIfThere, Meant
<1>. QED  BY <1>9, <1>10

LEMMA LookStep == IInv /\ LookInv /\ FoundIfThere /\ [Next]_vars => LookInv' /\ FoundIfThere'
<1>. SUFFICES ASSUME IInv, LookInv, FoundIfThere, [Next]_vars PROVE LookInv' /\ FoundIfThere'
  OBVIOUS
<1>0. Steady
  BY SteadyStep
<1>1. CASE \E a \in Actors : OpenRuntime(a) \/ MakeRuntime(a) \/ RestrictRuntime(a)
  BY <1>0, <1>1, OthersLook
<1>2. CASE \E a \in Actors : Spawn(a) \/ Started(a) \/ ChildExited(a) \/ GaveUp(a)
  BY <1>0, <1>2, OthersLook
<1>3. CASE \E a \in Actors : Read(a) \/ Probe(a) \/ Date(a) \/ Choose(a) \/ Connect(a) \/ Show(a)
  BY <1>0, <1>3, OthersLook, ReadLooks, ProbeLooks, DateLooks, ChooseLooks
<1>4. CASE \E a \in Actors : Sweep(a) \/ Remove(a) \/ Swept(a) \/ Leave(a)
  BY <1>0, <1>4, OthersLook, SweepLooks, RemoveLooks
<1>5. CASE scan' = scan /\ actor' = actor
  BY <1>0, <1>5, KeepsLooking DEF Looking, Denied
<1>6. CASE \E l \in Actors : Bind(l) \/ Listen(l) \/ Guard(l) \/ SetUp(l) \/ Finish(l) \/ Kill(l)
  BY <1>5, <1>6 DEF Bind, Listen, Guard, SetUp, Finish, Kill
<1>7. CASE UNCHANGED vars
  BY <1>5, <1>7 DEF vars
<1>. QED  BY <1>1, <1>2, <1>3, <1>4, <1>6, <1>7 DEF Next

LEMMA AlwaysLookInv == Spec => [](IInv /\ LookInv /\ FoundIfThere)
<1>1. Init => IInv /\ LookInv /\ FoundIfThere
  <2>. SUFFICES ASSUME Init PROVE LookInv /\ FoundIfThere
    BY Start
  <2>1. DOMAIN scan = Actors /\ \A a \in Actors : scan[a] = NoScan
    BY DEF Init
  <2>2. DOMAIN NoScan = {"todo", "active", "stale", "ages", "target", "there", "gone"}
        /\ NoScan.there = {} /\ NoScan.gone = {}
    BY DEF NoScan
  <2>3. \A a \in Actors : actor[a].at \in {"idle", "over"}
    BY DEF Init
  <2>. QED  BY <2>1, <2>2, <2>3 DEF LookInv, FoundIfThere, Looking
<1>2. IInv /\ LookInv /\ FoundIfThere /\ [Next]_vars => (IInv /\ LookInv /\ FoundIfThere)'
  BY Step, LookStep
<1>. QED  BY <1>1, <1>2, PTL DEF Spec

(* A session that was there when a command began to look, and still is, is *)
(* never said to be missing, and -R starts none beside it, whatever other  *)
(* sessions start, end, are killed or are wiped meanwhile.                 *)
THEOREM WhatIsThereIsFound == Spec => []FoundIfThere
BY AlwaysLookInv, PTL

(* A wipe spares the sessions that were there when it began to look, and   *)
(* clears what dead daemons had left by then.                              *)
THEOREM WipesAreRight == Spec => WipeTakesOnlyTheDead
<1>1. ASSUME IInv, LookInv, [Next]_vars, NEW a \in Actors
      PROVE  /\ actor[a].at = "removing" /\ scan'[a] # scan[a] =>
                  \A l \in scan[a].there : Settled(l) => Settled(l)'
             /\ Swept(a) =>
                  \A p \in DOMAIN files :
                    Meant(files[p], actor[a].want.name) => files[p] \notin scan[a].gone
  <2>1. ASSUME actor[a].at = "removing", scan'[a] # scan[a] PROVE Remove(a)
    <3>1. ASSUME NEW b \in Actors, b # a, scan' = [scan EXCEPT ![b] = scan'[b]] PROVE FALSE
      BY <1>1, <2>1, <3>1 DEF LookInv
    <3>. QED  BY <1>1, <2>1, <3>1 DEF Next, vars, OpenRuntime, MakeRuntime, RestrictRuntime, Spawn,
                 Started, ChildExited, GaveUp, Read, Probe, Date, Choose, Connect, Show, Sweep, Remove,
                 Swept, Leave, Bind, Listen, Guard, SetUp, Finish, Kill, Scanned
  <2>2. ASSUME Remove(a), NEW l \in scan[a].there, Settled(l) PROVE Settled(l)'
    <3>1. PICK p \in scan[a].stale : files' = Without(p) \/ UNCHANGED files
      BY <2>2 DEF Remove, Dead
    <3>2. Own(l) # p /\ UNCHANGED daemon
      BY <1>1, <2>2 DEF LookInv, Looking, Remove
    <3>. QED  BY <2>2, <3>1, <3>2 DEF Settled, Own, Path, Listens, Without
  <2>3. ASSUME Swept(a), NEW p \in DOMAIN files, Meant(files[p], actor[a].want.name),
               files[p] \in scan[a].gone
        PROVE  FALSE
    <3>1. p \in scan[a].stale
      BY <1>1, <2>3 DEF Swept, LookInv, Looking
    <3>2. Own(files[p]) = p /\ Tail(p) = daemon[files[p]].name
      <4>1. files[p] \in Actors /\ Own(files[p]) = p /\ daemon[files[p]].name \in Seq(Parts)
        BY <1>1 DEF IInv, SocketsInv, DaemonsInv
      <4>. QED  BY <4>1, TailOfPath DEF Own
    <3>3. Matches(p, actor[a].want.name)
      BY <2>3, <3>2 DEF Matches, Meant
    <3>. QED  BY <2>3, <3>1, <3>3 DEF Swept, Dead
  <2>. QED  BY <2>1, <2>2, <2>3
<1>. DEFINE WipeStep == \A a \in Actors :
       /\ actor[a].at = "removing" /\ scan'[a] # scan[a] =>
            \A l \in scan[a].there : Settled(l) => Settled(l)'
       /\ Swept(a) =>
            \A p \in DOMAIN files :
              Meant(files[p], actor[a].want.name) => files[p] \notin scan[a].gone
<1>2. IInv /\ LookInv /\ [Next]_vars => WipeStep
  BY <1>1
<1>3. WipeTakesOnlyTheDead <=> [][WipeStep]_vars
  BY DEF WipeTakesOnlyTheDead
<1>. HIDE DEF WipeStep
<1>. QED  BY <1>2, <1>3, AlwaysLookInv, PTL DEF Spec

-----------------------------------------------------------------------------
(* Whom a command reaches.                                                 *)

(* The ages number the sockets in the order they were bound, and what has  *)
(* bound none has no age.                                                  *)
Aged == {k \in Actors : daemon[k].age > 0}
Early(l) == daemon[l].at \in {"none", "starting"}
AgesInv ==
  /\ \A l \in Actors : daemon[l].age <= Cardinality(Aged) /\ (Early(l) => daemon[l].age = 0)
  /\ \A k, l \in Actors : daemon[k].age = daemon[l].age /\ daemon[l].age > 0 => k = l

\* Whatever step, a socket that is new belongs to the youngest daemon.
Ageing ==
  /\ \A l \in Actors : ~Early(l) => daemon'[l].age = daemon[l].age
  /\ Cardinality(Aged) <= Cardinality(Aged')
  /\ \A p \in DOMAIN files' :
       \/ p \in DOMAIN files /\ files'[p] = files[p]
       \/ /\ \A l \in Actors : l # files'[p] => daemon'[l].age < daemon'[files'[p]].age
          /\ Cardinality(Aged) < daemon'[files'[p]].age

\* A step of daemons that keeps their ages, after which no socket is new.
OldSockets ==
  /\ \A l \in Actors : daemon'[l].age = daemon[l].age /\ (Early(l)' => Early(l))
  /\ \A p \in DOMAIN files' : p \in DOMAIN files /\ files'[p] = files[p]

LEMMA AgedIsFinite == IsFiniteSet(Aged) /\ Cardinality(Aged) \in Nat
BY LaunchAssumption, FS_Subset, FS_CardinalityType DEF Aged

LEMMA OldSocketsAge == ASSUME AgesInv, OldSockets PROVE AgesInv' /\ Ageing
<1>1. Aged' = Aged
  BY DEF Aged, OldSockets
<1>. QED  BY <1>1, AgedIsFinite DEF AgesInv, Ageing, OldSockets

LEMMA MovingIsOld ==
  ASSUME IInv, NEW l \in Actors, NEW stage, Moves(l, stage), stage \notin {"none", "starting"},
         UNCHANGED files \/ files' = Without(Own(l))
  PROVE  OldSockets
<1>1. /\ \A b \in Actors \ {l} : daemon'[b] = daemon[b]
      /\ daemon'[l].at = stage /\ daemon'[l].age = daemon[l].age
  BY DEF Moves, IInv, DaemonsInv
<1>2. \A p \in DOMAIN files' : p \in DOMAIN files /\ files'[p] = files[p]
  BY DEF Without
<1>. QED  BY <1>1, <1>2 DEF OldSockets, Early

LEMMA BindAges == ASSUME IInv, AgesInv, NEW l \in Actors, Bind(l) PROVE AgesInv' /\ Ageing
<1>1. daemon[l].at = "starting" /\ Early(l) /\ daemon[l].age = 0
  BY DEF Bind, Early, AgesInv
<1>2. CASE Moves(l, "ended") /\ UNCHANGED files
  BY <1>2, MovingIsOld, OldSocketsAge
<1>3. CASE /\ files' = With(Own(l), l)
           /\ daemon' = [daemon EXCEPT ![l].at = "bound",
                            ![l].age = 1 + Cardinality({k \in Actors : daemon[k].age > 0})]
  <2>. DEFINE n == Cardinality(Aged)
  <2>1. n \in Nat
    BY AgedIsFinite
  <2>2. /\ \A b \in Actors \ {l} : daemon'[b] = daemon[b]
        /\ daemon'[l].at = "bound" /\ daemon'[l].age = 1 + n
    BY <1>3 DEF IInv, DaemonsInv, Aged
  <2>3. Cardinality(Aged') = n + 1
    <3>1. l \notin Aged
      BY <1>1 DEF Aged
    <3>2. Aged' = Aged \union {l}
      BY <2>1, <2>2 DEF Aged
    <3>. QED  BY <3>1, <3>2, AgedIsFinite, FS_AddElement
  <2>4. \A b \in Actors \ {l} : daemon[b].age \in Nat /\ daemon[b].age <= n
    BY DEF AgesInv, IInv, DaemonsInv
  <2>. HIDE DEF n
  <2>5. \A b \in Actors \ {l} : daemon'[b].age < daemon'[l].age
    BY <2>1, <2>2, <2>4
  <2>6. AgesInv'
    <3>1. \A b \in Actors : daemon'[b].age <= n + 1
      BY <2>1, <2>2, <2>4
    <3>2. \A b \in Actors : Early(b)' => daemon'[b].age = 0
      BY <2>2 DEF Early, AgesInv
    <3>3. \A k, b \in Actors : daemon'[k].age = daemon'[b].age /\ daemon'[b].age > 0 => k = b
      <4>1. ASSUME NEW k \in Actors, NEW b \in Actors, k # b,
                   daemon'[k].age = daemon'[b].age, daemon'[b].age > 0
            PROVE  FALSE
        <5>1. CASE k # l /\ b # l
          BY <2>2, <4>1, <5>1 DEF AgesInv
        <5>2. CASE k = l \/ b = l
          BY <2>1, <2>2, <2>4, <4>1, <5>2
        <5>. QED  BY <5>1, <5>2
      <4>. QED  BY <4>1
    <3>. QED  BY <2>3, <3>1, <3>2, <3>3 DEF AgesInv
  <2>7. Ageing
    <3>1. Cardinality(Aged) < daemon'[l].age /\ Cardinality(Aged) <= Cardinality(Aged')
      BY <2>1, <2>2, <2>3 DEF n
    <3>. QED  BY <1>1, <1>3, <2>2, <2>5, <3>1 DEF Ageing, With
  <2>. QED  BY <2>6, <2>7
<1>. QED  BY <1>2, <1>3 DEF Bind

LEMMA AgesStep == ASSUME IInv, AgesInv, [Next]_vars PROVE AgesInv' /\ Ageing
<1>1. ASSUME UNCHANGED daemon, \A p \in DOMAIN files' : p \in DOMAIN files /\ files'[p] = files[p]
      PROVE  AgesInv' /\ Ageing
  BY <1>1, OldSocketsAge DEF OldSockets, Early
<1>2. ASSUME NEW a \in Actors, Spawn(a) PROVE AgesInv' /\ Ageing
  <2>1. UNCHANGED files /\ daemon[a].at = "none" /\ daemon[a].age = 0 /\ DOMAIN daemon = Actors
    BY <1>2 DEF Spawn, Starts, IInv, ActorsInv, DaemonsInv, Fit, AgesInv, Early
  <2>2. UNCHANGED daemon => OldSockets
    BY <2>1 DEF OldSockets, Early
  <2>3. ASSUME \E p, name : daemon' = [daemon EXCEPT ![a] = [at |-> "starting", pid |-> p,
                                                           name |-> name, age |-> 0]]
        PROVE  OldSockets
    BY <2>1, <2>3 DEF OldSockets, Early
  <2>4. UNCHANGED daemon \/ \E p, name : daemon' = [daemon EXCEPT ![a] =
                                 [at |-> "starting", pid |-> p, name |-> name, age |-> 0]]
    BY <1>2 DEF Spawn
  <2>5. OldSockets
    BY <2>2, <2>3, <2>4
  <2>. QED  BY <2>5, OldSocketsAge
<1>3. ASSUME NEW l \in Actors, Listen(l) \/ Guard(l) \/ SetUp(l) \/ Finish(l) \/ Kill(l)
      PROVE  AgesInv' /\ Ageing
  <2>1. OldSockets
    BY <1>3, MovingIsOld DEF Listen, Guard, SetUp, Finish, Kill, Close
  <2>. QED  BY <2>1, OldSocketsAge
<1>4. ASSUME NEW a \in Actors, Remove(a) PROVE AgesInv' /\ Ageing
  BY <1>1, <1>4 DEF Remove, Without
<1>5. ASSUME NEW a \in Actors,
             \/ OpenRuntime(a) \/ MakeRuntime(a) \/ RestrictRuntime(a) \/ Started(a)
             \/ ChildExited(a) \/ GaveUp(a) \/ Read(a) \/ Probe(a) \/ Date(a) \/ Choose(a) \/ Connect(a)
             \/ Show(a) \/ Sweep(a) \/ Swept(a) \/ Leave(a)
      PROVE  AgesInv' /\ Ageing
  <2>1. UNCHANGED <<files, daemon>>
    BY <1>5 DEF OpenRuntime, MakeRuntime, RestrictRuntime, Started, ChildExited, GaveUp, Read,
                Probe, Date, Choose, Connect, Show, Sweep, Swept, Leave
  <2>. QED  BY <1>1, <2>1
<1>6. CASE UNCHANGED vars
  BY <1>1, <1>6 DEF vars
<1>. QED  BY <1>2, <1>3, <1>4, <1>5, <1>6, BindAges DEF Next

(* The socket a command is about to connect to is one that it asked for,   *)
(* and whoever has it by then is younger than every other session it might *)
(* have meant.                                                             *)
Ahead(p, l) == p \in DOMAIN files => daemon[l].age < daemon[files[p]].age
Aimed(b) ==
  /\ Matches(scan[b].target, actor[b].want.name)
  /\ \A l \in scan[b].there :
       Settled(l) /\ Meant(l, actor[b].want.name)
         => \/ Own(l) = scan[b].target
            \/ actor[b].want.aggressive /\ Ahead(scan[b].target, l)

Hit(b) ==
  /\ actor[b].reached \in Actors /\ Lasting(actor[b].reached)
  /\ Meant(actor[b].reached, actor[b].want.name)
  /\ \A l \in scan[b].there \ {actor[b].reached} :
       Settled(l) /\ Meant(l, actor[b].want.name)
         => actor[b].want.aggressive /\ daemon[l].age < daemon[actor[b].reached].age

\* While it looks: no socket has been dated too young, and those that last rightly.
Dated(b) ==
  /\ \A p \in DOMAIN scan[b].ages :
       /\ scan[b].ages[p] \in 0 .. Cardinality(Aged)
       /\ p \in DOMAIN files => scan[b].ages[p] <= daemon[files[p]].age
  /\ \A l \in scan[b].there :
       Settled(l) /\ Own(l) \in DOMAIN scan[b].ages => scan[b].ages[Own(l)] = daemon[l].age

Right(b) ==
  /\ IsFiniteSet(scan[b].todo) /\ IsFiniteSet(scan[b].active)
  /\ actor[b].at = "scanning" => Dated(b)
  /\ actor[b].at = "connecting" => Aimed(b)
  /\ actor[b].at = "attached" => Hit(b)

ChoiceInv == \A b \in Actors : Right(b)

\* What is told of the sessions that were there stays so.
LEMMA ThereStays ==
  ASSUME LookInv, Steady, Ageing, NEW b \in Actors, NEW l \in scan[b].there, NEW name
  PROVE  /\ l \in Actors /\ Own(l)' = Own(l) /\ (Settled(l)' => Settled(l))
         /\ (Meant(l, name)' <=> Meant(l, name)) /\ daemon'[l].age = daemon[l].age
<1>1. l \in Actors /\ Lasting(l)
  BY DEF LookInv
<1>2. Own(l)' = Own(l) /\ (Settled(l)' => Settled(l)) /\ daemon'[l].name = daemon[l].name
  BY <1>1 DEF Steady
<1>3. daemon'[l].age = daemon[l].age
  BY <1>1 DEF Ageing, Lasting, Early
<1>. QED  BY <1>1, <1>2, <1>3 DEF Meant

LEMMA AimStays ==
  ASSUME IInv, IInv', LookInv, Steady, Ageing, NEW b \in Actors, Aimed(b),
         scan'[b] = scan[b], actor'[b].want = actor[b].want
  PROVE  Aimed(b)'
<1>. DEFINE p == scan[b].target
            name == actor[b].want.name
<1>1. ASSUME NEW l \in scan[b].there, Settled(l)', Meant(l, name)'
      PROVE  Own(l)' = p \/ (actor[b].want.aggressive /\ Ahead(p, l)')
  <2>1. /\ l \in Actors /\ Own(l)' = Own(l) /\ Settled(l) /\ Meant(l, name)
        /\ daemon'[l].age = daemon[l].age
    BY <1>1, ThereStays
  <2>2. CASE Own(l) = p
    BY <2>1, <2>2
  <2>3. CASE Own(l) # p /\ actor[b].want.aggressive /\ Ahead(p, l)
    <3>1. ASSUME p \in DOMAIN files' PROVE daemon'[l].age < daemon'[files'[p]].age
      <4>1. CASE p \in DOMAIN files /\ files'[p] = files[p]
        <5>1. files[p] \in Actors /\ ~Early(files[p])
          BY <4>1 DEF IInv, SocketsInv, Binds, Early
        <5>2. daemon'[files[p]].age = daemon[files[p]].age
          BY <5>1 DEF Ageing
        <5>. QED  BY <2>1, <2>3, <4>1, <5>2 DEF Ahead
      <4>2. CASE \A k \in Actors : k # files'[p] => daemon'[k].age < daemon'[files'[p]].age
        <5>1. \A k \in Actors : k = files'[p] => Own(k)' = p
          BY <3>1 DEF IInv, SocketsInv, Own, Path
        <5>2. l # files'[p]
          BY <2>1, <2>3, <5>1
        <5>. QED  BY <2>1, <4>2, <5>2
      <4>. QED  BY <3>1, <4>1, <4>2 DEF Ageing
    <3>. QED  BY <2>3, <3>1 DEF Ahead
  <2>. QED  BY <2>1, <2>2, <2>3 DEF Aimed
<1>2. Matches(p, name)'
  BY DEF Aimed, Matches
<1>. QED  BY <1>1, <1>2 DEF Aimed

LEMMA HitStays ==
  ASSUME IInv, LookInv, Steady, Ageing, NEW b \in Actors, Hit(b),
         scan'[b] = scan[b], actor'[b] = actor[b]
  PROVE  Hit(b)'
<1>. DEFINE d == actor[b].reached
            name == actor[b].want.name
<1>1. d \in Actors /\ Lasting(d) /\ Meant(d, name)
  BY DEF Hit
<1>2. /\ Lasting(d)' /\ Own(d)' = Own(d) /\ daemon'[d].name = daemon[d].name
      /\ daemon'[d].age = daemon[d].age
  BY <1>1 DEF Steady, Ageing, Lasting, Early
<1>3. Meant(d, name)'
  BY <1>1, <1>2 DEF Meant
<1>4. ASSUME NEW l \in scan[b].there \ {d}, Settled(l)', Meant(l, name)'
      PROVE  actor[b].want.aggressive /\ daemon'[l].age < daemon'[d].age
  <2>1. Settled(l) /\ Meant(l, name) /\ daemon'[l].age = daemon[l].age
    BY <1>4, ThereStays
  <2>. QED  BY <1>2, <2>1 DEF Hit
<1>. QED  BY <1>1, <1>2, <1>3, <1>4 DEF Hit

LEMMA DatedStays ==
  ASSUME IInv, IInv', LookInv, Steady, Ageing, NEW b \in Actors, Dated(b),
         scan'[b].ages = scan[b].ages, scan'[b].there = scan[b].there
  PROVE  Dated(b)'
<1>. DEFINE ages == scan[b].ages
<1>1. ASSUME NEW p \in DOMAIN ages
      PROVE  /\ ages[p] \in 0 .. Cardinality(Aged')
             /\ p \in DOMAIN files' => ages[p] <= daemon'[files'[p]].age
  <2>1. ages[p] \in Nat /\ ages[p] <= Cardinality(Aged)
    BY AgedIsFinite DEF Dated
  <2>2. Cardinality(Aged) \in Nat /\ Cardinality(Aged)' \in Nat
        /\ Cardinality(Aged) <= Cardinality(Aged)'
    <3>1. IsFiniteSet(Aged') /\ Cardinality(Aged') \in Nat
      BY LaunchAssumption, FS_Subset, FS_CardinalityType DEF Aged
    <3>. QED  BY <3>1, AgedIsFinite DEF Ageing
  <2>3. CASE p \in DOMAIN files /\ p \in DOMAIN files' /\ files'[p] = files[p]
    <3>1. files[p] \in Actors /\ ~Early(files[p])
      BY <2>3 DEF IInv, SocketsInv, Binds, Early
    <3>2. daemon'[files[p]].age = daemon[files[p]].age
      BY <3>1 DEF Ageing
    <3>. QED  BY <2>1, <2>2, <2>3, <3>2 DEF Dated
  <2>4. CASE p \in DOMAIN files' /\ Cardinality(Aged) < daemon'[files'[p]].age
             /\ daemon'[files'[p]].age \in Nat
    BY <2>1, <2>2, <2>4
  <2>5. CASE p \notin DOMAIN files'
    BY <2>1, <2>2, <2>5
  <2>6. p \in DOMAIN files' => daemon'[files'[p]].age \in Nat
    BY DEF IInv, SocketsInv, DaemonsInv
  <2>. QED  BY <2>3, <2>4, <2>5, <2>6 DEF Ageing
<1>2. ASSUME NEW l \in scan[b].there, Settled(l)', Own(l)' \in DOMAIN ages
      PROVE  ages[Own(l)'] = daemon'[l].age
  BY <1>2, ThereStays DEF Dated
<1>. QED  BY <1>1, <1>2 DEF Dated

LEMMA RightStays ==
  ASSUME IInv, IInv', LookInv, Steady, Ageing, NEW b \in Actors, Right(b), scan'[b] = scan[b],
         actor'[b].at \in {"scanning", "connecting", "attached"} => actor'[b] = actor[b]
  PROVE  Right(b)'
<1>1. actor'[b].at = "connecting" => Aimed(b)'
  BY AimStays DEF Right
<1>2. actor'[b].at = "attached" => Hit(b)'
  BY HitStays DEF Right
<1>3. actor'[b].at = "scanning" => Dated(b)'
  BY DatedStays DEF Right
<1>. QED  BY <1>1, <1>2, <1>3 DEF Right

\* There are no more sockets than daemons.
LEMMA FilesAreFinite == ASSUME IInv PROVE IsFiniteSet(DOMAIN files)
<1>. DEFINE f == [p \in DOMAIN files |-> files[p]]
<1>1. f \in Injection(DOMAIN files, Actors)
  BY DEF IInv, SocketsInv, Injection, IsInjective
<1>. HIDE DEF f
<1>. QED  BY <1>1, LaunchAssumption, FS_Injection

Aiming == {"scanning", "connecting", "attached"}

\* A step of run a, which others need not heed.
LEMMA OthersChoose ==
  ASSUME IInv, IInv', LookInv, Steady, Ageing, ChoiceInv, NEW a \in Actors,
         \A b \in Actors \ {a} : actor'[b] = actor[b] /\ scan'[b] = scan[b],
         Right(a)'
  PROVE  ChoiceInv'
<1>1. ASSUME NEW b \in Actors \ {a} PROVE Right(b)'
  BY RightStays DEF ChoiceInv
<1>. QED  BY <1>1 DEF ChoiceInv

LEMMA TurnsAside ==
  ASSUME IInv, IInv', LookInv, Steady, Ageing, ChoiceInv, NEW a \in Actors, scan' = scan,
         \A b \in Actors \ {a} : actor'[b] = actor[b],
         actor'[a] = actor[a] \/ actor'[a].at \notin Aiming
  PROVE  ChoiceInv'
<1>1. Right(a)'
  BY RightStays DEF ChoiceInv, Aiming
<1>. QED  BY <1>1, OthersChoose

LEMMA GoesAside ==
  ASSUME IInv, IInv', LookInv, Steady, Ageing, ChoiceInv, NEW a \in Actors, scan' = scan,
         NEW stage, Goes(a, stage), stage \notin Aiming
  PROVE  ChoiceInv'
<1>1. (\A b \in Actors \ {a} : actor'[b] = actor[b]) /\ actor'[a].at = stage
  BY ActorFacts DEF Goes
<1>. QED  BY <1>1, TurnsAside

LEMMA EndsAside ==
  ASSUME IInv, IInv', LookInv, Steady, Ageing, ChoiceInv, NEW a \in Actors, scan' = scan,
         NEW v, Ends(a, v)
  PROVE  ChoiceInv'
<1>1. (\A b \in Actors \ {a} : actor'[b] = actor[b]) /\ actor'[a].at = "over"
  BY ActorFacts DEF Ends
<1>. QED  BY <1>1, TurnsAside DEF Aiming

LEMMA OthersAside ==
  ASSUME IInv, IInv', LookInv, Steady, Ageing, ChoiceInv, NEW a \in Actors,
         \/ OpenRuntime(a) \/ MakeRuntime(a) \/ RestrictRuntime(a) \/ Spawn(a) \/ Started(a)
         \/ ChildExited(a) \/ GaveUp(a) \/ Show(a) \/ Sweep(a) \/ Swept(a) \/ Leave(a)
  PROVE  ChoiceInv'
<1>1. scan' = scan
  BY DEF OpenRuntime, MakeRuntime, RestrictRuntime, Spawn, Started, ChildExited, GaveUp,
         Show, Sweep, Swept, Leave
<1>2. CASE \E stage : Goes(a, stage) /\ stage \notin Aiming
  BY <1>1, <1>2, GoesAside
<1>3. CASE \E v : Ends(a, v)
  BY <1>1, <1>3, EndsAside
<1>4. CASE OpenRuntime(a) \/ MakeRuntime(a) \/ RestrictRuntime(a) \/ Spawn(a) \/ Sweep(a)
  BY <1>2, <1>3, <1>4 DEF OpenRuntime, MakeRuntime, RestrictRuntime, Spawn, Sweep, Aiming
<1>5. CASE ChildExited(a) \/ GaveUp(a) \/ Show(a) \/ Leave(a)
  BY <1>3, <1>5 DEF ChildExited, GaveUp, Show, Leave
<1>6. CASE Started(a)
  <2>. DEFINE turned == [actor EXCEPT ![a].at = "idle", ![a].want.form = "attach",
                                      ![a].want.name = SessionName(actor[a].want),
                                      ![a].want.aggressive = FALSE]
  <2>1. CASE actor' = turned
    <3>1. (\A b \in Actors \ {a} : actor'[b] = actor[b]) /\ actor'[a].at = "idle"
      BY <2>1, ActorFacts
    <3>. QED  BY <1>1, <3>1, TurnsAside DEF Aiming
  <2>2. CASE Ends(a, "ok")
    BY <1>3, <2>2
  <2>3. actor' = turned \/ Ends(a, "ok")
    BY <1>6, Zenon DEF Started
  <2>. QED  BY <2>1, <2>2, <2>3
<1>7. CASE Swept(a)
  <2>1. actor' = [actor EXCEPT ![a].at = "opened", ![a].want.form = "list"]
    BY <1>7 DEF Swept
  <2>2. (\A b \in Actors \ {a} : actor'[b] = actor[b]) /\ actor'[a].at = "opened"
    BY <2>1, ActorFacts
  <2>. QED  BY <1>1, <2>2, TurnsAside DEF Aiming
<1>. QED  BY <1>4, <1>5, <1>6, <1>7

\* While it looks, a command is about to connect to nobody.
LEMMA LooksOn ==
  ASSUME IInv, IInv', LookInv, Steady, Ageing, ChoiceInv, NEW a \in Actors,
         NEW n, scan' = [scan EXCEPT ![a] = n], IsFiniteSet(n.todo), IsFiniteSet(n.active),
         \A b \in Actors \ {a} : actor'[b] = actor[b],
         actor'[a].at \in Aiming => actor'[a].at = "scanning" /\ Dated(a)'
  PROVE  ChoiceInv'
<1>1. scan'[a] = n /\ \A b \in Actors \ {a} : scan'[b] = scan[b]
  BY DEF LookInv
<1>2. Right(a)'
  BY <1>1 DEF Right, Aiming
<1>. QED  BY <1>1, <1>2, OthersChoose

LEMMA ReadAside ==
  ASSUME IInv, IInv', LookInv, Steady, Ageing, ChoiceInv, NEW a \in Actors, Read(a)
  PROVE  ChoiceInv'
<1>1. CASE Ends(a, "failed") /\ UNCHANGED scan
  BY <1>1, EndsAside
<1>2. CASE /\ Goes(a, "scanning")
           /\ \E there, gone : scan' = [scan EXCEPT ![a] =
                [NoScan EXCEPT !.todo = DOMAIN files, !.there = there, !.gone = gone]]
  <2>1. PICK there, gone : scan' = [scan EXCEPT ![a] =
               [NoScan EXCEPT !.todo = DOMAIN files, !.there = there, !.gone = gone]]
    BY <1>2
  <2>. DEFINE n == [NoScan EXCEPT !.todo = DOMAIN files, !.there = there, !.gone = gone]
  <2>2. n.todo = DOMAIN files /\ n.active = {} /\ DOMAIN n.ages = {}
    BY DEF NoScan
  <2>3. IsFiniteSet(n.todo) /\ IsFiniteSet(n.active)
    BY <2>2, FilesAreFinite, FS_EmptySet
  <2>4. (\A b \in Actors \ {a} : actor'[b] = actor[b]) /\ actor'[a].at = "scanning"
    BY <1>2, ActorFacts DEF Goes
  <2>5. scan' = [scan EXCEPT ![a] = n]
    BY <2>1
  <2>. HIDE DEF n
  <2>6. Dated(a)'
    BY <2>2, <2>5 DEF Dated, LookInv
  <2>. QED  BY <2>3, <2>4, <2>5, <2>6, LooksOn
<1>. QED  BY <1>1, <1>2 DEF Read

LEMMA ProbeAside ==
  ASSUME IInv, IInv', LookInv, Steady, Ageing, ChoiceInv, NEW a \in Actors, Probe(a)
  PROVE  ChoiceInv'
<1>1. PICK p \in scan[a].todo : scan' = [scan EXCEPT ![a] = Look(a, p)]
  BY DEF Probe
<1>. DEFINE n == Look(a, p)
<1>2. /\ n.todo = scan[a].todo \ {p}
      /\ n.active \in {scan[a].active, scan[a].active \union {p}}
      /\ n.ages = scan[a].ages /\ n.there = scan[a].there
  BY DEF Look, LookInv
<1>3. IsFiniteSet(n.todo) /\ IsFiniteSet(n.active)
  <2>1. IsFiniteSet(scan[a].todo) /\ IsFiniteSet(scan[a].active)
    BY DEF ChoiceInv, Right
  <2>2. IsFiniteSet(scan[a].todo \ {p}) /\ IsFiniteSet(scan[a].active \union {p})
    BY <2>1, FS_AddElement, FS_RemoveElement
  <2>. HIDE DEF n
  <2>. QED  BY <1>2, <2>1, <2>2
<1>4. UNCHANGED actor /\ actor[a].at = "scanning"
  BY DEF Probe
<1>5. scan' = [scan EXCEPT ![a] = n]
  BY <1>1
<1>. HIDE DEF n
<1>6. Dated(a)'
  <2>1. scan'[a] = n /\ Dated(a)
    BY <1>4, <1>5 DEF LookInv, ChoiceInv, Right
  <2>. QED  BY <1>2, <2>1, DatedStays
<1>. QED  BY <1>3, <1>4, <1>5, <1>6, LooksOn

\* A socket is dated as it is, or older if it is gone.
LEMMA DateAside ==
  ASSUME IInv, IInv', LookInv, Steady, Ageing, AgesInv, ChoiceInv, NEW a \in Actors, Date(a)
  PROVE  ChoiceInv'
<1>1. PICK p \in Undated(a) : scan' = [scan EXCEPT ![a].ages =
            [q \in DOMAIN @ \union {p} |-> IF q = p THEN Age(p) ELSE @[q]]]
  BY DEF Date
<1>. DEFINE m == [q \in DOMAIN scan[a].ages \union {p} |-> IF q = p THEN Age(p) ELSE scan[a].ages[q]]
            n == [scan[a] EXCEPT !.ages = m]
<1>2. /\ DOMAIN scan = Actors
      /\ DOMAIN scan[a] = {"todo", "active", "stale", "ages", "target", "there", "gone"}
  BY DEF LookInv
<1>3. scan' = [scan EXCEPT ![a] = n]
  BY <1>1, <1>2
<1>4. /\ DOMAIN m = DOMAIN scan[a].ages \union {p} /\ m[p] = Age(p)
      /\ \A q \in DOMAIN scan[a].ages \ {p} : m[q] = scan[a].ages[q]
  OBVIOUS
<1>. HIDE DEF m
<1>5. n.there = scan[a].there /\ n.todo = scan[a].todo /\ n.active = scan[a].active /\ n.ages = m
  BY <1>2
<1>. HIDE DEF n
<1>6. UNCHANGED <<files, daemon, actor>> /\ actor[a].at = "scanning" /\ scan'[a] = n
  BY <1>2, <1>3 DEF Date
<1>7. Dated(a) /\ IsFiniteSet(n.todo) /\ IsFiniteSet(n.active)
  BY <1>5, <1>6 DEF ChoiceInv, Right
<1>8. /\ Age(p) \in 0 .. Cardinality(Aged)
      /\ p \in DOMAIN files => Age(p) = daemon[files[p]].age
  BY AgedIsFinite DEF Age, AgesInv, IInv, SocketsInv, DaemonsInv
<1>9. Dated(a)'
  <2>1. ASSUME NEW q \in DOMAIN m
        PROVE  /\ m[q] \in 0 .. Cardinality(Aged)
               /\ q \in DOMAIN files => m[q] <= daemon[files[q]].age
    <3>1. CASE q = p
      <4>1. p \in DOMAIN files => daemon[files[p]].age \in Nat
        BY DEF IInv, SocketsInv, DaemonsInv
      <4>. QED  BY <1>4, <1>8, <3>1, <4>1
    <3>2. CASE q # p
      BY <1>4, <1>7, <3>2 DEF Dated
    <3>. QED  BY <3>1, <3>2
  <2>2. ASSUME NEW l \in scan[a].there, Settled(l), Own(l) \in DOMAIN m
        PROVE  m[Own(l)] = daemon[l].age
    <3>1. CASE Own(l) = p
      BY <1>4, <1>8, <2>2, <3>1 DEF Settled
    <3>2. CASE Own(l) # p
      BY <1>4, <1>7, <2>2, <3>2 DEF Dated
    <3>. QED  BY <3>1, <3>2
  <2>3. Aged' = Aged /\ \A l \in Actors : (Settled(l)' <=> Settled(l)) /\ Own(l)' = Own(l)
    BY <1>6 DEF Aged, Settled, Listens, Own, Path
  <2>. QED  BY <1>5, <1>6, <2>1, <2>2, <2>3 DEF Dated, LookInv
<1>. QED  BY <1>3, <1>6, <1>7, <1>9, LooksOn

LEMMA RemoveAside ==
  ASSUME IInv, IInv', LookInv, Steady, Ageing, ChoiceInv, NEW a \in Actors, Remove(a)
  PROVE  ChoiceInv'
<1>1. PICK p \in Dead(a) : scan' = [scan EXCEPT ![a].stale = @ \ {p}]
  BY DEF Remove
<1>. DEFINE n == [scan[a] EXCEPT !.stale = @ \ {p}]
<1>2. n.todo = scan[a].todo /\ n.active = scan[a].active
  BY DEF LookInv
<1>3. IsFiniteSet(n.todo) /\ IsFiniteSet(n.active)
  BY <1>2 DEF ChoiceInv, Right
<1>4. UNCHANGED actor \/ Ends(a, "failed")
  BY DEF Remove
<1>5. (\A b \in Actors \ {a} : actor'[b] = actor[b]) /\ actor'[a].at \notin Aiming
  <2>1. actor[a].at = "removing"
    BY DEF Remove
  <2>. QED  BY <1>4, <2>1, ActorFacts DEF Ends, Aiming
<1>6. scan' = [scan EXCEPT ![a] = n]
  BY <1>1 DEF LookInv
<1>. HIDE DEF n
<1>. QED  BY <1>3, <1>5, <1>6, LooksOn

\* Of several only the youngest is chosen, and only by those who do not mind.
LEMMA ChoosesWell ==
  ASSUME IInv, LookInv, AgesInv, ChoiceInv, NEW a \in Actors, Scanned(a),
         NEW p \in Candidates(a), NEW l \in scan[a].there, Settled(l),
         Meant(l, actor[a].want.name)
  PROVE  Own(l) = p \/ (actor[a].want.aggressive /\ Ahead(p, l))
<1>1. l \in Actors /\ Own(l) \in DOMAIN files /\ files[Own(l)] = l
  BY DEF LookInv, Settled
<1>2. Own(l) \in Found(a) /\ p \in Found(a)
  <2>1. Own(l) \in scan[a].active
    BY DEF LookInv, Scanned
  <2>2. Tail(Own(l)) = daemon[l].name
    BY <1>1, TailOfPath DEF Own, IInv, DaemonsInv
  <2>3. Matches(Own(l), actor[a].want.name)
    BY <2>2 DEF Matches, Meant
  <2>. QED  BY <2>1, <2>3 DEF Found, Candidates
<1>3. CASE ~actor[a].want.aggressive
  <2>1. Cardinality(Found(a)) <= 1 /\ IsFiniteSet(Found(a))
    <3>1. IsFiniteSet(Found(a))
      <4>1. IsFiniteSet(scan[a].active) /\ Found(a) \subseteq scan[a].active
        BY DEF ChoiceInv, Right, Found
      <4>. QED  BY <4>1, FS_Subset
    <3>2. Cardinality(Found(a)) \in Nat
      BY <3>1, FS_CardinalityType
    <3>3. ~(Cardinality(Found(a)) > 1)
      BY <1>3 DEF Candidates
    <3>. QED  BY <3>1, <3>2, <3>3
  <2>2. Own(l) = p
    <3>1. SUFFICES ASSUME Own(l) # p PROVE FALSE
      OBVIOUS
    <3>. DEFINE S == {Own(l)}
                T == S \union {p}
    <3>2. IsFiniteSet(S) /\ Cardinality(S) = 1
      BY FS_Singleton
    <3>3. p \notin S
      BY <3>1
    <3>5. T \subseteq Found(a)
      BY <1>2
    <3>4. Cardinality(T) = 2
      <4>. HIDE DEF S
      <4>1. Cardinality(T) = Cardinality(S) + 1
        BY <3>2, <3>3, FS_AddElement
      <4>. HIDE DEF T
      <4>. QED  BY <3>2, <4>1
    <3>6. Cardinality(T) <= Cardinality(Found(a))
      BY <2>1, <3>5, FS_Subset
    <3>7. Cardinality(Found(a)) \in Nat
      BY <2>1, FS_CardinalityType
    <3>. HIDE DEF T
    <3>. QED  BY <2>1, <3>4, <3>6, <3>7
  <2>. QED  BY <2>2
<1>4. CASE actor[a].want.aggressive
  <2>1. scan[a].ages[Own(l)] <= scan[a].ages[p] /\ Own(l) \in DOMAIN scan[a].ages
        /\ p \in DOMAIN scan[a].ages /\ Dated(a)
    BY <1>2, <1>4 DEF Candidates, Found, Scanned, Undated, ChoiceInv, Right
  <2>2. SUFFICES ASSUME Own(l) # p, p \in DOMAIN files
                 PROVE  daemon[l].age < daemon[files[p]].age
    BY <1>4 DEF Ahead
  <2>3. daemon[l].age <= daemon[files[p]].age
    <3>1. scan[a].ages[Own(l)] = daemon[l].age /\ scan[a].ages[p] \in Nat
          /\ scan[a].ages[p] <= daemon[files[p]].age
      BY <2>1, <2>2, AgedIsFinite DEF Dated
    <3>2. daemon[l].age \in Nat /\ daemon[files[p]].age \in Nat
      BY <1>1, <2>2 DEF IInv, SocketsInv, DaemonsInv
    <3>. QED  BY <2>1, <3>1, <3>2
  <2>4. files[p] \in Actors /\ files[p] # l
    BY <2>2 DEF IInv, SocketsInv
  <2>5. daemon[l].age \in Nat /\ daemon[l].age > 0 /\ daemon[files[p]].age \in Nat
    BY <1>1, <2>4 DEF IInv, SocketsInv, Binds, DaemonsInv
  <2>6. daemon[l].age # daemon[files[p]].age
    BY <1>1, <2>4, <2>5 DEF AgesInv
  <2>. QED  BY <2>3, <2>5, <2>6
<1>. QED  BY <1>3, <1>4

LEMMA ChooseAims ==
  ASSUME IInv, IInv', LookInv, Steady, Ageing, AgesInv, ChoiceInv, NEW a \in Actors, Choose(a)
  PROVE  ChoiceInv'
<1>1. Scanned(a) /\ UNCHANGED <<files, daemon>>
  BY DEF Choose
<1>2. CASE UNCHANGED scan /\ \E v : Ends(a, v)
  BY <1>2, EndsAside
<1>3. CASE UNCHANGED scan /\ actor' = [actor EXCEPT ![a].at = "idle", ![a].want.form = "screen"]
  <2>1. (\A b \in Actors \ {a} : actor'[b] = actor[b]) /\ actor'[a].at = "idle"
    BY <1>3, ActorFacts
  <2>. QED  BY <1>3, <2>1, TurnsAside DEF Aiming
<1>4. CASE \E p \in Candidates(a) : Goes(a, "connecting") /\ scan' = [scan EXCEPT ![a].target = p]
  <2>1. PICK p \in Candidates(a) : Goes(a, "connecting") /\ scan' = [scan EXCEPT ![a].target = p]
    BY <1>4
  <2>2. /\ \A b \in Actors \ {a} : actor'[b] = actor[b] /\ scan'[b] = scan[b]
        /\ actor'[a].at = "connecting" /\ actor'[a].want = actor[a].want
        /\ scan'[a].target = p /\ scan'[a].there = scan[a].there
        /\ scan'[a].todo = scan[a].todo /\ scan'[a].active = scan[a].active
    BY <2>1, ActorFacts DEF Goes, LookInv
  <2>3. Matches(p, actor[a].want.name)
    BY DEF Candidates, Found
  <2>4. \A l \in scan[a].there : Settled(l) /\ Meant(l, actor[a].want.name)
          => Own(l) = p \/ (actor[a].want.aggressive /\ Ahead(p, l))
    BY <1>1, ChoosesWell
  <2>5. Aimed(a)'
    BY <1>1, <2>2, <2>3, <2>4 DEF Aimed, Settled, Listens, Meant, Own, Path, Ahead, Matches
  <2>6. Right(a)'
    BY <2>2, <2>5 DEF Right, ChoiceInv
  <2>. QED  BY <2>2, <2>6, OthersChoose
<1>. QED  BY <1>2, <1>3, <1>4 DEF Choose

LEMMA ConnectHits ==
  ASSUME IInv, IInv', LookInv, Steady, Ageing, ChoiceInv, NEW a \in Actors, Connect(a)
  PROVE  ChoiceInv'
<1>. DEFINE p == scan[a].target
            d == files[p]
<1>1. UNCHANGED <<files, daemon, scan>> /\ Aimed(a)
  BY DEF Connect, ChoiceInv, Right
<1>2. CASE Ends(a, "failed")
  BY <1>1, <1>2, EndsAside
<1>3. CASE Connectable(p) /\ actor' = [actor EXCEPT ![a].at = "attached", ![a].reached = d]
  <2>1. /\ \A b \in Actors \ {a} : actor'[b] = actor[b]
        /\ actor'[a].at = "attached" /\ actor'[a].want = actor[a].want /\ actor'[a].reached = d
    BY <1>3, ActorFacts
  <2>2. d \in Actors /\ Own(d) = p /\ p \in DOMAIN files /\ Lasting(d)
    BY <1>3 DEF Connectable, IInv, SocketsInv, Listens, Lasting
  <2>3. Meant(d, actor[a].want.name)
    <3>1. Tail(p) = daemon[d].name
      <4>. HIDE DEF d, p
      <4>1. daemon[d].name \in Seq(Parts) /\ p = Path(daemon[d].pid, daemon[d].name)
        BY <2>2 DEF Own, IInv, DaemonsInv
      <4>. QED  BY <4>1, TailOfPath
    <3>. QED  BY <1>1, <2>2, <3>1 DEF Aimed, Matches, Meant
  <2>4. ASSUME NEW l \in scan[a].there \ {d}, Settled(l), Meant(l, actor[a].want.name)
        PROVE  actor[a].want.aggressive /\ daemon[l].age < daemon[d].age
    <3>1. Own(l) # p
      BY <2>4 DEF Settled
    <3>. QED  BY <1>1, <2>2, <2>4, <3>1 DEF Aimed, Ahead
  <2>. HIDE DEF d
  <2>5. Hit(a)'
    BY <1>1, <2>1, <2>2, <2>3, <2>4 DEF Hit, Lasting, Settled, Listens, Meant, Own, Path
  <2>6. Right(a)'
    BY <1>1, <2>1, <2>5 DEF Right, ChoiceInv
  <2>. QED  BY <1>1, <2>1, <2>6, OthersChoose
<1>. QED  BY <1>2, <1>3 DEF Connect

LEMMA ChoiceStep ==
  ASSUME IInv, IInv', LookInv, AgesInv, ChoiceInv, [Next]_vars
  PROVE  AgesInv' /\ ChoiceInv'
<1>1. Steady /\ Ageing /\ AgesInv'
  BY SteadyStep, AgesStep
<1>2. CASE \E a \in Actors : OpenRuntime(a) \/ MakeRuntime(a) \/ RestrictRuntime(a)
  BY <1>1, <1>2, OthersAside
<1>3. CASE \E a \in Actors : Spawn(a) \/ Started(a) \/ ChildExited(a) \/ GaveUp(a)
  BY <1>1, <1>3, OthersAside
<1>4. CASE \E a \in Actors : Read(a) \/ Probe(a) \/ Date(a) \/ Choose(a) \/ Connect(a) \/ Show(a)
  BY <1>1, <1>4, OthersAside, ReadAside, ProbeAside, DateAside, ChooseAims, ConnectHits
<1>5. CASE \E a \in Actors : Sweep(a) \/ Remove(a) \/ Swept(a) \/ Leave(a)
  BY <1>1, <1>5, OthersAside, RemoveAside
<1>6. CASE scan' = scan /\ actor' = actor
  BY <1>1, <1>6, RightStays DEF ChoiceInv
<1>7. CASE \E l \in Actors : Bind(l) \/ Listen(l) \/ Guard(l) \/ SetUp(l) \/ Finish(l) \/ Kill(l)
  BY <1>6, <1>7 DEF Bind, Listen, Guard, SetUp, Finish, Kill
<1>8. CASE UNCHANGED vars
  BY <1>6, <1>8 DEF vars
<1>. QED  BY <1>1, <1>2, <1>3, <1>4, <1>5, <1>7, <1>8 DEF Next

LEMMA ChoiceStart == ASSUME Init PROVE AgesInv /\ ChoiceInv
<1>1. PICK s \in Scenarios :
    /\ daemon = [a \in Actors |-> IF a \in DOMAIN s.before THEN s.before[a] ELSE NoDaemon]
    /\ \A a \in Actors : actor[a].at \in {"idle", "over"}
  BY DEF Init
<1>. DEFINE B == DOMAIN s.before
<1>2. /\ B \subseteq Actors
      /\ \A a \in B : s.before[a] \in [at : {"serving", "killed"}, pid : Pids, name : Seq(Parts),
                                       age : 1 .. Cardinality(B)]
      /\ \A a, b \in B : s.before[a].age = s.before[b].age => a = b
  BY LaunchAssumption
<1>3. /\ \A a \in B : daemon[a] = s.before[a]
      /\ \A a \in Actors \ B : daemon[a] = NoDaemon
  BY <1>1, <1>2
<1>4. IsFiniteSet(B) /\ Cardinality(B) \in Nat
  BY <1>2, LaunchAssumption, FS_Subset, FS_CardinalityType
<1>5. /\ \A a \in B : daemon[a].age \in 1 .. Cardinality(B) /\ daemon[a].at \in {"serving", "killed"}
      /\ \A a \in Actors \ B : daemon[a].age = 0
  BY <1>2, <1>3 DEF NoDaemon
<1>6. Aged = B
  BY <1>2, <1>4, <1>5 DEF Aged
<1>7. AgesInv
  <2>1. \A l \in Actors : daemon[l].age <= Cardinality(Aged) /\ (Early(l) => daemon[l].age = 0)
    BY <1>4, <1>5, <1>6 DEF Early
  <2>2. \A k, l \in Actors : daemon[k].age = daemon[l].age /\ daemon[l].age > 0 => k = l
    BY <1>2, <1>3, <1>4, <1>5
  <2>. QED  BY <2>1, <2>2 DEF AgesInv
<1>8. ChoiceInv
  <2>1. \A a \in Actors : scan[a].todo = {} /\ scan[a].active = {}
    BY DEF Init, NoScan
  <2>. QED  BY <1>1, <2>1, FS_EmptySet DEF ChoiceInv, Right
<1>. QED  BY <1>7, <1>8

LEMMA AlwaysChoiceInv == Spec => [](IInv /\ LookInv /\ AgesInv /\ ChoiceInv)
<1>1. Init => AgesInv /\ ChoiceInv
  BY ChoiceStart
<1>2. IInv /\ IInv' /\ LookInv /\ AgesInv /\ ChoiceInv /\ [Next]_vars => (AgesInv /\ ChoiceInv)'
  BY ChoiceStep
<1>. QED  BY <1>1, <1>2, AlwaysLookInv, PTL DEF Spec

(* Whoever attaches by name has a session of that name.  If another was    *)
(* there from before it looked until now, it had said that it does not     *)
(* mind which, and has the one whose socket was bound last - even if the   *)
(* socket it chose was removed and bound again before it was dated, or     *)
(* before it connected.                                                    *)
THEOREM TheOneMeantIsReached == Spec => []ReachesTheOneMeant
<1>1. ChoiceInv => ReachesTheOneMeant
  BY DEF ChoiceInv, Right, Hit, ReachesTheOneMeant
<1>. QED  BY <1>1, AlwaysChoiceInv, PTL
=============================================================================

------------------------------- MODULE Launch -------------------------------
(***************************************************************************)
(* The runtime directory, the daemons whose sockets lie in it, and the     *)
(* screen commands that start, find, list and wipe them.  No lock protects *)
(* the directory: a command looks at one entry after the other, connecting *)
(* to each to learn whether somebody listens, and then acts on what it has *)
(* seen.  What happens once a command has connected is in module Requests. *)
(*                                                                         *)
(* A session's socket is named <pid>.<name>, here the sequence of the two. *)
(* A name may itself begin with a number and a dot.                        *)
(*                                                                         *)
(* An operator named Slip... is its neighbour with one likely slip in it,  *)
(* kept to see which property notices; no specification uses one.          *)
(***************************************************************************)
EXTENDS Basics

CONSTANTS Actors,          \* the runs of screen; each starts at most one daemon
          Pids,
          Parts,           \* what names are made of
          DefaultName,     \* of a session whose user names none
          Slash,           \* what no name may contain
          Scenarios        \* bounds what each actor wants, what is there before, and
                           \* the mishaps

(* What is there before was left by daemons that had come to serve, each   *)
(* with a pid of its own, in a directory nobody else could write to; their *)
(* ages number the sockets in the order they were bound.                   *)
ASSUME LaunchAssumption ==
  /\ IsFiniteSet(Actors)
  /\ DefaultName \in Seq(Parts)
  /\ \A s \in Scenarios :
       /\ \A a \in Actors : /\ DOMAIN s.wants[a] = {"form", "name", "aggressive"}
                            /\ s.wants[a].name \in Seq(Parts)
       /\ DOMAIN s.before \subseteq Actors
       /\ DOMAIN s.before # {} => s.runtime = "private"
       /\ \A a \in DOMAIN s.before :
            /\ s.before[a] \in [at : {"serving", "killed"}, pid : Pids, name : Seq(Parts),
                                age : 1 .. Cardinality(DOMAIN s.before)]
            /\ \A b \in DOMAIN s.before :
                 s.before[a].pid = s.before[b].pid \/ s.before[a].age = s.before[b].age => a = b

VARIABLES runtime,         \* the directory, as a command finds it
          files,           \* the sockets in it, and who bound each
          daemon,          \* the daemon each actor has started
          actor,           \* what each wants, how far it is, how it ended
          scan,            \* what it has learnt of the sockets
          mishaps          \* the mishaps of this scenario

vars == <<runtime, files, daemon, actor, scan, mishaps>>

Members(s) == {s[k] : k \in DOMAIN s}
NoScan == [todo |-> {}, active |-> {}, stale |-> {}, ages |-> << >>, target |-> << >>,
           there |-> {}, gone |-> {}]      \* the last two record the past, no code reads them
NoDaemon == [at |-> "none", pid |-> 0, name |-> << >>, age |-> 0]

TypeOK ==
  /\ runtime \in {"absent", "wide", "private", "foreign"}
  /\ \A p \in DOMAIN files : Len(p) > 1 /\ p[1] \in Pids /\ files[p] \in Actors
  /\ \A a \in Actors :
       /\ daemon[a].name \in Seq(Parts) /\ actor[a].want.name \in Seq(Parts)
       /\ daemon[a].at \in {"none", "starting", "bound", "listening", "guarded", "serving",
                            "ended", "aborted", "killed"}
       /\ daemon[a].age \in 0 .. Cardinality(Actors)
       /\ actor[a].at \in {"idle", "missing", "making", "opened", "waiting", "scanning",
                           "removing", "connecting", "attached", "over"}
       /\ scan[a].there \subseteq Actors /\ scan[a].gone \subseteq Actors

\* Some of the daemons have been there before, serving or killed.
Init ==
  \E s \in Scenarios :
    /\ runtime = s.runtime /\ mishaps = s.mishaps
    /\ actor = [a \in Actors |->
         [want |-> s.wants[a], verdict |-> "none", reached |-> a,
          at |-> IF a \in DOMAIN s.before \/ s.wants[a].form = "nothing" THEN "over" ELSE "idle"]]
    /\ daemon = [a \in Actors |-> IF a \in DOMAIN s.before THEN s.before[a] ELSE NoDaemon]
    /\ files = [p \in {<<s.before[a].pid>> \o s.before[a].name : a \in DOMAIN s.before} |->
                  CHOOSE a \in DOMAIN s.before : p = <<s.before[a].pid>> \o s.before[a].name]
    /\ scan = [a \in Actors |-> NoScan]

-----------------------------------------------------------------------------
(* Names and sockets.                                                      *)

SlipTrusted(r) == r # "foreign"

Path(pid, name) == <<pid>> \o name
Own(l)          == Path(daemon[l].pid, daemon[l].name)

ValidName(name)   == name # << >> /\ Slash \notin Members(name)
SessionName(want) == IF want.name = << >> THEN DefaultName ELSE want.name

SlipMatches(p, name) == name \in {<< >>, p}
\* The name of the socket, or what follows its number; whoever gives none means all.
Matches(p, name) == name \in {<< >>, p, Tail(p)}

Trusted(r) == r = "private"

Alive(l)       == daemon[l].at \notin {"none", "ended", "aborted", "killed"}
Listens(l)     == daemon[l].at \in {"listening", "guarded", "serving"}
Connectable(p) == p \in DOMAIN files /\ Listens(files[p])

\* A daemon that a command finds in the directory, and that answers.
Settled(l) == /\ Listens(l) /\ Own(l) \in DOMAIN files /\ files[Own(l)] = l

With(p, l) == [q \in DOMAIN files \union {p} |-> IF q = p THEN l ELSE files[q]]
Without(p) == [q \in DOMAIN files \ {p} |-> files[q]]

Goes(a, stage)   == actor' = [actor EXCEPT ![a].at = stage]
Ends(a, verdict) == actor' = [actor EXCEPT ![a].at = "over", ![a].verdict = verdict]

-----------------------------------------------------------------------------
(* The daemon, from its start to its end.                                  *)

Moves(l, stage) == daemon' = [daemon EXCEPT ![l].at = stage]

Close(l) == Moves(l, "ended") /\ files' = Without(Own(l))

\* A path that is taken is left to whoever took it.
Bind(l) ==
  /\ daemon[l].at = "starting"
  /\ IF Own(l) \in DOMAIN files THEN Moves(l, "ended") /\ UNCHANGED files
     ELSE /\ files' = With(Own(l), l)
          /\ daemon' = [daemon EXCEPT ![l].at = "bound",
                          ![l].age = 1 + Cardinality({k \in Actors : daemon[k].age > 0})]
  /\ UNCHANGED <<runtime, actor, scan, mishaps>>

\* The library binds and listens in two calls.
Listen(l) ==
  /\ daemon[l].at = "bound" /\ Moves(l, "listening")
  /\ UNCHANGED <<runtime, files, actor, scan, mishaps>>

\* Restricted to its owner and made not to block, then put in the charge of a cleanup.
\* Who fails before that leaves the socket; one that is gone cannot be restricted.
Guard(l) ==
  /\ daemon[l].at = "listening"
  /\ \/ Own(l) \in DOMAIN files /\ Moves(l, "guarded")
     \/ (Own(l) \notin DOMAIN files \/ "guard" \in mishaps) /\ Moves(l, "aborted")
  /\ UNCHANGED <<runtime, files, actor, scan, mishaps>>

SlipSetUp(l) ==
  /\ daemon[l].at = "guarded"
  /\ \/ Moves(l, "serving") /\ UNCHANGED files
     \/ "windows" \in mishaps /\ Moves(l, "ended") /\ UNCHANGED files
  /\ UNCHANGED <<runtime, actor, scan, mishaps>>

\* The first window, those of the configuration, the log: any of them may fail.
SetUp(l) ==
  /\ daemon[l].at = "guarded"
  /\ \/ Moves(l, "serving") /\ UNCHANGED files
     \/ "windows" \in mishaps /\ Close(l)
  /\ UNCHANGED <<runtime, actor, scan, mishaps>>

Finish(l) ==
  /\ daemon[l].at = "serving" /\ Close(l)
  /\ UNCHANGED <<runtime, actor, scan, mishaps>>

Kill(l) ==
  /\ "kills" \in mishaps /\ Alive(l) /\ Moves(l, "killed")
  /\ UNCHANGED <<runtime, files, actor, scan, mishaps>>

-----------------------------------------------------------------------------
(* The runtime directory.                                                  *)

OpenRuntime(a) ==
  /\ actor[a].at = "idle"
  /\ CASE runtime = "absent" -> Goes(a, "missing")
       [] Trusted(runtime)   -> Goes(a, "opened")
       [] OTHER              -> Ends(a, "failed")
  /\ UNCHANGED <<runtime, files, daemon, scan, mishaps>>

\* The user's mask may let the group write to a new directory.
MakeRuntime(a) ==
  /\ actor[a].at = "missing" /\ Goes(a, "making")
  /\ runtime' \in IF runtime = "absent" THEN {"wide", "private"} ELSE {runtime}
  /\ UNCHANGED <<files, daemon, scan, mishaps>>

RestrictRuntime(a) ==
  /\ actor[a].at = "making" /\ runtime' = "private" /\ Goes(a, "opened")
  /\ UNCHANGED <<files, daemon, scan, mishaps>>

-----------------------------------------------------------------------------
(* Starting a session.                                                     *)

\* A child that has ended keeps its number until whoever started it has ended too.
PidFree(p) == \A l \in Actors :
    daemon[l].at # "none" /\ daemon[l].pid = p => ~Alive(l) /\ actor[l].at = "over"

Starts(a) == actor[a].want.form \in {"create", "screen"}

Spawn(a) ==
  /\ actor[a].at = "opened" /\ Starts(a)
  /\ LET name == SessionName(actor[a].want)
         free == {p \in Pids : PidFree(p)}
     IN  IF "config" \in mishaps \/ ~ValidName(name) \/ free = {}
         THEN Ends(a, "failed") /\ UNCHANGED daemon
         ELSE \E p \in free :
                /\ daemon' = [daemon EXCEPT ![a] = [at |-> "starting", pid |-> p,
                                                    name |-> name, age |-> 0]]
                /\ Goes(a, "waiting")
  /\ UNCHANGED <<runtime, files, scan, mishaps>>

SlipSeen(a) == \E p \in DOMAIN files : Matches(p, daemon[a].name)
Seen(a)     == Own(a) \in DOMAIN files

\* A user at a terminal goes on to attach, by the name of the session and to no other.
Started(a) ==
  /\ actor[a].at = "waiting" /\ Seen(a)
  /\ IF actor[a].want.form = "create" THEN Ends(a, "ok")
     ELSE actor' = [actor EXCEPT ![a].at = "idle", ![a].want.form = "attach",
                                 ![a].want.name = SessionName(actor[a].want),
                                 ![a].want.aggressive = FALSE]
  /\ UNCHANGED <<runtime, files, daemon, scan, mishaps>>

ChildExited(a) ==
  /\ actor[a].at = "waiting" /\ ~Seen(a) /\ ~Alive(a) /\ Ends(a, "failed")
  /\ UNCHANGED <<runtime, files, daemon, scan, mishaps>>

SlipGaveUp(a) == FALSE /\ UNCHANGED vars

\* After two seconds; the daemon goes on.
GaveUp(a) ==
  /\ actor[a].at = "waiting" /\ ~Seen(a) /\ Alive(a) /\ Ends(a, "failed")
  /\ UNCHANGED <<runtime, files, daemon, scan, mishaps>>

-----------------------------------------------------------------------------
(* Looking for sessions.                                                   *)

\* Only who wants one session has the name checked.
Read(a) ==
  /\ actor[a].at = "opened" /\ ~Starts(a)
  /\ LET want == actor[a].want
     IN  IF want.form \in {"attach", "reattach"} /\ want.name # << >> /\ ~ValidName(want.name)
         THEN Ends(a, "failed") /\ UNCHANGED scan
         ELSE /\ Goes(a, "scanning")
              /\ scan' = [scan EXCEPT ![a] =
                   [NoScan EXCEPT !.todo = DOMAIN files,
                                  !.there = {l \in Actors : Settled(l)},
                                  !.gone = {files[p] : p \in {q \in DOMAIN files : ~Alive(files[q])}}]]
  /\ UNCHANGED <<runtime, files, daemon, mishaps>>

\* An entry that is gone by now is left out.
Look(a, p) ==
  [scan[a] EXCEPT !.todo = @ \ {p},
                  !.active = IF Connectable(p) THEN @ \union {p} ELSE @,
                  !.stale  = IF p \in DOMAIN files /\ ~Connectable(p) THEN @ \union {p} ELSE @]

Undated(a) == scan[a].active \ DOMAIN scan[a].ages
Age(p)     == IF p \in DOMAIN files THEN daemon[files[p]].age ELSE 0

Probe(a) ==
  /\ actor[a].at = "scanning" /\ Undated(a) = {}
  /\ \E p \in scan[a].todo : scan' = [scan EXCEPT ![a] = Look(a, p)]
  /\ UNCHANGED <<runtime, files, daemon, actor, mishaps>>

\* Of a socket that answered, how old it is by then; none, if it is gone.
Date(a) ==
  /\ actor[a].at = "scanning"
  /\ \E p \in Undated(a) :
       scan' = [scan EXCEPT ![a].ages = [q \in DOMAIN @ \union {p} |-> IF q = p THEN Age(p) ELSE @[q]]]
  /\ UNCHANGED <<runtime, files, daemon, actor, mishaps>>

Scanned(a) == actor[a].at = "scanning" /\ scan[a].todo = {} /\ Undated(a) = {}
Found(a)   == {p \in scan[a].active : Matches(p, actor[a].want.name)}

SlipCandidates(a) == Found(a)
\* The youngest of several as they were dated, for those who do not mind which.
Candidates(a) ==
  IF Cardinality(Found(a)) > 1 /\ ~actor[a].want.aggressive THEN {}
  ELSE {p \in Found(a) : \A q \in Found(a) : scan[a].ages[q] <= scan[a].ages[p]}

Choose(a) ==
  /\ Scanned(a) /\ actor[a].want.form \in {"attach", "reattach"}
  /\ \/ \E p \in Candidates(a) : /\ Goes(a, "connecting")
                                 /\ scan' = [scan EXCEPT ![a].target = p]
     \/ /\ Found(a) = {}
        /\ IF actor[a].want.form = "attach" THEN Ends(a, "missing")
           ELSE actor' = [actor EXCEPT ![a].at = "idle", ![a].want.form = "screen"]
        /\ UNCHANGED scan
     \/ /\ Found(a) # {} /\ Candidates(a) = {} /\ Ends(a, "ambiguous")
        /\ UNCHANGED scan
  /\ UNCHANGED <<runtime, files, daemon, mishaps>>

Connect(a) ==
  /\ actor[a].at = "connecting"
  /\ LET p == scan[a].target
     IN  IF Connectable(p)
         THEN actor' = [actor EXCEPT ![a].at = "attached", ![a].reached = files[p]]
         ELSE Ends(a, "failed")
  /\ UNCHANGED <<runtime, files, daemon, scan, mishaps>>

Leave(a) ==
  /\ actor[a].at = "attached" /\ Ends(a, "ok")
  /\ UNCHANGED <<runtime, files, daemon, scan, mishaps>>

\* It fails when there is none, dead or alive.
Show(a) ==
  /\ Scanned(a) /\ actor[a].want.form = "list"
  /\ Ends(a, IF \E p \in scan[a].active \union scan[a].stale : Matches(p, actor[a].want.name)
             THEN "ok" ELSE "failed")
  /\ UNCHANGED <<runtime, files, daemon, scan, mishaps>>

Sweep(a) ==
  /\ Scanned(a) /\ actor[a].want.form = "wipe" /\ Goes(a, "removing")
  /\ UNCHANGED <<runtime, files, daemon, scan, mishaps>>

SlipDead(a) == {p \in scan[a].stale : p = actor[a].want.name}
Dead(a)     == {p \in scan[a].stale : Matches(p, actor[a].want.name)}

\* A socket somebody else has removed ends the sweep, whatever is left.
Remove(a) ==
  /\ actor[a].at = "removing"
  /\ \E p \in Dead(a) :
       /\ scan' = [scan EXCEPT ![a].stale = @ \ {p}]
       /\ IF p \in DOMAIN files THEN files' = Without(p) /\ UNCHANGED actor
          ELSE Ends(a, "failed") /\ UNCHANGED files
  /\ UNCHANGED <<runtime, daemon, mishaps>>

\* Then it lists what there is.
Swept(a) ==
  /\ actor[a].at = "removing" /\ Dead(a) = {}
  /\ actor' = [actor EXCEPT ![a].at = "opened", ![a].want.form = "list"]
  /\ UNCHANGED <<runtime, files, daemon, scan, mishaps>>

-----------------------------------------------------------------------------
Screen(a) ==
  \/ OpenRuntime(a) \/ MakeRuntime(a) \/ RestrictRuntime(a)
  \/ Spawn(a) \/ Started(a) \/ ChildExited(a) \/ GaveUp(a)
  \/ Read(a) \/ Probe(a) \/ Date(a) \/ Choose(a) \/ Connect(a) \/ Show(a)
  \/ Sweep(a) \/ Remove(a) \/ Swept(a)

Next ==
  \/ \E a \in Actors : OpenRuntime(a) \/ MakeRuntime(a) \/ RestrictRuntime(a)
  \/ \E a \in Actors : Spawn(a) \/ Started(a) \/ ChildExited(a) \/ GaveUp(a)
  \/ \E a \in Actors : Read(a) \/ Probe(a) \/ Date(a) \/ Choose(a) \/ Connect(a) \/ Show(a)
  \/ \E a \in Actors : Sweep(a) \/ Remove(a) \/ Swept(a) \/ Leave(a)
  \/ \E l \in Actors : Bind(l) \/ Listen(l) \/ Guard(l) \/ SetUp(l) \/ Finish(l) \/ Kill(l)

Spec == Init /\ [][Next]_vars

\* A run of screen waits for nobody but a pid; a daemon may be as slow as it likes.
FairSpec == Spec /\ \A a \in Actors : WF_vars(Screen(a))

-----------------------------------------------------------------------------
(* Nothing is put into a directory others can write to, however many runs  *)
(* of screen make it at once: each checks or restricts it before it goes   *)
(* on.                                                                     *)
SocketsArePrivate == DOMAIN files # {} => runtime = "private"

(* A daemon that ends by itself leaves no socket behind, however far its   *)
(* start has come, except between its bind and its cleanup: one whose      *)
(* socket cannot be restricted, or made not to block, leaves it, as one    *)
(* that is killed does.                                                    *)
NothingLeftBehind == \A p \in DOMAIN files : daemon[files[p]].at # "ended"

(* A start that is reported as done has a daemon that has bound its socket *)
(* - except where one that was killed, or failed before its cleanup, left  *)
(* a socket of that very name, for the pid has come round: then the new    *)
(* daemon gives up, and its starter takes the old socket for its success.  *)
HonestStart ==
  \A a \in Actors :
    actor[a].want.form = "create" /\ actor[a].verdict = "ok" /\ daemon[a].age = 0
      => \E l \in Actors \ {a} : daemon[l].at \in {"aborted", "killed"} /\ Own(l) = Own(a)

\* By its name or by its socket's; no name means any.
Meant(l, name) == name \in {<< >>, daemon[l].name, Own(l)}

(* Whoever attaches by name gets a session of that name, and no other that *)
(* was there from before it looked until now: it does not pick one of      *)
(* several, or, if told to, it picks the youngest; and who was told to but *)
(* found none, and has started one, has forgotten that it was.             *)
ReachesTheOneMeant ==
  \A a \in Actors : actor[a].at = "attached" =>
    LET d == actor[a].reached
    IN  /\ Meant(d, actor[a].want.name)
        /\ \A l \in scan[a].there \ {d} :
             Settled(l) /\ Meant(l, actor[a].want.name)
               => actor[a].want.aggressive /\ daemon[l].age < daemon[d].age

(* A session that is there all the while is found: nobody is told there is *)
(* none, and -R starts no second one beside it.                            *)
FoundIfThere ==
  \A a \in Actors : actor[a].verdict = "missing" \/ actor[a].want.form = "screen" =>
    \A l \in scan[a].there : ~(Settled(l) /\ Meant(l, actor[a].want.name))

(* A wipe never takes the socket of a session that was there when it began *)
(* to look, and when it goes through, what dead daemons had left by then   *)
(* is gone, whoever removed it.  (It may take a socket whose daemon had    *)
(* bound it and not listened, or has come by the pid of a dead one after   *)
(* the wipe had looked: that session then serves where nobody can reach    *)
(* it.)                                                                    *)
WipeTakesOnlyTheDead ==
  [][\A a \in Actors :
       /\ actor[a].at = "removing" /\ scan'[a] # scan[a] =>
            \A l \in scan[a].there : Settled(l) => Settled(l)'
       /\ Swept(a) =>
            \A p \in DOMAIN files :
              Meant(files[p], actor[a].want.name) => files[p] \notin scan[a].gone]_vars

(* Every run of screen comes to an answer or is attached, even if the      *)
(* daemon it has started hangs before it binds its socket.                 *)
EveryRunAnswers == \A a \in Actors : <>(actor[a].at \in {"attached", "over"})
=============================================================================

----------------------------- MODULE MCRequests -----------------------------
(* An instance of Requests for TLC: a peer that runs any command or asks   *)
(* any question, one that attaches or changes the rules, and one that      *)
(* attaches, looks or falls silent.                                        *)
EXTENDS Requests, TLC

Plain == [form |-> "run", verb |-> "none", number |-> 0, sets |-> "none", value |-> "none",
          complete |-> TRUE, shared |-> FALSE, upfront |-> FALSE]

Verbs   == DOMAIN Remote \union LocalVerbs \union {"unheard of"}
Numbered == {"select", "kill", "number", "remove", "at", "hardcopy"}
Runs    == {[Plain EXCEPT !.verb = v, !.number = n] : v \in Verbs \ {"exec"}, n \in {0}}
           \union {[Plain EXCEPT !.verb = v, !.number = 1] : v \in Numbered}
           \union {[Plain EXCEPT !.verb = v, !.complete = FALSE] : v \in NeedsArgument}
           \union {[Plain EXCEPT !.verb = "exec", !.sets = "screen"]}
Asks    == {[Plain EXCEPT !.form = "query", !.verb = v]
            : v \in DOMAIN Questions \union EmptyQuestions \union NoQuestions \union {"detach"}}
Attaches == {[Plain EXCEPT !.form = "attach", !.shared = s, !.upfront = u]
             : s, u \in BOOLEAN}
Strays  == {[Plain EXCEPT !.form = f] : f \in {"probe", "silent", "garbled"}}
CONSTANTS runner, guest, stray

Rules(w, m, a) == [password |-> w, multiuser |-> m, acl |-> a]
OpenRules == Rules("no password", FALSE, {})
Closed    == Rules("right", FALSE, {})
Listed    == Rules("no password", TRUE, {"ann"})
Changing(c, value) == [Plain EXCEPT !.verb = c, !.sets = c, !.value = value]
\* A change of the rules, and rules that it changes.
Turns == {<<Changing("password", "right"), OpenRules>>, <<Changing("password", "wrong"), Closed>>,
          <<Changing("multiuser", "on"), OpenRules>>, <<Changing("multiuser", "off"), Listed>>,
          <<Changing("acladd", "*"), Listed>>, <<Changing("acladd", "bob"), Rules("right", TRUE, {})>>,
          <<Changing("acldel", "ann"), Listed>>}

Cast(r, g, s) == runner :> r @@ guest :> g @@ stray :> s
Scene(w, r, m) == [wants |-> w, rules |-> r, mishaps |-> m]

\* Any command meets one that changes its window, ends the daemon, or blocks the loop.
Nothing == [Plain EXCEPT !.form = "nothing"]
Meeting == {[Plain EXCEPT !.verb = v] : v \in {"kill", "wipe", "quit"}}
Commands == {Scene(Cast(r, g, Nothing), OpenRules, {"exits"}) : r \in Runs, g \in Meeting}
  \union {Scene(Cast(r, [Plain EXCEPT !.form = "silent"], Nothing), OpenRules, {"hangups"})
          : r \in Runs \union Asks}
\* Two attach under rules that a command changes.
Gathering == {Scene(Cast(t[1], g, s), t[2], {})
              : t \in Turns, g \in Attaches, s \in {a \in Attaches : ~a.upfront}}
\* Peers that do not speak the protocol to its end, and attached clients.
Passing == {Scene(Cast(r, g, s), rules, {"hangups"})
            : r \in {[Plain EXCEPT !.verb = v] : v \in {"detach", "redisplay"}},
              g \in {a \in Attaches : ~a.upfront}, s \in Strays,
              rules \in {OpenRules, Closed}}

\* The last window is killed and wiped before a client attaches.
Emptying == {Scene(Cast([Plain EXCEPT !.verb = "kill", !.number = 1], g, [Plain EXCEPT !.verb = "wipe"]),
                   OpenRules, {"exits", "hangups"})
             : g \in {a \in Attaches : ~a.upfront /\ ~a.shared}}
\* Peers without credentials, and peers that answer the challenge with something else.
Disguised == {Scene(Cast(t[1], g, s), t[2], {"unknown"})
              : t \in {<<Changing("acladd", "root"), Rules("right", TRUE, {})>>,
                       <<Changing("acldel", "root"), Rules("no password", TRUE, {"root"})>>},
                g \in {a \in Attaches : a.upfront /\ ~a.shared}, s \in {a \in Attaches : ~a.upfront}}
Confused  == {Scene(Cast(r, g, s), Closed, {"confusion"})
              : r \in {[Plain EXCEPT !.verb = "redisplay"], Changing("password", "wrong")},
                g \in {a \in Attaches : ~a.upfront}, s \in {a \in Attaches : ~a.upfront /\ ~a.shared}}

MCScenarios == Commands \union Gathering \union Passing \union Emptying \union Disguised
               \union Confused

MCName  == runner :> "ann" @@ guest :> "ann" @@ stray :> "bob"
MCKnows == runner :> "right" @@ guest :> "right" @@ stray :> "wrong"
=============================================================================

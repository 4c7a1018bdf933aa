------------------------------ MODULE MCClient ------------------------------
(* An instance of Client for TLC.                                          *)
EXTENDS Client, TLC

\* How often the one query is found in the line, and the other.
Line(one, other, splits) ==
  [found |-> ("one" :> one) @@ ("other" :> other), splits |-> splits]
MCQueries == {"one", "other"}
MCHistories == { << >>,
                 <<Line(1, 0, FALSE), Line(0, 1, FALSE), Line(1, 0, FALSE)>>,
                 <<Line(0, 0, TRUE), Line(0, 0, FALSE), Line(0, 0, FALSE)>> }
MCPages == {2}

MCUsers == { {"copy", "detach"},
             {"plain", "mute", "ask", "detach"},
             {"show", "reset", "lock", "enter"},
             {"flash", "digraph", "quit", "power"},
             {"load", "paste", "meta", "escape"} }

MCConfig == "mute" :> "detach"
MCRuntime == {("plain" :> "window") @@ ("ask" :> "unknown")}
=============================================================================

----------------------------- MODULE WindowLife -----------------------------
(***************************************************************************)
(* What a session promises about the life of its windows, whoever asks and *)
(* wherever the table keeps them: an id is given once; a program that has  *)
(* exited is found out, and only then, or by a kill, is its window dead;   *)
(* what is dead stays dead, and only what is dead is removed.  Module      *)
(* ScreenSession implements it with a table of rows.                       *)
(***************************************************************************)
EXTENDS Naturals

VARIABLES next,     \* the next id
          running,  \* the windows whose program runs
          exited,   \* those whose program has exited, unnoticed so far
          dead,     \* the zombies
          nuke      \* whether the dead are removed at once

vars == <<next, running, exited, dead, nuke>>

Init ==
  /\ next \in Nat /\ running = 1 .. next - 1
  /\ exited = {} /\ dead = {} /\ nuke \in BOOLEAN

(* A window is born, or its program fails to start: its id is used up.     *)
Bear ==
  /\ next' = next + 1
  /\ running' \in {running, running \union {next}}
  /\ UNCHANGED <<exited, dead>>

Exit ==
  /\ \E n \in running : running' = running \ {n} /\ exited' = exited \union {n}
  /\ UNCHANGED <<next, dead>>

(* Every exit so far is noticed.                                           *)
Notice ==
  /\ exited' = {}
  /\ dead' = IF nuke THEN {} ELSE dead \union exited
  /\ UNCHANGED <<next, running>>

(* A kill of any window that there is.  Not every kill removes.            *)
Kill ==
  /\ \E n \in running \union exited \union dead :
       /\ running' = running \ {n} /\ exited' = exited \ {n}
       /\ dead' = dead \union {n} \/ (nuke /\ dead' = {})
  /\ UNCHANGED next

Remove ==
  /\ dead' = {} \/ \E n \in dead : dead' = dead \ {n}
  /\ UNCHANGED <<next, running, exited>>

Live == Bear \/ Exit \/ Notice \/ Kill \/ Remove

Next == (Live /\ UNCHANGED nuke) \/ (UNCHANGED <<next, running, exited, dead>> /\ nuke' \in BOOLEAN)

Spec == Init /\ [][Next]_vars
=============================================================================

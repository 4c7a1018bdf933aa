---------------------------- MODULE WindowTable ----------------------------
(***************************************************************************)
(* The window table of a session, as a sequence of rows, and the searches  *)
(* and updates SessionState makes on it.  Indices count from 0, as they do *)
(* in the code.                                                            *)
(*                                                                         *)
(* An operator named Slip... is its neighbour with one likely slip in it,  *)
(* kept to see which property notices; no specification uses one.          *)
(***************************************************************************)
EXTENDS Basics

Window == [id : Nat, number : Nat, alive : BOOLEAN, pty : {"none", "running", "exited"}]

Idx(t) == 0 .. Len(t) - 1
At(t, i) == t[i + 1]
LiveIdx(t) == {i \in Idx(t) : At(t, i).alive}
ExitedIdx(t) == {i \in Idx(t) : At(t, i).pty = "exited"}

\* What windows.iter().position(|w| w.number == n) finds, for some n.
First(t) ==
    {i \in Idx(t) : \A j \in Idx(t) : j < i => At(t, j).number # At(t, i).number}

\* What window_index(n) finds, for some n: the first live window of that number.
FirstLive(t) ==
    {i \in LiveIdx(t) : \A j \in LiveIdx(t) : j < i => At(t, j).number # At(t, i).number}

Numbers(t) == {At(t, i).number : i \in Idx(t)}
Bearer(t, n) == CHOOSE i \in First(t) : At(t, i).number = n

SlipNextIndexAny(t, current) == (current + 1) % Len(t)

\* The live window the fewest steps after `current` (itself the last resort).
NextIndex(t, current) ==
    CHOOSE i \in LiveIdx(t) :
        \A j \in LiveIdx(t) : (i - current - 1) % Len(t) <= (j - current - 1) % Len(t)

PrevIndex(t, current) ==
    CHOOSE i \in LiveIdx(t) :
        \A j \in LiveIdx(t) : (current - i - 1) % Len(t) <= (current - j - 1) % Len(t)

\* The dead rows before index i.
DeadBefore(t, i) == {j \in Idx(t) : j < i /\ ~At(t, j).alive}

\* kill_window: the PTY is taken and dropped in a thread, the row stays.
Killed(t, i) == [t EXCEPT ![i + 1].alive = FALSE, ![i + 1].pty = "none"]

SlipMarked(t) ==
    [k \in DOMAIN t |->
        IF t[k].pty = "exited" /\ \A j \in DOMAIN t : j < k => t[j].pty # "exited"
        THEN [t[k] EXCEPT !.alive = FALSE] ELSE t[k]]

\* mark_exited on every window whose program has gone.
Marked(t) ==
    [k \in DOMAIN t |-> IF t[k].pty = "exited" THEN [t[k] EXCEPT !.alive = FALSE] ELSE t[k]]

Ids(t) == {t[k].id : k \in DOMAIN t}
RunningIds(t) == {t[k].id : k \in {j \in DOMAIN t : t[j].pty = "running"}}
UnnoticedIds(t) == {t[k].id : k \in {j \in DOMAIN t : t[j].alive /\ t[j].pty = "exited"}}
DeadIds(t) == {t[k].id : k \in {j \in DOMAIN t : ~t[j].alive}}

\* Ids grow along the table, and stay below n.
OrderedBelow(t, n) ==
    /\ \A i, j \in Idx(t) : i < j => At(t, i).id < At(t, j).id
    /\ \A i \in Idx(t) : At(t, i).id < n
=============================================================================

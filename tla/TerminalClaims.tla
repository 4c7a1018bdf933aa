--------------------------- MODULE TerminalClaims ---------------------------
(***************************************************************************)
(* What a test in the source says of the terminal, and the code does not   *)
(* keep: a run expects TLC to find it violated.                            *)
(***************************************************************************)
EXTENDS Terminal

Column4  == {[columns |-> 1, rows |-> 4]}

\* "Property: no panic on arbitrary bytes" (lib.rs:2388): no sequence makes the
\* terminal panic.  Deleting lines two rows below the scrolling region drains a
\* range that ends before it starts.
NoPanic == ~panicked
=============================================================================

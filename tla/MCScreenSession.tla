-------------------------- MODULE MCScreenSession --------------------------
(* Instances of ScreenSession for TLC. *)
EXTENDS ScreenSession

NoLimits  == {NoLimit}
TwoLimits == {NoLimit, 1, 2}
=============================================================================

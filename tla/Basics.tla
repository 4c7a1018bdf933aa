------------------------------- MODULE Basics -------------------------------
(***************************************************************************)
(* Arithmetic on unsigned integers, and enumerations, as every component   *)
(* uses them.                                                              *)
(***************************************************************************)
EXTENDS Integers, Sequences, FiniteSets

Lesser(a, b)  == IF a < b THEN a ELSE b
Greater(a, b) == IF a < b THEN b ELSE a
SatSub(a, b)  == IF a < b THEN 0 ELSE a - b

\* The increasing enumeration of a finite set of positions, as a set of one.
Orders(S) ==
    {f \in [1 .. Cardinality(S) -> S] : \A i, j \in DOMAIN f : i < j => f[i] < f[j]}

\* The last n elements of s, or all of it.
LastOnes(s, n) == SubSeq(s, SatSub(Len(s), n) + 1, Len(s))
=============================================================================

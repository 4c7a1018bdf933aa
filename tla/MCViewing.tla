----------------------------- MODULE MCViewing ------------------------------
(* An instance of Viewing for TLC.  Clients and windows are named nowhere, *)
(* and no property is about what happens in the end.                       *)
EXTENDS Viewing, TLC

MCUsers == { {"keys", "output"}, {"keys", "select"}, {"messages", "clients"},
             {"messages", "output"}, {"bells", "select", "clients"} }

Symmetry == Permutations(Clients) \union Permutations(Windows)
=============================================================================

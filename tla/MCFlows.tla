------------------------------- MODULE MCFlows -------------------------------
(* Small instances of Flows for TLC. *)
EXTENDS Flows, TLC

Symmetry == Permutations(Dispatchers) \cup Permutations(Tasks)
=============================================================================

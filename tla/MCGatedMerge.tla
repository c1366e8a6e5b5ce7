----------------------------- MODULE MCGatedMerge -----------------------------
(* Small instances of GatedMerge for TLC. *)
EXTENDS GatedMerge

Symmetry == Permutations(Tasks)
=============================================================================

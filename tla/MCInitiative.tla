----------------------------- MODULE MCInitiative -----------------------------
(* Small instances of Initiative for TLC. *)
EXTENDS Initiative, TLC

CONSTANTS t1, t2, t3

\* A chain with a shortcut, two tasks before one, one before two, and a cycle.
MCGraphs ==
  {(t1 :> {} @@ t2 :> {t1} @@ t3 :> {t1, t2}),
   (t1 :> {} @@ t2 :> {} @@ t3 :> {t1, t2}),
   (t1 :> {} @@ t2 :> {t1} @@ t3 :> {t1}),
   (t1 :> {} @@ t2 :> {t3} @@ t3 :> {t2})}
=============================================================================

-------------------------- MODULE MCReactiveChecker --------------------------
(* Small instances of ReactiveChecker for TLC. *)
EXTENDS ReactiveChecker
=============================================================================

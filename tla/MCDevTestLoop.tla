---------------------------- MODULE MCDevTestLoop ----------------------------
(* Small instances of DevTestLoop for TLC. *)
EXTENDS DevTestLoop

MCFileSets == {{}, {"code"}, {"code", "tests"}, {"md"}}
=============================================================================

-------------------------- MODULE MCCommandRequest --------------------------
(* Small instances of CommandRequest.  The targets are alike: nothing picks one. *)
EXTENDS CommandRequest, TLC

CONSTANTS t1, t2, k1, k2

Symmetry == Permutations(Targets)
=============================================================================

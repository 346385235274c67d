--------------------------- MODULE MCScheduledTask ---------------------------
(* Small instances of ScheduledTask. *)
EXTENDS ScheduledTask

CONSTANTS w1, w2
=============================================================================

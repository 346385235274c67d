---------------------------- MODULE MCPlaybookRun ----------------------------
(* Small instances of PlaybookRun. *)
EXTENDS PlaybookRun

CONSTANTS w1, w2
=============================================================================

-------------------------- MODULE MCTerminalResume --------------------------
(* A small instance of TerminalResume: one window. *)
EXTENDS TerminalResume

CONSTANT w1

=============================================================================

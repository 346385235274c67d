-------------------------- MODULE DelegatedCommand --------------------------
(***************************************************************************)
(* What executeCommandWithAgent promises to whoever hands it a command:    *)
(* one answer, and a command that the server starts at most once.  After   *)
(* an answer that settles the matter the server never starts it, so that   *)
(* a caller who is sent to SSH is the only one to run it.  Rows, claims,   *)
(* polls, heartbeats, leases and lost requests do not appear; AgentJob is  *)
(* shown to implement this specification.                                  *)
(***************************************************************************)

CONSTANTS Jobs, None

VARIABLES
    ran,    \* the command on the server
    told    \* the answer to its caller, or None

vars == <<ran, told>>

Init == ran = [j \in Jobs |-> "never"] /\ told = [j \in Jobs |-> None]

Settling == {"completed", "failed", "cancelled", "ssh"}

\* A command the shell refuses is over at once.
Start(j) == /\ ran[j] = "never" /\ told[j] \notin Settling
            /\ ran'[j] \in {"running", "over"}

End(j) == ran[j] = "running" /\ ran'[j] = "over"

Tell(j) == /\ told[j] = None
           /\ \/ told'[j] = "completed" /\ ran'[j] = "over"
              \/ told'[j] \in {"failed", "cancelled"} /\ ran'[j] # "running"
              \/ told'[j] = "ssh" /\ ran'[j] = "never"
              \/ told'[j] \in {"unknown", "error"}

Next == /\ ran' = [j \in Jobs |-> ran'[j]] /\ told' = [j \in Jobs |-> told'[j]]
        /\ \A j \in Jobs : /\ Start(j) \/ End(j) \/ ran'[j] = ran[j]
                           /\ Tell(j) \/ told'[j] = told[j]

Spec == Init /\ [][Next]_vars

=============================================================================

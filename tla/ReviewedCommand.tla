--------------------------- MODULE ReviewedCommand ---------------------------
(***************************************************************************)
(* What a command request promises to those who ask for it, review it and  *)
(* call it off: no target is sent the command before the request is        *)
(* allowed; every delivery is cleared before it starts, and none is        *)
(* cleared once the request was called off or the target has failed; a     *)
(* request that was called off is not reported as completed any more;      *)
(* every target and the request get one outcome, for good; and "completed" *)
(* is true of every target.                                                *)
(*                                                                         *)
(* It is not promised that nothing starts after the request was called     *)
(* off: a delivery that was cleared before may.  Jobs, enqueuers,          *)
(* heartbeats and sweeps do not appear; CommandRequest is shown to         *)
(* implement this specification.                                           *)
(***************************************************************************)

CONSTANTS Targets, Executors

VARIABLES
    state,     \* of the request
    outcome,   \* of each target
    cleared,   \* deliveries, <<executor, target>>, that may start now
    started    \* deliveries that have started

vars == <<state, outcome, cleared, started>>

Init == /\ state \in {"asked", "allowed"}
        /\ outcome = [t \in Targets |-> "open"]
        /\ cleared = {} /\ started = {}

Review == state = "asked" /\ state' \in {"allowed", "rejected"}

\* What may have started is called off first, and over later.
CallOff == \/ state = "allowed" /\ state' = "stopping"
           \/ state \in {"asked", "allowed", "stopping"} /\ state' = "cancelled"

Fail == state \in {"allowed", "stopping"} /\ state' = "failed"

Complete == /\ state = "allowed" /\ state' = "completed"
            /\ \A t \in Targets : outcome'[t] = "completed"

RequestMoves == Review \/ CallOff \/ Fail \/ Complete \/ state' = state

TargetSettles(t) ==
    /\ outcome[t] = "open"
    /\ \/ outcome'[t] = "completed" /\ \E x \in Executors : <<x, t>> \in started
       \/ outcome'[t] \in {"failed", "cancelled"}
       \/ outcome'[t] = "rejected" /\ state = "rejected"

TargetsMove ==
    /\ outcome' = [t \in Targets |-> outcome'[t]]
    /\ \A t \in Targets : TargetSettles(t) \/ outcome'[t] = outcome[t]

\* A first delivery is cleared for an open target of an allowed request; a second
\* one, by another executor, also after the first has completed.
MayClear(t) == state \in {"allowed", "completed"} /\ outcome[t] \in {"open", "completed"}

Deliveries ==
    /\ \A d \in cleared' \ cleared : d \in Executors \X Targets /\ MayClear(d[2])
    /\ started \subseteq started'
    /\ started' \ started \subseteq cleared

\* One statement may settle several targets.
Next == RequestMoves /\ TargetsMove /\ Deliveries

Spec == Init /\ [][Next]_vars

=============================================================================

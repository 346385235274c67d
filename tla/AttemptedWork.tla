--------------------------- MODULE AttemptedWork ---------------------------
(***************************************************************************)
(* What the durable queue promises to whoever enqueues a job: the job      *)
(* waits, is tried at most MaxAttempts times, every try counted before it  *)
(* starts, goes back to waiting only while a try is left, and is settled   *)
(* once and for good.  Workers, leases, heartbeats and sweeps do not       *)
(* appear; JobQueue is shown to implement this specification.              *)
(***************************************************************************)
EXTENDS Naturals

CONSTANTS Jobs, MaxAttempts

VARIABLES
    phase,   \* where each job stands
    used     \* how many tries it has had

vars == <<phase, used>>

Phases == {"absent", "waiting", "trying", "done"}

Init == /\ phase = [j \in Jobs |-> "absent"]
        /\ used = [j \in Jobs |-> 0]

Submit(j) == /\ phase[j] = "absent" /\ phase'[j] = "waiting"
             /\ used'[j] = used[j]

\* A try starts; it may follow one whose worker was never heard of again.
Try(j) == /\ phase[j] \in {"waiting", "trying"} /\ used[j] < MaxAttempts[j]
          /\ phase'[j] = "trying"
          /\ used'[j] = used[j] + 1

\* A try is over without a result, and another one is left.
GiveBack(j) == /\ phase[j] = "trying" /\ used[j] < MaxAttempts[j]
               /\ phase'[j] = "waiting"
               /\ used'[j] = used[j]

Settle(j) == /\ phase[j] \in {"waiting", "trying"} /\ phase'[j] = "done"
             /\ used'[j] = used[j]

Stays(j) == phase'[j] = phase[j] /\ used'[j] = used[j]

\* One statement of the database may move several jobs.
Next == /\ phase' \in [Jobs -> Phases] /\ used' \in [Jobs -> Nat]
        /\ \A j \in Jobs : Submit(j) \/ Try(j) \/ GiveBack(j) \/ Settle(j) \/ Stays(j)

Spec == Init /\ [][Next]_vars

=============================================================================

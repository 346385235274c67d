---------------------------- MODULE JobQueueCaps ----------------------------
(***************************************************************************)
(* What the caps JOB_MAX_CONCURRENT_* keep.  claimNextJob counts the rows  *)
(* that are RUNNING under a live lease.  A heartbeat that lands after the  *)
(* lease has run out brings a row back that a claim may have stopped       *)
(* counting, so JobQueue is given a history variable here, beside its next *)
(* state relation, that tells such rows from the others.                   *)
(***************************************************************************)
EXTENDS JobQueue

\* A table has finitely many rows.
ASSUME TableAssumption == IsFiniteSet(Jobs)

VARIABLE revived   \* history: live rows brought back by a heartbeat, not by a claim

\* The rows whose heartbeat lands in this step.
Beaten == {b.job : b \in beats \ beats'}

\* A row is revived from when a heartbeat finds it in the same attempt without a
\* live lease, until that lease runs out, its job ends, or it is claimed again.
Revival ==
    revived' = {j \in Active(0)' : /\ jobs'[j].attempts = jobs[j].attempts
                                   /\ j \in revived \/ j \in Beaten \ Active(0)}

CapsInit == Init /\ revived = {}
CapsNext == Next /\ Revival
CapsSpec == CapsInit /\ [][CapsNext]_<<vars, revived>>

-----------------------------------------------------------------------------
Claimed == Active(0) \ revived

\* The caps: the rows RUNNING under a live lease that a claim gave them, all of
\* them, of one creator, or on one storage node, never number more than the cap,
\* however late counts, claims and heartbeats land.  Only a heartbeat that comes
\* after its lease has run out can add to them.
CapsRespected ==
    /\ MaxGlobal > 0 => Cardinality(Claimed) <= MaxGlobal
    /\ \A j \in Jobs :
          /\ MaxPerUser > 0 /\ Owner[j] # Nobody =>
                Cardinality({r \in Claimed : Owner[r] = Owner[j]}) <= MaxPerUser
          /\ MaxPerNode > 0 /\ Node[j] # Nobody =>
                Cardinality({r \in Claimed : Node[r] = Node[j]}) <= MaxPerNode

=============================================================================

------------------------ MODULE CommandRequestProofs ------------------------
(***************************************************************************)
(* Proofs about CommandRequest for any number of targets and of jobs.      *)
(***************************************************************************)
EXTENDS CommandRequest, TLAPS

\* Before its approval, and after a rejection, nobody works on the request.
Quiet ==
    /\ request \in {"PENDING_APPROVAL", "REJECTED"} =>
          /\ \A e \in Enqueuers : enq[e] = "idle"
          /\ \A k \in Jobs : job[k] = "none"
          /\ rec.pc = "idle" /\ cancel.pc \in {"idle", "claim"}
    /\ request = "PENDING_APPROVAL" \/ review = "targets" =>
          \A t \in Targets : target[t] = "PENDING_APPROVAL"
    /\ review = "targets" => request = "REJECTED"

\* A worker has a job, and has not tried any target before it gets to them.
JobsRun ==
    \A k \in Jobs : job[k] \in {"none", "PENDING"} =>
        run[k] = NoRun /\ \A t \in Targets : leg[k][t] = "todo" /\ <<k, t>> \notin sent

\* What is known of the way of a target through executeTarget.
LegsSent ==
    \A k \in Jobs, t \in Targets :
        /\ leg[k][t] \in {"sent", "ok", "won"} => <<k, t>> \in sent
        /\ leg[k][t] = "won" => target[t] = "COMPLETED"

\* A target is COMPLETED by a worker that has sent it the command.
TargetsRan == \A t \in Targets :
    target[t] = "COMPLETED" => \E k \in Jobs : <<k, t>> \in sent

\* COMPLETED is decided by who has found every target COMPLETED.
AllCompleted == \A t \in Targets : target[t] = "COMPLETED"
Decided ==
    /\ request = "COMPLETED" => AllCompleted
    /\ \A k \in Jobs : run[k].next = "COMPLETED" => AllCompleted
    /\ rec.next = "COMPLETED" => AllCompleted

\* An executor settles its job when the request is settled.
Settling ==
    \A k \in Jobs :
        /\ run[k].pc = "finish" =>
              /\ {"RUNNING", "APPROVED"} \subseteq run[k].from
              /\ run[k].next = "CANCELLED" => "CANCELLING" \in run[k].from
        /\ run[k].pc = "ack" => request \in {"CANCELLING"} \cup Terminal
        /\ run[k].pc = "settle" => request \in Terminal

\* Who decides on a request that is called off does not decide for COMPLETED.
StopsFirst ==
    /\ \A k \in Jobs : run[k].next = "COMPLETED" => "CANCELLING" \notin run[k].from
    /\ rec.read = "CANCELLING" => rec.next # "COMPLETED"

\* The inductive invariant.
IInv ==
    /\ TypeOK /\ Quiet /\ JobsRun /\ LegsSent /\ TargetsRan /\ Decided /\ Settling
    /\ StopsFirst
    /\ JobTellsOutcome

\* One enqueuer that has claimed the request, or one job whose enqueueJob was
\* answered: never two.  While the request can be claimed there is none.
Holding == {e \in Enqueuers : enq[e] \in {"mark", "check", "queue", "undoRequest"}}
Queued == {k \in Jobs \ unanswered : job[k] # "none"}
OneClaim ==
    /\ request \in {"PENDING_APPROVAL", "APPROVED"} => Holding = {} /\ Queued = {}
    /\ \A d, e \in Holding : d = e
    /\ \A k, l \in Queued : k = l
    /\ Holding = {} \/ Queued = {}

\* Who takes a step: the reviewer, the operator, the sweep and the enqueuers, or
\* the queue and the worker of a job, on the whole of it or on one target.
Others ==
    \/ ReviewStep \/ SweepQueued \/ CancelStep \/ Age \/ RecStep
    \/ ReviewDies \/ CancelDies \/ RecDies
    \/ \E e \in Enqueuers : EnqStep(e) \/ EnqDies(e)
RunAct(k) == \/ RunStep(k) \/ Beat(k) \/ RunThrows(k) \/ MarkThrows(k)
             \/ JobLost(k) \/ RunDies(k)

\* What a step may do to the request and to a target: a settled one stays as it
\* is, and COMPLETED comes only to a target that was sent its command.
RequestMove ==
    \/ request' = request
    \/ request \notin Terminal /\ (request = "CANCELLING" => request' \in Terminal)
TargetMove(t) ==
    \/ target'[t] = target[t]
    \/ /\ target[t] \notin Terminal
       /\ target'[t] = "COMPLETED" => \E k \in Jobs : <<k, t>> \in sent
       /\ target'[t] = "REJECTED" => request = "REJECTED"

\* What a step may do to the request, as ReviewedCommand sees it, and which
\* deliveries it clears and starts.
Runnable == {"APPROVED", "RUNNING"}
StateMove ==
    \/ request' = request
    \/ request \in Runnable /\ request' \in Runnable
    \/ request = "PENDING_APPROVAL" /\ request' \in {"APPROVED", "REJECTED", "CANCELLED"}
    \/ request \in Runnable /\ request' \in {"CANCELLING", "CANCELLED", "FAILED", "COMPLETED"}
    \/ request = "CANCELLING" /\ request' \in {"CANCELLED", "FAILED"}
WasSent(t) == \E k \in Jobs : <<k, t>> \in sent
ClearMove(k, t) ==
    At(k, t, "checked")' =>
        \/ At(k, t, "checked")
        \/ /\ request \in Runnable \cup {"COMPLETED"}
           /\ target[t] \in Open \cup {"COMPLETED"}
StartMove(k, t) ==
    <<k, t>> \in sent' => <<k, t>> \in sent \/ At(k, t, "checked")

\* The way of a target through executeTarget.
LegMove(k, t) ==
    \/ leg'[k][t] = leg[k][t]
    \/ leg'[k][t] \notin {"sent", "ok", "won"}
    \/ leg'[k][t] = "sent" /\ <<k, t>> \in sent'
    \/ leg'[k][t] = "ok" /\ leg[k][t] = "sent"
    \/ leg'[k][t] = "won" /\ leg[k][t] = "ok" /\ target'[t] = "COMPLETED"

-----------------------------------------------------------------------------
LEMMA Actors ==
    ASSUME [Next]_vars
    PROVE  \/ Others \/ UNCHANGED vars
           \/ \E k \in Jobs : RunAct(k) \/ \E t \in Targets : LegStep(k, t)
  BY DEF Next, Work, Crash, Others, RunAct

\* Nobody else touches what a worker keeps, and work on the targets leaves the
\* request and the queue alone.
LEMMA OthersFrame == Others => UNCHANGED <<run, leg, sent, acked>>
  BY DEF Others, ReviewStep, CancelStep, RecStep, EnqStep, workers, control, Approve, Reject,
         RejectTargets, SweepQueued, CancelRead, CancelClaim, CancelQueued, CancelRunning, Age,
         RecRead, RecWaiting, RecClaim, RecTargets, ReviewDies, CancelDies, RecDies, EnqClaim,
         EnqMark, EnqCheck, EnqQueue, EnqThrows, UndoRequest, UndoTargets, EnqDies

LEMMA RunFrame ==
    ASSUME NEW k \in Jobs, RunAct(k)
    PROVE  UNCHANGED <<sent, acked, enq, unanswered, review, cancel, rec>>
  BY DEF RunAct, RunStep, workers, queue, control, JobClaimed, Start, FirstBeat, EndLegs,
         FinalRead, Finish, Ack, Settle, MarkFailed, MarkTargets, FailJob, Beat, RunThrows,
         MarkThrows, JobLost, RunDies

\* A worker changes what it keeps, or only the row of its job, or only the heartbeat.
LEMMA RunChanges ==
    ASSUME NEW k \in Jobs, RunAct(k)
    PROVE  \/ UNCHANGED <<run, leg>>
           \/ \E pc \in {"start", "finalRead"} : run' = [run EXCEPT ![k].pc = pc] /\ leg' = leg
           \/ \E new : Becomes(k, new)
  BY DEF RunAct, RunStep, workers, Goto, JobClaimed, Start, FirstBeat, EndLegs,
         FinalRead, Finish, Ack, Settle, MarkFailed, MarkTargets, FailJob, Beat, RunThrows,
         MarkThrows, JobLost, RunDies

LEMMA LegFrame ==
    ASSUME NEW k \in Jobs, NEW t \in Targets, LegStep(k, t)
    PROVE  UNCHANGED <<request, beat, job, enq, unanswered, run, review, cancel, rec>>
  BY DEF LegStep, rows, queue, control, Look, Stop, Deny, Check, Send, Refuse, Reply, Record, LegThrows

\* No transport is taken back.
LEMMA SentStep == ASSUME [Next]_vars PROVE sent \subseteq sent'
<1>1. ASSUME NEW k \in Jobs, NEW t \in Targets, LegStep(k, t) PROVE sent \subseteq sent'
  BY <1>1 DEF LegStep, Look, Stop, Deny, Check, Send, Refuse, Reply, Record, LegThrows
<1> QED BY <1>1, Actors, OthersFrame, RunFrame DEF vars, workers

\* A target moves by updates that are guarded by its status.
LEMMA MovedStep ==
    ASSUME TypeOK, NEW from \in SUBSET Open, NEW to \in (Open \cup Terminal) \ {"COMPLETED", "REJECTED"},
           target' = Moved(from, to), NEW t \in Targets
    PROVE  TargetMove(t)
  BY DEF TypeOK, Moved, TargetMove, Open, Terminal

LEMMA TargetStep ==
    ASSUME TypeOK, Quiet, LegsSent, [Next]_vars, NEW t \in Targets PROVE TargetMove(t)
<1>0. target \in [Targets -> Open \cup Terminal]
  BY DEF TypeOK
<1>1. CASE UNCHANGED target
  BY <1>1 DEF TargetMove
<1>2. ASSUME NEW s \in Targets, NEW to, Settles(s, to),
             to = "COMPLETED" => \E k \in Jobs : <<k, s>> \in sent,
             to # "REJECTED"
      PROVE  TargetMove(t)
  BY <1>0, <1>2 DEF Settles, TargetMove, Open, Terminal
<1>3. CASE Others
  <2>1. CASE RejectTargets
    BY <2>1 DEF RejectTargets, Quiet, TargetMove, Terminal
  <2>2. CASE CancelQueued
    BY <2>2, MovedStep DEF CancelQueued, Open, Terminal
  <2>3. CASE CancelRunning
    BY <2>3, MovedStep DEF CancelRunning, Open, Terminal
  <2>4. CASE RecTargets
    BY <2>4, MovedStep DEF RecTargets, Open, Terminal
  <2>5. ASSUME NEW e \in Enqueuers, EnqMark(e) PROVE TargetMove(t)
    BY <2>5, MovedStep DEF EnqMark, Open, Terminal
  <2>6. ASSUME NEW e \in Enqueuers, UndoTargets(e) PROVE TargetMove(t)
    BY <1>1, <2>6, MovedStep DEF UndoTargets, Open, Terminal
  <2> QED
    BY <1>1, <1>3, <2>1, <2>2, <2>3, <2>4, <2>5, <2>6
    DEF Others, ReviewStep, CancelStep, RecStep, EnqStep, rows, Approve, Reject, SweepQueued,
        CancelRead, CancelClaim, Age, RecRead, RecWaiting, RecClaim, ReviewDies, CancelDies,
        RecDies, EnqClaim, EnqCheck, EnqQueue, EnqThrows, UndoRequest, EnqDies
<1>4. ASSUME NEW k \in Jobs, RunAct(k) PROVE TargetMove(t)
  <2>1. CASE EndLegs(k)
    BY <1>0, <2>1 DEF EndLegs, TargetMove, Terminal
  <2>2. CASE MarkTargets(k)
    BY <2>2, MovedStep DEF MarkTargets, Open, Terminal
  <2> QED
    BY <1>1, <1>4, <2>1, <2>2
    DEF RunAct, RunStep, rows, JobClaimed, Start, FirstBeat, FinalRead, Finish, Ack, Settle,
        MarkFailed, FailJob, Beat, RunThrows, MarkThrows, JobLost, RunDies
<1>5. ASSUME NEW k \in Jobs, NEW s \in Targets, LegStep(k, s) PROVE TargetMove(t)
  <2>1. CASE Stop(k, s)
    BY <1>2, <2>1 DEF Stop
  <2>2. CASE Deny(k, s)
    BY <1>2, <2>2 DEF Deny
  <2>3. CASE Record(k, s)
    <3>1. PICK pc \in {"ok", "failed", "cancelled"} : At(k, s, pc) /\ Settles(s, Outcome(pc))
      BY <2>3 DEF Record
    <3>2. Outcome(pc) = "COMPLETED" => leg[k][s] = "ok"
      BY <3>1 DEF Outcome, At
    <3>3. Outcome(pc) = "COMPLETED" => <<k, s>> \in sent
      BY <3>2 DEF LegsSent
    <3>4. Outcome(pc) # "REJECTED"
      BY DEF Outcome
    <3> QED BY <1>2, <3>1, <3>3, <3>4
  <2> QED BY <1>1, <1>5, <2>1, <2>2, <2>3 DEF LegStep, rows, Look, Check, Send, Refuse, Reply, LegThrows
<1> QED BY <1>1, <1>3, <1>4, <1>5, Actors DEF vars, rows

\* The request moves by updates that are guarded by its status.
LEMMA RequestStep ==
    ASSUME TypeOK, [Next]_vars PROVE RequestMove
<1> USE DEF RequestMove, Terminal, Open, Outcomes
<1>1. CASE UNCHANGED request
  BY <1>1
<1>2. CASE Others
  <2>1. CASE CancelClaim
    BY <2>1 DEF CancelClaim, TypeOK, Cancel
  <2>2. CASE RecClaim
    BY <2>2 DEF RecClaim, TypeOK, Sweep
  <2> QED
    BY <1>1, <1>2, <2>1, <2>2
    DEF Others, ReviewStep, CancelStep, RecStep, EnqStep, rows, Approve, Reject, RejectTargets,
        SweepQueued, CancelRead, CancelQueued, CancelRunning, Age, RecRead, RecWaiting,
        RecTargets, ReviewDies, CancelDies, RecDies, EnqClaim, EnqMark, EnqCheck, EnqQueue,
        EnqThrows, UndoRequest, UndoTargets, EnqDies
<1>3. ASSUME NEW k \in Jobs, RunAct(k) PROVE RequestMove
  <2>1. CASE Finish(k)
    BY <2>1 DEF Finish, TypeOK, Run
  <2>2. CASE Ack(k) \/ MarkFailed(k)
    BY <2>2 DEF Ack, MarkFailed
  <2> QED
    BY <1>1, <1>3, <2>1, <2>2
    DEF RunAct, RunStep, rows, JobClaimed, Start, FirstBeat, EndLegs, FinalRead, Settle,
        MarkTargets, FailJob, Beat, RunThrows, MarkThrows, JobLost, RunDies
<1> QED BY <1>1, <1>2, <1>3, Actors, LegFrame DEF vars, rows

\* A target is found "won" only after its result was written.
LEMMA LegMoves ==
    ASSUME TypeOK, [Next]_vars, NEW k \in Jobs, NEW t \in Targets PROVE LegMove(k, t)
<1>0. leg \in [Jobs -> [Targets -> LegPcs]] /\ target \in [Targets -> Open \cup Terminal]
  BY DEF TypeOK
<1>1. CASE UNCHANGED leg
  BY <1>1 DEF LegMove
<1>2. ASSUME NEW j \in Jobs, NEW s \in Targets, LegStep(j, s) PROVE LegMove(k, t)
  <2>1. ASSUME NEW pc, Goes(j, s, pc)
        PROVE  leg'[k][t] = IF j = k /\ s = t THEN pc ELSE leg[k][t]
    BY <1>0, <2>1 DEF Goes
  <2>2. CASE Look(j, s) \/ Check(j, s) \/ Refuse(j, s)
    BY <2>1, <2>2 DEF Look, Check, Refuse, LegMove
  <2>3. CASE Stop(j, s) \/ Deny(j, s) \/ LegThrows(j, s)
    BY <2>1, <2>3 DEF Stop, Deny, LegThrows, LegMove
  <2>4. CASE Send(j, s)
    BY <2>1, <2>4 DEF Send, LegMove
  <2>5. CASE Reply(j, s)
    BY <2>1, <2>5 DEF Reply, LegMove, At
  <2>6. CASE Record(j, s)
    <3>1. PICK pc \in {"ok", "failed", "cancelled"} :
             /\ At(j, s, pc) /\ Settles(s, Outcome(pc))
             /\ Goes(j, s, IF pc = "ok" /\ target[s] \in Open THEN "won" ELSE "lost")
      BY <2>6 DEF Record
    <3>2. pc = "ok" /\ target[s] \in Open => target'[s] = "COMPLETED"
      BY <1>0, <3>1 DEF Settles, Outcome
    <3>3. leg[j][s] = pc
      BY <3>1 DEF At
    <3> QED BY <2>1, <3>1, <3>2, <3>3 DEF LegMove
  <2> QED BY <1>2, <2>2, <2>3, <2>4, <2>5, <2>6 DEF LegStep
<1>3. ASSUME NEW j \in Jobs, RunAct(j) PROVE LegMove(k, t)
  <2>1. CASE UNCHANGED leg
    BY <1>1, <2>1
  <2>2. ASSUME NEW new, Becomes(j, new) PROVE leg'[k][t] \in {leg[k][t], "todo"}
    BY <1>0, <2>2 DEF Becomes, NoLegs
  <2> QED BY <1>3, <2>1, <2>2, RunChanges DEF LegMove
<1> QED BY <1>1, <1>2, <1>3, Actors, OthersFrame DEF vars, workers

\* Every step keeps the statuses of the request and of its targets ...
LEMMA RowsType ==
    ASSUME TypeOK, [Next]_vars
    PROVE  /\ request' \in Open \cup Terminal /\ beat' \in {"fresh", "stale"}
           /\ target' \in [Targets -> Open \cup Terminal]
<1>0. /\ request \in Open \cup Terminal /\ beat \in {"fresh", "stale"}
      /\ target \in [Targets -> Open \cup Terminal]
  BY DEF TypeOK
<1>1. ASSUME NEW from, NEW to \in Open \cup Terminal, target' = Moved(from, to)
      PROVE  target' \in [Targets -> Open \cup Terminal]
  BY <1>0, <1>1 DEF Moved
<1>2. CASE Others
  <2>1. request' \in Open \cup Terminal
    <3>1. CASE RecClaim
      BY <1>0, <3>1 DEF RecClaim, TypeOK, Sweep, Outcomes, Terminal
    <3> QED
      BY <1>0, <1>2, <3>1
      DEF Open, Terminal, Others, ReviewStep, CancelStep, RecStep, EnqStep, rows, Approve, Reject,
          RejectTargets, SweepQueued, CancelRead, CancelClaim, CancelQueued, CancelRunning, Age,
          RecRead, RecWaiting, RecTargets, ReviewDies, CancelDies, RecDies, EnqClaim, EnqMark,
          EnqCheck, EnqQueue, EnqThrows, UndoRequest, UndoTargets, EnqDies
  <2>2. target' \in [Targets -> Open \cup Terminal]
    <3>1. {"RUNNING", "APPROVED", "CANCELLED", "CANCELLING", "FAILED", "REJECTED"}
             \subseteq Open \cup Terminal
      BY DEF Open, Terminal
    <3> QED
      BY <1>0, <1>1, <1>2, <3>1
      DEF Others, ReviewStep, CancelStep, RecStep, EnqStep, rows, Approve, Reject,
          RejectTargets, SweepQueued, CancelRead, CancelClaim, CancelQueued, CancelRunning, Age,
          RecRead, RecWaiting, RecClaim, RecTargets, ReviewDies, CancelDies, RecDies, EnqClaim,
          EnqMark, EnqCheck, EnqQueue, EnqThrows, UndoRequest, UndoTargets, EnqDies
  <2>3. beat' \in {"fresh", "stale"}
    BY <1>0, <1>2
    DEF Others, ReviewStep, CancelStep, RecStep, EnqStep, rows, Approve, Reject, RejectTargets,
        SweepQueued, CancelRead, CancelClaim, CancelQueued, CancelRunning, Age, RecRead,
        RecWaiting, RecClaim, RecTargets, ReviewDies, CancelDies, RecDies, EnqClaim, EnqMark,
        EnqCheck, EnqQueue, EnqThrows, UndoRequest, UndoTargets, EnqDies
  <2> QED BY <2>1, <2>2, <2>3
<1>3. ASSUME NEW k \in Jobs, RunAct(k)
      PROVE  /\ request' \in Open \cup Terminal /\ beat' \in {"fresh", "stale"}
             /\ target' \in [Targets -> Open \cup Terminal]
  <2>1. CASE EndLegs(k)
    BY <1>0, <2>1 DEF EndLegs, Terminal
  <2>2. CASE Finish(k)
    BY <1>0, <2>2 DEF Finish, TypeOK, Run, Outcomes, Terminal
  <2>3. CASE Ack(k) \/ MarkFailed(k)
    BY <1>0, <2>3 DEF Ack, MarkFailed, Terminal
  <2>4. CASE MarkTargets(k)
    BY <1>0, <1>1, <2>4 DEF MarkTargets, Terminal
  <2>5. CASE FirstBeat(k) \/ Beat(k)
    BY <1>0, <2>5 DEF FirstBeat, Beat, Renewed
  <2> QED
    BY <1>0, <1>3, <2>1, <2>2, <2>3, <2>4, <2>5
    DEF RunAct, RunStep, rows, JobClaimed, Start, FinalRead, Settle, FailJob, RunThrows,
        MarkThrows, JobLost, RunDies
<1>4. ASSUME NEW k \in Jobs, NEW t \in Targets, LegStep(k, t)
      PROVE  target' \in [Targets -> Open \cup Terminal]
  <2>1. ASSUME NEW to \in Outcomes, Settles(t, to) PROVE target' \in [Targets -> Open \cup Terminal]
    BY <1>0, <2>1 DEF Settles, Outcomes, Terminal
  <2>2. \A pc \in {"ok", "failed", "cancelled"} : Outcome(pc) \in Outcomes
    BY DEF Outcome, Outcomes
  <2>3. CASE Stop(k, t) \/ Deny(k, t)
    BY <2>1, <2>3 DEF Stop, Deny, Outcomes
  <2>4. CASE Record(k, t)
    BY <2>1, <2>2, <2>4 DEF Record
  <2> QED BY <1>0, <1>4, <2>3, <2>4 DEF LegStep, rows, Look, Check, Send, Refuse, Reply, LegThrows
<1> QED BY <1>0, <1>2, <1>3, <1>4, Actors, LegFrame DEF vars, rows

\* ... the jobs, and those who enqueue, review, cancel and sweep ...
LEMMA QueueType ==
    ASSUME TypeOK, [Next]_vars
    PROVE  /\ job' \in [Jobs -> {"none", "PENDING", "RUNNING", "COMPLETED", "FAILED"}]
           /\ enq' \in [Enqueuers -> EnqPcs] /\ review' \in {"idle", "targets"}
           /\ cancel' \in Cancel /\ rec' \in Sweep /\ unanswered' \subseteq Jobs
<1>0. /\ job \in [Jobs -> {"none", "PENDING", "RUNNING", "COMPLETED", "FAILED"}]
      /\ enq \in [Enqueuers -> EnqPcs] /\ review \in {"idle", "targets"}
      /\ cancel \in Cancel /\ rec \in Sweep /\ request \in Open \cup Terminal
      /\ unanswered \subseteq Jobs
  BY DEF TypeOK
<1>1. ASSUME NEW k \in Jobs, RunAct(k)
      PROVE  job' \in [Jobs -> {"none", "PENDING", "RUNNING", "COMPLETED", "FAILED"}]
  BY <1>0, <1>1
  DEF RunAct, RunStep, queue, JobClaimed, Start, FirstBeat, EndLegs, FinalRead, Finish, Ack,
      Settle, MarkFailed, MarkTargets, FailJob, Beat, RunThrows, MarkThrows, JobLost, RunDies
<1>2. CASE Others
  <2>1. job' \in [Jobs -> {"none", "PENDING", "RUNNING", "COMPLETED", "FAILED"}]
    BY <1>0, <1>2
    DEF Others, ReviewStep, CancelStep, RecStep, EnqStep, queue, Approve, Reject,
        RejectTargets, SweepQueued, CancelRead, CancelClaim, CancelQueued, CancelRunning, Age,
        RecRead, RecWaiting, RecClaim, RecTargets, ReviewDies, CancelDies, RecDies, EnqClaim,
        EnqMark, EnqCheck, EnqQueue, EnqThrows, UndoRequest, UndoTargets, EnqDies
  <2>2. enq' \in [Enqueuers -> EnqPcs]
    BY <1>0, <1>2
    DEF EnqPcs, Enqueuers, Others, ReviewStep, CancelStep, RecStep, EnqStep, queue, Approve,
        Reject, RejectTargets, SweepQueued, CancelRead, CancelClaim, CancelQueued, CancelRunning,
        Age, RecRead, RecWaiting, RecClaim, RecTargets, ReviewDies, CancelDies, RecDies,
        EnqClaim, EnqMark, EnqCheck, EnqQueue, EnqThrows, UndoRequest, UndoTargets, EnqDies
  <2>3. review' \in {"idle", "targets"}
    BY <1>0, <1>2
    DEF Others, ReviewStep, CancelStep, RecStep, EnqStep, control, Approve, Reject,
        RejectTargets, SweepQueued, CancelRead, CancelClaim, CancelQueued, CancelRunning, Age,
        RecRead, RecWaiting, RecClaim, RecTargets, ReviewDies, CancelDies, RecDies, EnqClaim,
        EnqMark, EnqCheck, EnqQueue, EnqThrows, UndoRequest, UndoTargets, EnqDies
  <2>4. cancel' \in Cancel
    <3>1. CASE CancelStep \/ CancelDies
      BY <1>0, <3>1
      DEF CancelStep, CancelRead, CancelClaim, CancelQueued, CancelRunning, CancelDies, Cancel,
          NoCancel, Open
    <3> QED
      BY <1>0, <1>2, <3>1
      DEF Others, ReviewStep, RecStep, EnqStep, control, Approve, Reject, RejectTargets,
          SweepQueued, Age, RecRead, RecWaiting, RecClaim, RecTargets, ReviewDies, RecDies,
          EnqClaim, EnqMark, EnqCheck, EnqQueue, EnqThrows, UndoRequest, UndoTargets, EnqDies
  <2>5. rec' \in Sweep
    <3>1. NoSweep \in Sweep
      BY DEF NoSweep, Sweep, Outcomes, Open
    <3>2. [rec EXCEPT !.pc = "claim"] \in Sweep /\ [NoSweep EXCEPT !.pc = "targets"] \in Sweep
      BY <1>0, <3>1 DEF Sweep
    <3>3. CASE RecRead
      BY <3>3 DEF RecRead, Sweep, Outcomes, Open
    <3>4. CASE RecWaiting \/ RecClaim \/ RecTargets \/ RecDies
      BY <3>1, <3>2, <3>4 DEF RecWaiting, RecClaim, RecTargets, RecDies
    <3> QED
      BY <1>0, <1>2, <3>3, <3>4
      DEF Others, ReviewStep, CancelStep, RecStep, EnqStep, control, Approve, Reject,
          RejectTargets, SweepQueued, CancelRead, CancelClaim, CancelQueued, CancelRunning, Age,
          ReviewDies, CancelDies, EnqClaim, EnqMark, EnqCheck, EnqQueue, EnqThrows, UndoRequest,
          UndoTargets, EnqDies
  <2>6. unanswered' \subseteq Jobs
    BY <1>0, <1>2
    DEF Others, ReviewStep, CancelStep, RecStep, EnqStep, queue, Approve, Reject,
        RejectTargets, SweepQueued, CancelRead, CancelClaim, CancelQueued, CancelRunning, Age,
        RecRead, RecWaiting, RecClaim, RecTargets, ReviewDies, CancelDies, RecDies, EnqClaim,
        EnqMark, EnqCheck, EnqQueue, EnqThrows, UndoRequest, UndoTargets, EnqDies
  <2> QED BY <2>1, <2>2, <2>3, <2>4, <2>5, <2>6
<1> QED BY <1>0, <1>1, <1>2, Actors, RunFrame, LegFrame DEF vars, queue, control

\* ... and the workers.
LEMMA WorkersType ==
    ASSUME TypeOK, [Next]_vars
    PROVE  /\ run' \in [Jobs -> Run] /\ leg' \in [Jobs -> [Targets -> LegPcs]]
           /\ sent' \subseteq Jobs \X Targets /\ acked' \subseteq Targets
<1>0. /\ run \in [Jobs -> Run] /\ leg \in [Jobs -> [Targets -> LegPcs]]
      /\ sent \subseteq Jobs \X Targets /\ acked \subseteq Targets
  BY DEF TypeOK
<1>1. ASSUME NEW k \in Jobs, RunAct(k)
      PROVE  run' \in [Jobs -> Run] /\ leg' \in [Jobs -> [Targets -> LegPcs]]
  <2>0. NoLegs \in [Targets -> LegPcs] /\ run[k] \in Run
    BY <1>0 DEF NoLegs, LegPcs
  <2>1. ASSUME NEW r \in Run, Becomes(k, r)
        PROVE  run' \in [Jobs -> Run] /\ leg' \in [Jobs -> [Targets -> LegPcs]]
    BY <1>0, <2>0, <2>1 DEF Becomes
  <2>2. ASSUME NEW pc \in RunPcs, Goto(k, pc)
        PROVE  run' \in [Jobs -> Run] /\ leg' \in [Jobs -> [Targets -> LegPcs]]
    <3>1. [NoRun EXCEPT !.pc = pc] \in Run
      BY DEF NoRun, Run, Outcomes
    <3> QED BY <2>1, <2>2, <3>1 DEF Goto
  <2>3. ASSUME NEW next \in Outcomes, NEW from \in SUBSET Open, NEW failed \in BOOLEAN
        PROVE  [pc |-> "finish", next |-> next, from |-> from, failed |-> failed] \in Run
    BY DEF Run, RunPcs
  <2>4. CASE FinalRead(k)
    BY <2>1, <2>2, <2>3, <2>4 DEF FinalRead, RunPcs, Outcomes, Open
  <2>5. CASE Finish(k)
    <3>1. [NoRun EXCEPT !.pc = "ack", !.failed = run[k].failed] \in Run
      BY <2>0 DEF NoRun, Run, RunPcs, Outcomes
    <3> QED BY <2>1, <2>2, <2>5, <3>1 DEF Finish, RunPcs
  <2>6. CASE JobClaimed(k) \/ EndLegs(k)
    <3>1. ASSUME NEW pc \in RunPcs PROVE [run[k] EXCEPT !.pc = pc] \in Run
      BY <2>0 DEF Run
    <3>2. /\ leg' = leg
          /\ \E pc \in RunPcs : run' = [run EXCEPT ![k] = [run[k] EXCEPT !.pc = pc]]
      BY <2>6 DEF JobClaimed, EndLegs, RunPcs
    <3> QED BY <1>0, <3>1, <3>2
  <2>7. CASE Start(k)          BY <2>2, <2>7 DEF RunPcs, Start
  <2>8. CASE FirstBeat(k)      BY <2>2, <2>8 DEF RunPcs, FirstBeat
  <2>9. CASE Ack(k)            BY <2>2, <2>9 DEF RunPcs, Ack
  <2>10. CASE Settle(k)        BY <2>2, <2>10 DEF RunPcs, Settle
  <2>11. CASE MarkFailed(k)    BY <2>2, <2>11 DEF RunPcs, MarkFailed
  <2>12. CASE MarkTargets(k)   BY <2>2, <2>12 DEF RunPcs, MarkTargets
  <2>13. CASE FailJob(k)       BY <2>2, <2>13 DEF RunPcs, FailJob
  <2>14. CASE RunThrows(k)     BY <2>2, <2>14 DEF RunPcs, RunThrows
  <2>15. CASE MarkThrows(k)    BY <2>2, <2>15 DEF RunPcs, MarkThrows
  <2>16. CASE JobLost(k)       BY <1>0, <2>16 DEF JobLost, workers
  <2>17. CASE RunDies(k)       BY <2>2, <2>17 DEF RunPcs, RunDies
  <2>18. CASE Beat(k)          BY <1>0, <2>18 DEF Beat, workers
  <2> QED
    BY ONLY <1>1, <2>4, <2>5, <2>6, <2>7, <2>8, <2>9, <2>10, <2>11, <2>12, <2>13, <2>14, <2>15, <2>16, <2>17, <2>18
    DEF RunAct, RunStep
<1>2. ASSUME NEW k \in Jobs, NEW t \in Targets, LegStep(k, t)
      PROVE  /\ leg' \in [Jobs -> [Targets -> LegPcs]]
             /\ sent' \subseteq Jobs \X Targets /\ acked' \subseteq Targets
  <2>1. ASSUME NEW pc \in LegPcs, Goes(k, t, pc) PROVE leg' \in [Jobs -> [Targets -> LegPcs]]
    BY <1>0, <2>1 DEF Goes
  <2>2. leg' \in [Jobs -> [Targets -> LegPcs]]
    <3> USE <2>1
    <3>1. CASE Look(k, t)       BY <3>1 DEF LegPcs, Look
    <3>2. CASE Stop(k, t)       BY <3>2 DEF LegPcs, Stop
    <3>3. CASE Deny(k, t)       BY <3>3 DEF LegPcs, Deny
    <3>4. CASE Check(k, t)      BY <3>4 DEF LegPcs, Check
    <3>5. CASE Send(k, t)       BY <3>5 DEF LegPcs, Send
    <3>6. CASE Refuse(k, t)     BY <3>6 DEF LegPcs, Refuse
    <3>7. CASE Reply(k, t)      BY <3>7 DEF LegPcs, Reply
    <3>8. CASE Record(k, t)     BY <3>8 DEF LegPcs, Record
    <3>9. CASE LegThrows(k, t)  BY <3>9 DEF LegPcs, LegThrows
    <3> QED BY ONLY <1>2, <3>1, <3>2, <3>3, <3>4, <3>5, <3>6, <3>7, <3>8, <3>9 DEF LegStep
  <2>3. sent' \subseteq Jobs \X Targets /\ acked' \subseteq Targets
    BY <1>0, <1>2 DEF LegStep, Look, Stop, Deny, Check, Send, Refuse, Reply, Record, LegThrows
  <2> QED BY <2>2, <2>3
<1> QED BY <1>0, <1>1, <1>2, Actors, OthersFrame, RunFrame, LegFrame DEF vars, workers

LEMMA TypeStep == ASSUME TypeOK, [Next]_vars PROVE TypeOK'
  BY RowsType, QueueType, WorkersType DEF TypeOK

\* A job is claimed before its worker does anything.
LEMMA JobsStep == ASSUME IInv, [Next]_vars PROVE JobsRun'
<1> USE DEF JobsRun
<1>0. /\ job \in [Jobs -> {"none", "PENDING", "RUNNING", "COMPLETED", "FAILED"}]
      /\ run \in [Jobs -> Run] /\ leg \in [Jobs -> [Targets -> LegPcs]] /\ JobsRun
  BY DEF IInv, TypeOK
<1>1. CASE /\ UNCHANGED <<run, leg, sent>>
           /\ \A k \in Jobs : job'[k] \in {"none", "PENDING"} => job[k] \in {"none", "PENDING"}
  BY <1>0, <1>1
<1>2. CASE Others
  <2>1. UNCHANGED job \/ \E k \in Jobs : job[k] = "none" /\ job' = [job EXCEPT ![k] = "PENDING"]
    BY <1>2
    DEF Others, ReviewStep, CancelStep, RecStep, EnqStep, queue, Approve, Reject,
        RejectTargets, SweepQueued, CancelRead, CancelClaim, CancelQueued, CancelRunning, Age,
        RecRead, RecWaiting, RecClaim, RecTargets, ReviewDies, CancelDies, RecDies, EnqClaim,
        EnqMark, EnqCheck, EnqQueue, EnqThrows, UndoRequest, UndoTargets, EnqDies
  <2> QED BY <1>0, <1>1, <1>2, <2>1, OthersFrame
<1>3. ASSUME NEW k \in Jobs, RunAct(k) PROVE JobsRun'
  <2>1. CASE JobLost(k)
    BY <1>0, <1>1, <2>1 DEF JobLost, workers
  <2>2. CASE /\ job'[k] \notin {"none", "PENDING"}
             /\ \A j \in Jobs \ {k} : job'[j] = job[j]
    <3>1. \A j \in Jobs \ {k} : run'[j] = run[j] /\ leg'[j] = leg[j]
      BY <1>0, <1>3, RunChanges DEF Becomes
    <3> QED BY <1>0, <1>3, <2>2, <3>1, RunFrame
  <2>3. CASE JobClaimed(k)
    BY <1>0, <2>2, <2>3 DEF JobClaimed
  <2>4. CASE UNCHANGED <<job, run, leg>>
    BY <1>0, <1>3, <2>4, RunFrame
  <2>5. ASSUME run[k].pc # "idle",
               \/ UNCHANGED job
               \/ \E to \in {"COMPLETED", "FAILED"} :
                     job' = [job EXCEPT ![k] = IF @ = "RUNNING" THEN to ELSE @]
        PROVE  JobsRun'
    <3>1. job[k] \notin {"none", "PENDING"}
      BY <2>5 DEF IInv, NoRun
    <3>2. job'[k] \notin {"none", "PENDING"} /\ \A j \in Jobs \ {k} : job'[j] = job[j]
      BY <1>0, <2>5, <3>1
    <3> QED BY <2>2, <3>2
  <2>8. CASE Settle(k) \/ FailJob(k)
    <3>1. \E to \in {"COMPLETED", "FAILED"} :
             job' = [job EXCEPT ![k] = IF @ = "RUNNING" THEN to ELSE @]
      BY <2>8 DEF Settle, FailJob
    <3> QED BY <2>5, <2>8, <3>1 DEF Settle, FailJob, Runs
  <2>9. CASE Start(k) \/ FirstBeat(k) \/ EndLegs(k) \/ FinalRead(k) \/ Finish(k) \/ Ack(k)
    BY <2>5, <2>9 DEF Start, FirstBeat, EndLegs, FinalRead, Finish, Ack, Runs, queue
  <2>10. CASE MarkFailed(k) \/ MarkTargets(k) \/ RunThrows(k) \/ MarkThrows(k) \/ RunDies(k)
    BY <2>5, <2>10 DEF MarkFailed, MarkTargets, RunThrows, MarkThrows, RunDies, Runs, queue
  <2>11. CASE Beat(k)
    BY <2>4, <2>11 DEF Beat, queue, workers
  <2> QED BY <1>3, <2>1, <2>3, <2>8, <2>9, <2>10, <2>11 DEF RunAct, RunStep
<1>4. ASSUME NEW k \in Jobs, NEW t \in Targets, LegStep(k, t) PROVE JobsRun'
  <2>1. UNCHANGED <<job, run>> /\ run[k].pc = "legs"
    BY <1>4, LegFrame DEF LegStep, At, Look, Stop, Deny, Check, Send, Refuse, Reply, Record, LegThrows
  <2>2. job[k] \notin {"none", "PENDING"}
    BY <2>1 DEF IInv, NoRun
  <2>3. \A j \in Jobs \ {k} : leg'[j] = leg[j]
    BY <1>0, <1>4 DEF LegStep, Goes, Look, Stop, Deny, Check, Send, Refuse, Reply, Record, LegThrows
  <2>4. sent' \subseteq sent \cup {<<k, t>>}
    BY <1>4 DEF LegStep, Look, Stop, Deny, Check, Send, Refuse, Reply, Record, LegThrows
  <2> QED BY <1>0, <2>1, <2>2, <2>3, <2>4
<1> QED BY <1>1, <1>2, <1>3, <1>4, Actors DEF vars, queue, workers

\* Only an approval wakes anybody up, and a rejection finds the targets as they
\* were created.
LEMMA QuietStep == ASSUME IInv, TypeOK', [Next]_vars PROVE Quiet'
<1> USE DEF Quiet
<1>0. Quiet /\ request \in Open \cup Terminal
  BY DEF IInv, TypeOK
<1>1. CASE UNCHANGED vars
  BY <1>0, <1>1 DEF vars, rows, queue, control
<1>2. CASE ReviewStep \/ SweepQueued \/ Age \/ ReviewDies
  BY <1>0, <1>2
  DEF ReviewStep, Approve, Reject, RejectTargets, SweepQueued, Age, ReviewDies, rows, queue, control
<1>3. CASE CancelStep \/ CancelDies
  <2>0. cancel \in Cancel
    BY DEF IInv, TypeOK
  <2>1. CASE CancelRead
    BY <1>0, <2>1 DEF CancelRead, rows, queue
  <2>2. CASE CancelClaim
    <3>1. cancel'.pc \in {"idle", "claim"} \/ request' \notin {"PENDING_APPROVAL", "REJECTED"}
      BY <2>0, <2>2 DEF CancelClaim, Cancel, NoCancel, Open
    <3>2. request' = request \/ request' \notin {"PENDING_APPROVAL", "REJECTED"}
      BY <2>2 DEF CancelClaim
    <3>3. review = "targets" => request' = request
      BY <1>0, <2>0, <2>2 DEF CancelClaim, Cancel, Open
    <3> QED BY <1>0, <2>2, <3>1, <3>2, <3>3 DEF CancelClaim, queue
  <2>3. CASE CancelQueued \/ CancelRunning
    <3>1. request \notin {"PENDING_APPROVAL", "REJECTED"} /\ review # "targets"
      BY <1>0, <2>3 DEF CancelQueued, CancelRunning
    <3> QED BY <2>3, <3>1 DEF CancelQueued, CancelRunning
  <2>4. CASE CancelDies
    BY <1>0, <2>4 DEF CancelDies, NoCancel, rows, queue
  <2> QED BY <1>3, <2>1, <2>2, <2>3, <2>4 DEF CancelStep
<1>4. CASE RecDies \/ RecRead \/ RecWaiting \/ RecTargets
  BY <1>0, <1>4
  DEF RecDies, RecRead, RecWaiting, RecTargets, NoSweep, rows, queue, IInv, TypeOK, Sweep
<1>5. CASE RecClaim
  <2>1. request \notin {"PENDING_APPROVAL", "REJECTED"} /\ review # "targets"
    BY <1>0, <1>5 DEF RecClaim
  <2>2. request' \notin {"PENDING_APPROVAL", "REJECTED"} /\ review' # "targets"
    BY <2>1, <1>5 DEF RecClaim, IInv, TypeOK, Sweep, Outcomes
  <2> QED BY <2>2
<1>6. ASSUME NEW e \in Enqueuers, EnqStep(e) \/ EnqDies(e) PROVE Quiet'
  BY <1>0, <1>6
  DEF EnqStep, EnqDies, EnqClaim, EnqMark, EnqCheck, EnqQueue, EnqThrows, UndoRequest,
      UndoTargets, rows, control, IInv, TypeOK
<1>7. ASSUME NEW k \in Jobs, RunAct(k) \/ \E t \in Targets : LegStep(k, t) PROVE Quiet'
  <2>1. job[k] # "none"
    BY <1>7
    DEF RunAct, RunStep, JobClaimed, Start, FirstBeat, EndLegs, FinalRead, Finish, Ack, Settle,
        MarkFailed, MarkTargets, FailJob, Beat, RunThrows, MarkThrows, JobLost, RunDies, Runs,
        LegStep, Look, Stop, Deny, Check, Send, Refuse, Reply, Record, LegThrows, At, IInv, JobsRun, NoRun
  <2>2. request \notin {"PENDING_APPROVAL", "REJECTED"} /\ review # "targets"
    BY <1>0, <2>1
  <2>3. request' \notin {"PENDING_APPROVAL", "REJECTED"}
    BY <1>7, <2>2, LegFrame
    DEF RunAct, RunStep, JobClaimed, Start, FirstBeat, EndLegs, FinalRead, Finish, Ack, Settle,
        MarkFailed, MarkTargets, FailJob, Beat, RunThrows, MarkThrows, JobLost, RunDies, rows,
        IInv, Run, TypeOK, Outcomes
  <2>4. review' = review
    BY <1>7, RunFrame, LegFrame
  <2> QED BY <2>2, <2>3, <2>4
<1> QED BY <1>1, <1>2, <1>3, <1>4, <1>5, <1>6, <1>7, Actors DEF Others, RecStep

\* A settled target keeps its result, so a leg that has won it stays true.
LEMMA LegsStep == ASSUME IInv, [Next]_vars PROVE LegsSent'
<1>1. SUFFICES ASSUME NEW k \in Jobs, NEW t \in Targets
               PROVE  /\ leg'[k][t] \in {"sent", "ok", "won"} => <<k, t>> \in sent'
                      /\ leg'[k][t] = "won" => target'[t] = "COMPLETED"
  BY DEF LegsSent
<1>2. LegMove(k, t) /\ TargetMove(t) /\ sent \subseteq sent'
  BY LegMoves, TargetStep, SentStep DEF IInv
<1>3. /\ leg[k][t] \in {"sent", "ok", "won"} => <<k, t>> \in sent
      /\ leg[k][t] = "won" => target[t] = "COMPLETED"
  BY DEF IInv, LegsSent
<1>4. leg[k][t] = "won" => target'[t] = "COMPLETED"
  BY <1>2, <1>3 DEF TargetMove, Terminal
<1> QED BY <1>2, <1>3, <1>4 DEF LegMove

LEMMA RanStep == ASSUME IInv, [Next]_vars PROVE TargetsRan'
<1>1. SUFFICES ASSUME NEW t \in Targets, target'[t] = "COMPLETED"
               PROVE  \E k \in Jobs : <<k, t>> \in sent'
  BY DEF TargetsRan
<1>2. TargetMove(t) /\ sent \subseteq sent'
  BY TargetStep, SentStep DEF IInv
<1>3. \E k \in Jobs : <<k, t>> \in sent
  BY <1>1, <1>2 DEF TargetMove, IInv, TargetsRan
<1> QED BY <1>2, <1>3

\* COMPLETED is decided on targets that are COMPLETED, and they stay so.
LEMMA DecidedStep == ASSUME IInv, [Next]_vars PROVE Decided'
<1> USE DEF Decided
<1>0. AllCompleted => AllCompleted'
  BY TargetStep DEF IInv, AllCompleted, TargetMove, Terminal
<1>1. CASE UNCHANGED <<request, run, rec>>
  BY <1>0, <1>1 DEF IInv
<1>2. CASE Others
  <2>0. UNCHANGED run
    BY <1>2, OthersFrame
  <2>1. CASE UNCHANGED <<request, rec>>
    BY <1>1, <2>0, <2>1
  <2>2. CASE UNCHANGED rec /\ request' # "COMPLETED"
    BY <1>0, <2>0, <2>2 DEF IInv
  <2>3. CASE RecRead
    BY <1>0, <2>0, <2>3 DEF IInv, RecRead, rows, AllCompleted
  <2>4. CASE UNCHANGED request /\ (rec' = NoSweep \/ rec' = [rec EXCEPT !.pc = "claim"])
    BY <1>0, <2>0, <2>4 DEF IInv, TypeOK, Sweep, NoSweep
  <2>5. CASE RecClaim
    BY <1>0, <2>0, <2>5 DEF IInv, RecClaim, NoSweep
  <2> QED
    BY <1>2, <2>1, <2>2, <2>3, <2>4, <2>5
    DEF Others, ReviewStep, CancelStep, RecStep, EnqStep, rows, control, Approve, Reject,
        RejectTargets, SweepQueued, CancelRead, CancelClaim, CancelQueued, CancelRunning, Age,
        RecWaiting, RecTargets, ReviewDies, CancelDies, RecDies, EnqClaim, EnqMark, EnqCheck,
        EnqQueue, EnqThrows, UndoRequest, UndoTargets, EnqDies
<1>3. ASSUME NEW k \in Jobs, RunAct(k) PROVE Decided'
  <2>0. run \in [Jobs -> Run] /\ UNCHANGED rec
    BY <1>3, RunFrame DEF IInv, TypeOK
  <2>1. ASSUME \/ run'[k].next = "COMPLETED" => AllCompleted'
               \/ run'[k].next = run[k].next,
               request' = "COMPLETED" => AllCompleted'
        PROVE  Decided'
    <3>1. \A j \in Jobs \ {k} : run'[j] = run[j]
      BY <1>3, <2>0, RunChanges DEF Becomes
    <3> QED BY <1>0, <2>0, <2>1, <3>1 DEF IInv
  <2>2. UNCHANGED request => (request' = "COMPLETED" => AllCompleted')
    BY <1>0 DEF IInv
  <2>3. ASSUME NEW pc, Goto(k, pc) PROVE run'[k].next # "COMPLETED"
    BY <2>0, <2>3 DEF Goto, Becomes, NoRun
  <2>4. CASE JobClaimed(k) \/ EndLegs(k) \/ Beat(k) \/ JobLost(k)
    BY <2>0, <2>1, <2>2, <2>4 DEF JobClaimed, EndLegs, Beat, JobLost, rows, workers, Run
  <2>5. CASE FinalRead(k)
    <3>1. run'[k].next = "COMPLETED" => AllWon(k)
      BY <2>0, <2>3, <2>5 DEF FinalRead, Becomes
    <3>2. AllWon(k) => AllCompleted
      BY DEF AllWon, AllCompleted, IInv, LegsSent
    <3> QED BY <1>0, <2>1, <2>2, <2>5, <3>1, <3>2 DEF FinalRead, rows
  <2>6. CASE Finish(k)
    <3>1. run'[k].next # "COMPLETED"
      BY <2>0, <2>3, <2>6 DEF Finish, Becomes, NoRun
    <3>2. request' = "COMPLETED" => AllCompleted
      BY <2>6 DEF Finish, IInv
    <3> QED BY <1>0, <2>1, <3>1, <3>2
  <2>7. CASE Ack(k) \/ MarkFailed(k)
    <3>1. request' = "COMPLETED" => request = "COMPLETED"
      BY <2>7 DEF Ack, MarkFailed
    <3> QED BY <1>0, <2>1, <2>3, <2>7, <3>1 DEF Ack, MarkFailed, IInv
  <2>8. ASSUME UNCHANGED request, NEW pc, Goto(k, pc) PROVE Decided'
    BY <2>1, <2>2, <2>3, <2>8
  <2> QED
    BY <1>3, <2>4, <2>5, <2>6, <2>7, <2>8
    DEF RunAct, RunStep, rows, Start, FirstBeat, Settle, MarkTargets, FailJob, RunThrows,
        MarkThrows, RunDies
<1> QED BY <1>1, <1>2, <1>3, Actors, LegFrame DEF vars, rows, workers, control

\* A request that is neither running nor approved any more does not come back,
\* so the executor that has lost it settles its job after the request.
LEMMA SettlingStep == ASSUME IInv, [Next]_vars PROVE Settling'
<1> USE DEF Settling
<1>0. /\ run \in [Jobs -> Run] /\ request \in Open \cup Terminal /\ Settling /\ Quiet
  BY DEF IInv, TypeOK
<1>1. RequestMove
  BY RequestStep DEF IInv
<1>2. request = "CANCELLING" => request' \in {"CANCELLING"} \cup Terminal
  BY <1>1 DEF RequestMove
<1>3. request \in Terminal => request' \in Terminal
  BY <1>1 DEF RequestMove
<1>4. CASE UNCHANGED run
  BY <1>0, <1>2, <1>3, <1>4
<1>5. ASSUME NEW k \in Jobs, RunAct(k) PROVE Settling'
  <2>0. \A j \in Jobs \ {k} : run'[j] = run[j]
    BY <1>0, <1>5, RunChanges DEF Becomes
  <2>1. ASSUME \/ run'[k].pc \notin {"finish", "ack", "settle"}
               \/ run'[k].pc \in {"ack", "settle"} /\ request' \in Terminal
               \/ run'[k].pc = "ack" /\ request' = "CANCELLING"
        PROVE  Settling'
    BY <1>0, <1>2, <1>3, <2>0, <2>1
  <2>2. ASSUME NEW pc, Goto(k, pc) PROVE run'[k].pc = pc
    BY <1>0, <2>2 DEF Goto, Becomes, NoRun
  <2>3. CASE Start(k)
    BY <2>1, <2>2, <2>3 DEF Start, Terminal, rows
  <2>4. CASE FinalRead(k)
    <3>1. CASE request = "CANCELLED" /\ Goto(k, "settle")
      BY <2>1, <2>2, <2>4, <3>1 DEF FinalRead, Terminal, rows
    <3>2. CASE request # "CANCELLED"
      <4>1. /\ run'[k].pc = "finish"
            /\ {"RUNNING", "APPROVED"} \subseteq run'[k].from
            /\ run'[k].next = "CANCELLED" => "CANCELLING" \in run'[k].from
        BY <1>0, <2>4, <3>2 DEF FinalRead, Becomes
      <4> QED BY <1>0, <1>2, <1>3, <2>0, <4>1
    <3> QED BY <2>4, <3>1, <3>2 DEF FinalRead
  <2>5. CASE Finish(k)
    <3>1. job[k] # "none"
      BY <2>5 DEF Finish, Runs, IInv, JobsRun, NoRun
    <3>2. request # "PENDING_APPROVAL"
      BY <1>0, <3>1 DEF Quiet
    <3>3. run[k].next \in Terminal
      BY <1>0 DEF Run, Outcomes, Terminal
    <3>4. CASE request \in run[k].from
      BY <2>1, <2>2, <2>5, <3>3, <3>4 DEF Finish
    <3>5. CASE request \notin run[k].from
      <4>1. request \in {"CANCELLING"} \cup Terminal /\ request' = request
        BY <1>0, <2>5, <3>2, <3>5 DEF Finish, Runs, Open
      <4>2. CASE run[k].next = "CANCELLED"
        <5>1. request \in Terminal
          BY <1>0, <2>5, <3>5, <4>1, <4>2 DEF Finish, Runs
        <5> QED BY <2>1, <2>2, <2>5, <4>1, <4>2, <5>1 DEF Finish
      <4>3. CASE run[k].next # "CANCELLED"
        <5>1. run'[k].pc = "ack"
          BY <1>0, <2>5, <3>5, <4>3 DEF Finish, Becomes, NoRun
        <5> QED BY <2>1, <4>1, <5>1
      <4> QED BY <4>2, <4>3
    <3> QED BY <3>4, <3>5
  <2>6. CASE Ack(k)
    <3>1. run'[k].pc = "settle"
      BY <2>2, <2>6 DEF Ack
    <3>2. request' \in Terminal
      BY <1>0, <2>6 DEF Ack, Runs, Terminal
    <3> QED BY <2>1, <3>1, <3>2
  <2>7. CASE JobClaimed(k) \/ EndLegs(k)
    BY <1>0, <2>1, <2>7 DEF JobClaimed, EndLegs, Run
  <2>8. CASE Beat(k) \/ JobLost(k)
    BY <1>4, <2>8 DEF Beat, JobLost, workers
  <2> QED
    BY <1>5, <2>1, <2>2, <2>3, <2>4, <2>5, <2>6, <2>7, <2>8
    DEF RunAct, RunStep, FirstBeat, Settle, MarkFailed, MarkTargets, FailJob, RunThrows,
        MarkThrows, RunDies
<1> QED BY <1>4, <1>5, Actors, OthersFrame, LegFrame DEF vars, workers

\* The final read and the sweep see a cancellation that is asked for.
LEMMA StopsStep == ASSUME IInv, [Next]_vars PROVE StopsFirst'
<1> USE DEF StopsFirst
<1>0. run \in [Jobs -> Run] /\ rec \in Sweep /\ StopsFirst
  BY DEF IInv, TypeOK
<1>1. CASE UNCHANGED <<run, rec>>
  BY <1>0, <1>1
<1>2. CASE Others
  <2>0. UNCHANGED run
    BY <1>2, OthersFrame
  <2>1. CASE UNCHANGED rec
    BY <1>1, <2>0, <2>1
  <2>2. CASE RecRead
    BY <1>0, <2>0, <2>2 DEF RecRead
  <2>3. CASE rec' \in {NoSweep, [NoSweep EXCEPT !.pc = "targets"]}
    BY <1>0, <2>0, <2>3 DEF NoSweep
  <2>4. ASSUME NEW pc, rec' = [rec EXCEPT !.pc = pc] PROVE StopsFirst'
    BY <1>0, <2>0, <2>4 DEF Sweep
  <2> QED
    BY <1>2, <2>1, <2>2, <2>3, <2>4
    DEF Others, ReviewStep, CancelStep, RecStep, EnqStep, control, Approve, Reject,
        RejectTargets, SweepQueued, CancelRead, CancelClaim, CancelQueued, CancelRunning, Age,
        RecWaiting, RecClaim, RecTargets, ReviewDies, CancelDies, RecDies, EnqClaim, EnqMark,
        EnqCheck, EnqQueue, EnqThrows, UndoRequest, UndoTargets, EnqDies
<1>3. ASSUME NEW k \in Jobs, RunAct(k) PROVE StopsFirst'
  <2>0. UNCHANGED rec
    BY <1>3, RunFrame
  <2>1. \A j \in Jobs \ {k} : run'[j] = run[j]
    BY <1>0, <1>3, RunChanges DEF Becomes
  <2>2. ASSUME NEW pc, Goto(k, pc) PROVE StopsFirst'
    <3>1. run'[k].from = {}
      BY <1>0, <2>2 DEF Goto, Becomes, NoRun
    <3> QED BY <1>0, <2>0, <2>1, <3>1
  <2>3. CASE FinalRead(k)
    <3>1. AllWon(k) => ~\E t \in Targets : target[t] = "FAILED"
      BY DEF AllWon, IInv, LegsSent
    <3>2. request # "CANCELLED" =>
             (run'[k].next = "COMPLETED" => "CANCELLING" \notin run'[k].from)
      BY <1>0, <2>3, <3>1 DEF FinalRead, Becomes
    <3>3. CASE request # "CANCELLED"
      BY <1>0, <2>0, <2>1, <3>2, <3>3
    <3> QED BY <2>2, <2>3, <3>3 DEF FinalRead
  <2>4. CASE Finish(k)
    <3>1. run'[k].from = {}
      BY <1>0, <2>4 DEF Finish, Goto, Becomes, NoRun
    <3> QED BY <1>0, <2>0, <2>1, <3>1
  <2>5. CASE JobClaimed(k) \/ EndLegs(k)
    BY <1>0, <2>0, <2>5 DEF JobClaimed, EndLegs, Run
  <2>6. CASE Beat(k) \/ JobLost(k)
    BY <1>1, <2>0, <2>6 DEF Beat, JobLost, workers
  <2> QED
    BY <1>3, <2>2, <2>3, <2>4, <2>5, <2>6
    DEF RunAct, RunStep, Start, FirstBeat, Ack, Settle, MarkFailed, MarkTargets, FailJob,
        RunThrows, MarkThrows, RunDies
<1> QED BY <1>1, <1>2, <1>3, Actors, LegFrame DEF vars, workers, control

\* A job is COMPLETED by a settlement that has found the request COMPLETED.
LEMMA OutcomeStep == ASSUME IInv, [Next]_vars PROVE JobTellsOutcome'
<1> USE DEF JobTellsOutcome
<1>0. /\ job \in [Jobs -> {"none", "PENDING", "RUNNING", "COMPLETED", "FAILED"}]
      /\ request \in Open \cup Terminal /\ JobTellsOutcome
  BY DEF IInv, TypeOK
<1>1. request = "COMPLETED" => request' = "COMPLETED"
  BY RequestStep DEF IInv, RequestMove, Terminal
<1>2. CASE \A k \in Jobs : job'[k] = "COMPLETED" => job[k] = "COMPLETED"
  BY <1>0, <1>1, <1>2
<1>3. CASE Others
  BY <1>0, <1>2, <1>3
  DEF Others, ReviewStep, CancelStep, RecStep, EnqStep, queue, Approve, Reject,
      RejectTargets, SweepQueued, CancelRead, CancelClaim, CancelQueued, CancelRunning, Age,
      RecRead, RecWaiting, RecClaim, RecTargets, ReviewDies, CancelDies, RecDies, EnqClaim,
      EnqMark, EnqCheck, EnqQueue, EnqThrows, UndoRequest, UndoTargets, EnqDies
<1>4. ASSUME NEW k \in Jobs, RunAct(k) PROVE JobTellsOutcome'
  <2>1. CASE Settle(k)
    <3>1. request \in Terminal \ {"REJECTED"}
      <4>1. request \in Terminal /\ job[k] # "none"
        BY <2>1 DEF Settle, Runs, IInv, Settling, JobsRun, NoRun
      <4> QED BY <4>1 DEF IInv, Quiet
    <3>2. request' = request
      BY <2>1 DEF Settle, rows
    <3> QED BY <1>0, <2>1, <3>1, <3>2 DEF Settle, Terminal
  <2>2. CASE JobClaimed(k) \/ JobLost(k) \/ FailJob(k)
    BY <1>0, <1>2, <2>2 DEF JobClaimed, JobLost, FailJob
  <2> QED
    BY <1>2, <1>4, <2>1, <2>2
    DEF RunAct, RunStep, queue, Start, FirstBeat, EndLegs, FinalRead, Finish, Ack, MarkFailed,
        MarkTargets, Beat, RunThrows, MarkThrows, RunDies
<1> QED BY <1>2, <1>3, <1>4, Actors, LegFrame DEF vars, queue

\* A claim is taken by an enqueuer when there is none, passes to the job it
\* queues, and is given up only with the job not queued.
LEMMA ClaimStep ==
    ASSUME IInv, OneClaim, [Next]_vars PROVE OneClaim'
<1> USE DEF OneClaim, Holding, Queued
<1>0. /\ job \in [Jobs -> {"none", "PENDING", "RUNNING", "COMPLETED", "FAILED"}]
      /\ enq \in [Enqueuers -> EnqPcs] /\ OneClaim
  BY DEF IInv, TypeOK
<1>1. CASE /\ UNCHANGED <<enq, unanswered>> /\ \A k \in Jobs : job'[k] # "none" => job[k] # "none"
           /\ \/ request' = request \/ request' \notin {"PENDING_APPROVAL", "APPROVED"}
              \/ request = "PENDING_APPROVAL"
  BY <1>0, <1>1
<1>2. CASE Approve \/ SweepQueued
  BY <1>0, <1>2 DEF Approve, SweepQueued, rows, Enqueuers
<1>3. ASSUME NEW e \in Enqueuers, EnqClaim(e) PROVE OneClaim'
  BY <1>0, <1>3 DEF EnqClaim
<1>4. ASSUME NEW e \in Enqueuers, EnqMark(e) \/ EnqCheck(e) PROVE OneClaim'
  BY <1>0, <1>4 DEF EnqMark, EnqCheck, rows
<1>5. ASSUME NEW e \in Enqueuers, EnqQueue(e) PROVE OneClaim'
  BY <1>0, <1>5 DEF EnqQueue, rows
<1>6. ASSUME NEW e \in Enqueuers, EnqThrows(e) PROVE OneClaim'
  BY <1>0, <1>6 DEF EnqThrows, rows
<1>7. ASSUME NEW e \in Enqueuers, UndoRequest(e) PROVE OneClaim'
  BY <1>0, <1>7 DEF UndoRequest
<1>8. ASSUME NEW e \in Enqueuers, UndoTargets(e) \/ EnqDies(e) PROVE OneClaim'
  BY <1>0, <1>8 DEF UndoTargets, EnqDies, rows
<1>9. CASE Reject \/ RejectTargets \/ Age \/ ReviewDies
  BY <1>1, <1>9 DEF Reject, RejectTargets, Age, ReviewDies, rows, queue
<1>10. CASE CancelStep \/ CancelDies
  BY <1>1, <1>10
  DEF CancelStep, CancelRead, CancelClaim, CancelQueued, CancelRunning, CancelDies, rows, queue
<1>11. CASE RecStep \/ RecDies
  <2>1. rec.next \in Outcomes
    BY DEF IInv, TypeOK, Sweep
  <2> QED BY <1>1, <1>11, <2>1
      DEF RecStep, RecRead, RecWaiting, RecClaim, RecTargets, RecDies, rows, queue, Outcomes
<1>12. ASSUME NEW k \in Jobs, RunAct(k) PROVE OneClaim'
  <2>1. job[k] # "none"
    BY <1>12
    DEF RunAct, RunStep, JobClaimed, Start, FirstBeat, EndLegs, FinalRead, Finish, Ack, Settle,
        MarkFailed, MarkTargets, FailJob, Beat, RunThrows, MarkThrows, JobLost, RunDies, Runs,
        IInv, JobsRun, NoRun
  <2>2. \A j \in Jobs : job'[j] # "none" => job[j] # "none"
    BY <1>0, <1>12, <2>1
    DEF RunAct, RunStep, queue, JobClaimed, Start, FirstBeat, EndLegs, FinalRead, Finish, Ack,
        Settle, MarkFailed, MarkTargets, FailJob, Beat, RunThrows, MarkThrows, JobLost, RunDies
  <2>3. run[k].next \in Outcomes
    BY DEF IInv, TypeOK, Run
  <2>4. request' = request \/ request' \notin {"PENDING_APPROVAL", "APPROVED"}
    BY <1>12, <2>3
    DEF RunAct, RunStep, rows, JobClaimed, Start, FirstBeat, EndLegs, FinalRead, Finish, Ack,
        Settle, MarkFailed, MarkTargets, FailJob, Beat, RunThrows, MarkThrows, JobLost, RunDies,
        Outcomes
  <2> QED BY <1>1, <1>12, <2>2, <2>4, RunFrame
<1>13. CASE Others
  BY <1>2, <1>3, <1>4, <1>5, <1>6, <1>7, <1>8, <1>9, <1>10, <1>11, <1>13
  DEF Others, ReviewStep, EnqStep
<1> QED BY <1>1, <1>12, <1>13, Actors, LegFrame DEF vars, rows, queue

-----------------------------------------------------------------------------
\* The invariant holds initially ...
LEMMA InitIInv == Init => IInv /\ OneClaim
<1> SUFFICES ASSUME Init PROVE IInv /\ OneClaim
  OBVIOUS
<1> USE DEF Init
<1>1. TypeOK
  <2>1. NoRun \in Run /\ NoSweep \in Sweep
    BY DEF NoRun, NoSweep, Run, Sweep, RunPcs, Outcomes, Open
  <2>2. enq \in [Enqueuers -> EnqPcs]
    BY DEF EnqPcs
  <2>3. leg \in [Jobs -> [Targets -> LegPcs]]
    BY DEF LegPcs, NoLegs
  <2>4. cancel \in Cancel
    BY DEF Cancel, NoCancel, Open
  <2> QED BY <2>1, <2>2, <2>3, <2>4 DEF TypeOK, Open, Terminal
<1>2. Quiet
  BY DEF Quiet, NoSweep, NoCancel
<1>3. JobsRun /\ LegsSent
  BY DEF JobsRun, LegsSent, NoLegs
<1>4. TargetsRan /\ Decided
  BY DEF TargetsRan, Decided, NoRun, NoSweep
<1>5. Settling /\ JobTellsOutcome
  BY DEF Settling, JobTellsOutcome, NoRun
<1>7. StopsFirst
  BY DEF StopsFirst, NoRun, NoSweep
<1>6. OneClaim
  BY DEF OneClaim, Holding, Queued
<1> QED BY <1>1, <1>2, <1>3, <1>4, <1>5, <1>6, <1>7 DEF IInv

\* ... and every step keeps it.
LEMMA NextIInv == IInv /\ [Next]_vars => IInv'
<1> SUFFICES ASSUME IInv, [Next]_vars PROVE IInv'
  OBVIOUS
<1>1. TypeOK'
  BY TypeStep DEF IInv
<1> QED BY <1>1, QuietStep, JobsStep, LegsStep, RanStep, DecidedStep, SettlingStep, StopsStep,
           OutcomeStep
        DEF IInv

\* The inductive invariant holds in every reachable state.
THEOREM Inductive == Spec => []IInv
<1>1. Init => IInv
  BY InitIInv
<1> QED BY <1>1, NextIInv, PTL DEF Spec

\* Every variable keeps its type: no executor and no sweep decides on a status
\* that an execution cannot end with.
THEOREM TypeCorrect == Spec => []TypeOK
<1>1. IInv => TypeOK
  BY DEF IInv
<1> QED BY <1>1, Inductive, PTL

\* COMPLETED, by the executor or by the sweep, is true of every target.
THEOREM CompletionIsTrue == Spec => []CompletedMeansRan
<1>1. IInv => CompletedMeansRan
  BY DEF IInv, Decided, AllCompleted, TargetsRan, CompletedMeansRan
<1> QED BY <1>1, Inductive, PTL

\* A job of the queue is COMPLETED only with its request.
THEOREM JobsTellTheOutcome == Spec => []JobTellsOutcome
<1>1. IInv => JobTellsOutcome
  BY DEF IInv
<1> QED BY <1>1, Inductive, PTL

\* Requests and targets that are settled stay as they are, whoever comes late.
THEOREM SettledStays == Spec => SettledForGood
<1>1. IInv /\ [Next]_vars =>
        [/\ request \in Terminal => request' = request
         /\ \A t \in Targets : target[t] \in Terminal => target'[t] = target[t]]_vars
  BY RequestStep, TargetStep DEF IInv, RequestMove, TargetMove
<1> QED BY <1>1, Inductive, PTL DEF Spec, SettledForGood

\* However reviewer and sweep race to enqueue and to give back, no target is sent
\* its command by two jobs that were each reported as queued.
THEOREM SentOnce == Spec => []DispatchedOnce
<1>1. Init => IInv /\ OneClaim
  BY InitIInv
<1>2. (IInv /\ OneClaim) /\ [Next]_vars => (IInv /\ OneClaim)'
  BY NextIInv, ClaimStep
<1>3. IInv /\ OneClaim => DispatchedOnce
  BY DEF IInv, JobsRun, OneClaim, Queued, DispatchedOnce
<1> QED BY <1>1, <1>2, <1>3, PTL DEF Spec

-----------------------------------------------------------------------------
\* A worker has a job that was queued for a request somebody has allowed.
LEMMA AllowedWorks ==
    ASSUME IInv, NEW k \in Jobs, run[k] # NoRun \/ \E t \in Targets : leg[k][t] # "todo"
    PROVE  request \notin {"PENDING_APPROVAL", "REJECTED"}
  BY DEF IInv, JobsRun, Quiet

\* Nobody lets a request run that was called off, and COMPLETED follows on
\* a request that nobody has called off.
LEMMA StateStep == ASSUME IInv, [Next]_vars PROVE StateMove
<1> USE DEF StateMove, Runnable
<1>0. request \in Open \cup Terminal /\ run \in [Jobs -> Run] /\ rec \in Sweep
  BY DEF IInv, TypeOK
<1>1. CASE UNCHANGED request
  BY <1>1
<1>2. CASE Others
  <2>1. CASE CancelClaim
    <3>1. cancel.read \in Open
      BY DEF IInv, TypeOK, Cancel
    <3> QED BY <2>1, <3>1 DEF CancelClaim, Open
  <2>2. CASE RecClaim
    <3>1. request # "PENDING_APPROVAL"
      BY <2>2 DEF RecClaim, IInv, Quiet
    <3>2. rec.read \in Open /\ rec.next \in Outcomes
      BY <1>0 DEF Sweep
    <3>3. rec.read = "CANCELLING" => rec.next # "COMPLETED"
      BY DEF IInv, StopsFirst
    <3> QED BY <2>2, <3>1, <3>2, <3>3 DEF RecClaim, Open, Outcomes
  <2> QED
    BY <1>1, <1>2, <2>1, <2>2
    DEF Others, ReviewStep, CancelStep, RecStep, EnqStep, rows, Approve, Reject, RejectTargets,
        SweepQueued, CancelRead, CancelQueued, CancelRunning, Age, RecRead, RecWaiting,
        RecTargets, ReviewDies, CancelDies, RecDies, EnqClaim, EnqMark, EnqCheck, EnqQueue,
        EnqThrows, UndoRequest, UndoTargets, EnqDies
<1>3. ASSUME NEW k \in Jobs, RunAct(k) PROVE StateMove
  <2>1. CASE Finish(k)
    <3>1. request # "PENDING_APPROVAL"
      BY <2>1, AllowedWorks DEF Finish, Runs, NoRun
    <3>2. run[k].from \subseteq Open /\ run[k].next \in Outcomes
      BY <1>0 DEF Run
    <3>3. run[k].next = "COMPLETED" => "CANCELLING" \notin run[k].from
      BY DEF IInv, StopsFirst
    <3> QED BY <2>1, <3>1, <3>2, <3>3 DEF Finish, Open, Outcomes
  <2>2. CASE Ack(k) \/ MarkFailed(k)
    BY <2>2 DEF Ack, MarkFailed
  <2> QED
    BY <1>1, <1>3, <2>1, <2>2
    DEF RunAct, RunStep, rows, JobClaimed, Start, FirstBeat, EndLegs, FinalRead, Settle,
        MarkTargets, FailJob, Beat, RunThrows, MarkThrows, JobLost, RunDies
<1> QED BY <1>1, <1>2, <1>3, Actors, LegFrame DEF vars, rows

\* The check before a transport finds a request and a target that nobody has
\* called off and that have not failed.
LEMMA ClearStep ==
    ASSUME IInv, [Next]_vars, NEW k \in Jobs, NEW t \in Targets PROVE ClearMove(k, t)
<1>0. /\ run \in [Jobs -> Run] /\ leg \in [Jobs -> [Targets -> LegPcs]]
      /\ request \in Open \cup Terminal /\ target[t] \in Open \cup Terminal
  BY DEF IInv, TypeOK
<1>1. CASE UNCHANGED <<run, leg>>
  BY <1>1 DEF ClearMove, At
<1>2. ASSUME NEW j \in Jobs, RunAct(j) PROVE ClearMove(k, t)
  <2>1. CASE j # k
    BY <1>0, <1>1, <1>2, <2>1, RunChanges DEF Becomes, ClearMove, At
  <2>2. ASSUME j = k, NEW pc \in {"start", "finalRead"}, run' = [run EXCEPT ![k].pc = pc]
        PROVE  run'[k].pc # "legs"
    BY <1>0, <2>2 DEF Run
  <2>3. ASSUME j = k, NEW new, Becomes(k, new) PROVE leg'[k][t] = "todo"
    BY <1>0, <2>3 DEF Becomes, NoLegs
  <2> QED BY <1>1, <1>2, <2>1, <2>2, <2>3, RunChanges DEF ClearMove, At
<1>3. ASSUME NEW j \in Jobs, NEW s \in Targets, LegStep(j, s) PROVE ClearMove(k, t)
  <2>0. UNCHANGED run
    BY <1>3, LegFrame
  <2>1. ASSUME NEW pc, Goes(j, s, pc), pc # "checked" \/ j # k \/ s # t PROVE ClearMove(k, t)
    BY <1>0, <2>0, <2>1 DEF Goes, ClearMove, At
  <2>2. CASE Look(j, s) \/ Refuse(j, s)
    BY <2>1, <2>2 DEF Look, Refuse
  <2>3. CASE Stop(j, s) \/ Deny(j, s) \/ LegThrows(j, s)
    BY <2>1, <2>3 DEF Stop, Deny, LegThrows
  <2>4. CASE Send(j, s) \/ Reply(j, s)
    BY <2>1, <2>4 DEF Send, Reply
  <2>5. CASE Record(j, s)
    BY <2>1, <2>5 DEF Record
  <2>6. CASE Check(j, s)
    <3>1. CASE j = k /\ s = t /\ {target[t], request} \cap Revoked = {}
      <4>1. request \notin {"PENDING_APPROVAL", "REJECTED"}
        BY <1>0, <2>6, <3>1, AllowedWorks DEF Check, At
      <4>2. target[t] \in Open \cup {"COMPLETED"}
        BY <1>0, <3>1 DEF Revoked, Open, Terminal
      <4>3. request \in Runnable \cup {"COMPLETED"}
        BY <1>0, <3>1, <4>1 DEF Revoked, Open, Terminal, Runnable
      <4> QED BY <4>2, <4>3 DEF ClearMove
    <3> QED BY <2>1, <2>6, <3>1 DEF Check
  <2> QED BY <1>3, <2>2, <2>3, <2>4, <2>5, <2>6 DEF LegStep
<1> QED BY <1>1, <1>2, <1>3, Actors, OthersFrame DEF vars, workers

\* A transport starts after the check.
LEMMA StartStep ==
    ASSUME [Next]_vars, NEW k \in Jobs, NEW t \in Targets PROVE StartMove(k, t)
<1>1. ASSUME NEW j \in Jobs, NEW s \in Targets, LegStep(j, s) PROVE StartMove(k, t)
  BY <1>1 DEF LegStep, Look, Stop, Deny, Check, Send, Refuse, Reply, Record, LegThrows, StartMove
<1> QED BY <1>1, Actors, OthersFrame, RunFrame DEF vars, workers, StartMove

\* The request, its jobs and everybody who works on them implement
\* ReviewedCommand: each step is one of its steps or changes nothing it knows.
THEOREM Implements == Spec => ImplementsReviewed
<1>1. Init => Reviewed!Init
  <2> SUFFICES ASSUME Init PROVE Reviewed!Init
    OBVIOUS
  <2>1. StateOf(request) \in {"asked", "allowed"}
    BY DEF Init, StateOf
  <2>2. \A t \in Targets : OutcomeOf(target[t]) = "open"
    BY DEF Init, OutcomeOf, Open
  <2>3. {d \in Jobs \X Targets : At(d[1], d[2], "checked")} = {} /\ sent = {}
    BY DEF Init, At, NoRun
  <2> QED BY <2>1, <2>2, <2>3, Zenon DEF Reviewed!Init
<1>2. ASSUME IInv, IInv', [Next]_vars PROVE [Reviewed!Next]_(Reviewed!vars)
  <2>0. /\ request \in Open \cup Terminal /\ request' \in Open \cup Terminal
        /\ \A t \in Targets : target[t] \in Open \cup Terminal /\ target'[t] \in Open \cup Terminal
    BY <1>2 DEF IInv, TypeOK
  <2>1. Reviewed!RequestMoves
    <3>1. StateMove
      BY <1>2, StateStep
    <3>2. request' = "COMPLETED" => \A t \in Targets : OutcomeOf(target'[t]) = "completed"
      BY <1>2 DEF IInv, Decided, AllCompleted, OutcomeOf, Open, StateOf
    <3>3. CASE StateOf(request') = StateOf(request)
      BY <3>3 DEF Reviewed!RequestMoves
    <3>4. CASE request = "PENDING_APPROVAL" /\ request' \in {"APPROVED", "REJECTED", "CANCELLED"}
      BY <3>4 DEF StateOf, Reviewed!RequestMoves, Reviewed!Review, Reviewed!CallOff
    <3>5. CASE request \in Runnable /\ request' \in {"CANCELLING", "CANCELLED", "FAILED"}
      BY <3>5 DEF StateOf, Runnable, Reviewed!RequestMoves, Reviewed!CallOff, Reviewed!Fail
    <3>6. CASE request \in Runnable /\ request' = "COMPLETED"
      <4>1. StateOf(request) = "allowed" /\ StateOf(request') = "completed"
        BY <3>6 DEF StateOf, Runnable
      <4>2. Reviewed!Complete
        BY <3>2, <3>6, <4>1 DEF Reviewed!Complete
      <4> QED BY <4>2 DEF Reviewed!RequestMoves
    <3>7. CASE request = "CANCELLING" /\ request' \in {"CANCELLED", "FAILED"}
      BY <3>7 DEF StateOf, Reviewed!RequestMoves, Reviewed!CallOff, Reviewed!Fail
    <3>8. request \in Runnable /\ request' \in Runnable => StateOf(request') = StateOf(request)
      BY DEF StateOf, Runnable
    <3> QED BY <3>1, <3>3, <3>4, <3>5, <3>6, <3>7, <3>8 DEF StateMove
  <2>2. Reviewed!TargetsMove
    <3>1. ASSUME NEW t \in Targets
          PROVE  \/ OutcomeOf(target'[t]) = OutcomeOf(target[t])
                 \/ /\ OutcomeOf(target[t]) = "open"
                    /\ \/ OutcomeOf(target'[t]) = "completed" /\ WasSent(t)
                       \/ OutcomeOf(target'[t]) \in {"failed", "cancelled"}
                       \/ OutcomeOf(target'[t]) = "rejected" /\ StateOf(request) = "rejected"
      <4>1. TargetMove(t)
        BY <1>2, TargetStep DEF IInv
      <4>2. CASE target'[t] = target[t]
        BY <4>2
      <4>3. CASE target[t] \in Open /\ target'[t] \in Open
        BY <4>3 DEF OutcomeOf
      <4>4. CASE target[t] \in Open /\ target'[t] \in Terminal
        BY <4>1, <4>4 DEF TargetMove, OutcomeOf, StateOf, Open, Terminal, WasSent
      <4> QED BY <2>0, <4>1, <4>2, <4>3, <4>4 DEF TargetMove
    <3> QED BY <3>1, Zenon DEF Reviewed!TargetsMove, Reviewed!TargetSettles, WasSent
  <2>3. Reviewed!Deliveries
    <3>0. sent \subseteq Jobs \X Targets /\ sent' \subseteq Jobs \X Targets
      BY <1>2 DEF IInv, TypeOK
    <3>1. ASSUME NEW d \in Jobs \X Targets, At(d[1], d[2], "checked")', ~At(d[1], d[2], "checked")
          PROVE  Reviewed!MayClear(d[2])
      <4>1. PICK k \in Jobs, t \in Targets : d = <<k, t>>
        OBVIOUS
      <4>2. /\ request \in Runnable \cup {"COMPLETED"}
            /\ target[t] \in Open \cup {"COMPLETED"}
        BY <1>2, <3>1, <4>1, ClearStep DEF ClearMove
      <4>3. StateOf(request) \in {"allowed", "completed"}
        BY <4>2 DEF StateOf, Runnable
      <4>4. OutcomeOf(target[t]) \in {"open", "completed"}
        BY <4>2 DEF OutcomeOf, StateOf, Open
      <4> QED BY <4>1, <4>3, <4>4 DEF Reviewed!MayClear
    <3>2. ASSUME NEW d \in sent', d \notin sent
          PROVE  d \in Jobs \X Targets /\ At(d[1], d[2], "checked")
      <4>1. PICK k \in Jobs, t \in Targets : d = <<k, t>>
        BY <3>0, <3>2
      <4> QED BY <1>2, <3>2, <4>1, StartStep DEF StartMove
    <3>3. sent \subseteq sent'
      BY <1>2, SentStep
    <3> QED BY <3>1, <3>2, <3>3, Zenon DEF Reviewed!Deliveries
  <2> QED BY <2>1, <2>2, <2>3 DEF Reviewed!Next
<1> QED BY <1>1, <1>2, Inductive, PTL DEF Spec, ImplementsReviewed, Reviewed!Spec

=============================================================================

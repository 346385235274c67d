--------------------------- MODULE CommandRequest ---------------------------
(***************************************************************************)
(* The life of one command request (src/src/lib/command): it is approved,  *)
(* queued as a command.execution job, dispatched to its targets by the     *)
(* worker that claims the job, and it may be cancelled by an operator or   *)
(* taken for lost by the maintenance sweep at any moment.                  *)
(*                                                                         *)
(* No transaction spans two of the rows involved.  Every actor moves by    *)
(* single updates, each guarded by the status it may change, and an action *)
(* is one such update or one read.  The jobs are those of module JobQueue, *)
(* reduced to what this component sees: maxAttempts is 1, so each is run   *)
(* at most once and `run` is indexed by job.                               *)
(***************************************************************************)
EXTENDS Integers, FiniteSets

CONSTANTS
    Targets,      \* the command_targets rows of the request
    Jobs,         \* ids of command.execution jobs that may be enqueued for it
    Caller,       \* the process serving createCommandRequest / reviewCommandRequest
    Sweeper,      \* the command maintenance worker
    LostAnswers   \* an enqueueJob that throws may have committed

ASSUME CommandAssumption ==
    /\ Targets # {}
    /\ Caller # Sweeper
    /\ LostAnswers \in BOOLEAN

VARIABLES
    request,   \* status of the command_requests row
    beat,      \* its workerHeartbeatAt: "fresh", or "stale" by the cutoff
    target,    \* status of each target
    job,       \* status of each job
    run,       \* executeAndFinalizeCommand of each job's worker
    leg,       \* executeTarget of each job and target
    enq,       \* enqueueApprovedCommandExecution of the two that call it
    review,    \* what a rejection has left to do
    cancel,    \* cancelCommandRequest
    rec,       \* recoverStaleRunningCommandRequests
    sent,      \* history: the <<job, target>> pairs whose transport was started
    acked,     \* history: targets whose transport reported its cancellation
    unanswered \* history: jobs committed by an enqueueJob that threw

rows == <<request, beat, target>>
queue == <<job, enq, unanswered>>
workers == <<run, leg, sent, acked>>
control == <<review, cancel, rec>>
vars == <<rows, queue, workers, control>>

Open == {"PENDING_APPROVAL", "APPROVED", "RUNNING", "CANCELLING"}
Terminal == {"COMPLETED", "FAILED", "CANCELLED", "REJECTED"}
Enqueuers == {Caller, Sweeper}
EnqPcs == {"idle", "claim", "mark", "check", "queue", "undoRequest", "undoTargets"}
RunPcs == {"idle", "start", "beat", "legs", "finalRead", "finish", "ack",
           "settle", "markFailed", "markTargets", "failJob", "over"}
LegPcs == {"todo", "stopping", "cleared", "checked", "aborted", "sent",
           "ok", "failed", "cancelled", "won", "lost", "threw"}
LegEnds == {"won", "lost", "threw"}

\* updateMany on the targets with a status in `from`.
Moved(from, to) == [t \in Targets |-> IF target[t] \in from THEN to ELSE target[t]]

Outcomes == {"COMPLETED", "FAILED", "CANCELLED"}   \* of an execution
Run == [pc : RunPcs, next : Outcomes, from : SUBSET Open, failed : BOOLEAN]
Cancel == [pc : {"idle", "claim", "queued", "running"}, read : Open]
Sweep == [pc : {"idle", "jobs", "claim", "targets"}, read : Open, next : Outcomes,
          open : BOOLEAN]
NoRun == [pc |-> "idle", next |-> "FAILED", from |-> {}, failed |-> FALSE]
NoLegs == [t \in Targets |-> "todo"]
NoCancel == [pc |-> "idle", read |-> "RUNNING"]
NoSweep == [pc |-> "idle", read |-> "RUNNING", next |-> "FAILED", open |-> FALSE]

\* createCommandRequest has written the request with its targets; one that needs
\* no approval is enqueued by the same call.
Init ==
    /\ request \in {"PENDING_APPROVAL", "APPROVED"}
    /\ beat = "fresh"
    /\ target = [t \in Targets |-> request]
    /\ job = [k \in Jobs |-> "none"]
    /\ run = [k \in Jobs |-> NoRun]
    /\ leg = [k \in Jobs |-> NoLegs]
    /\ enq = [e \in Enqueuers |-> IF e = Caller /\ request = "APPROVED"
                                  THEN "claim" ELSE "idle"]
    /\ review = "idle"
    /\ cancel = NoCancel
    /\ rec = NoSweep
    /\ sent = {} /\ acked = {} /\ unanswered = {}

-----------------------------------------------------------------------------
\* reviewCommandRequest.

\* The transaction that approves; the same call goes on to enqueue.
Approve ==
    /\ request = "PENDING_APPROVAL"
    /\ request' = "APPROVED"
    /\ enq' = [enq EXCEPT ![Caller] = "claim"]
    /\ UNCHANGED <<beat, target, job, unanswered, workers, control>>

Reject ==
    /\ request = "PENDING_APPROVAL"
    /\ request' = "REJECTED"
    /\ review' = "targets"
    /\ UNCHANGED <<beat, target, queue, workers, cancel, rec>>

RejectTargets ==
    /\ review = "targets"
    /\ target' = [t \in Targets |-> "REJECTED"]
    /\ review' = "idle"
    /\ UNCHANGED <<request, beat, queue, workers, cancel, rec>>

-----------------------------------------------------------------------------
\* enqueueApprovedCommandExecution.

\* recoverQueuedApprovedCommandRequests finds the request.
SweepQueued ==
    /\ request = "APPROVED" /\ enq[Sweeper] = "idle"
    /\ enq' = [enq EXCEPT ![Sweeper] = "claim"]
    /\ UNCHANGED <<rows, job, unanswered, workers, control>>

\* Variant: the claim also takes a request that is RUNNING already.
EnqClaimAny(e) ==
    /\ enq[e] = "claim"
    /\ IF request \in {"APPROVED", "RUNNING"}
       THEN request' = "RUNNING" /\ beat' = "fresh"
       ELSE UNCHANGED <<request, beat>>
    /\ enq' = [enq EXCEPT ![e] = IF request \in {"APPROVED", "RUNNING"}
                                 THEN "mark" ELSE "idle"]
    /\ UNCHANGED <<target, job, unanswered, workers, control>>

EnqClaim(e) ==
    /\ enq[e] = "claim"
    /\ IF request = "APPROVED"
       THEN request' = "RUNNING" /\ beat' = "fresh"
       ELSE UNCHANGED <<request, beat>>
    /\ enq' = [enq EXCEPT ![e] = IF request = "APPROVED" THEN "mark" ELSE "idle"]
    /\ UNCHANGED <<target, job, unanswered, workers, control>>

\* markTargetsRunning.
EnqMark(e) ==
    /\ enq[e] = "mark"
    /\ target' = Moved({"PENDING_APPROVAL", "APPROVED"}, "RUNNING")
    /\ enq' = [enq EXCEPT ![e] = "check"]
    /\ UNCHANGED <<request, beat, job, unanswered, workers, control>>

EnqCheck(e) ==
    /\ enq[e] = "check"
    /\ enq' = [enq EXCEPT ![e] = IF request \in Terminal THEN "idle" ELSE "queue"]
    /\ UNCHANGED <<rows, job, unanswered, workers, control>>

EnqQueue(e) ==
    /\ enq[e] = "queue"
    /\ \E k \in Jobs : job[k] = "none" /\ job' = [job EXCEPT ![k] = "PENDING"]
    /\ enq' = [enq EXCEPT ![e] = "idle"]
    /\ UNCHANGED <<rows, unanswered, workers, control>>

\* enqueueJob throws, without having committed or with its answer lost.
EnqThrows(e) ==
    /\ enq[e] = "queue"
    /\ \/ UNCHANGED <<job, unanswered>>
       \/ /\ LostAnswers
          /\ \E k \in Jobs :
                /\ job[k] = "none" /\ job' = [job EXCEPT ![k] = "PENDING"]
                /\ unanswered' = unanswered \cup {k}
    /\ enq' = [enq EXCEPT ![e] = "undoRequest"]
    /\ UNCHANGED <<rows, workers, control>>

\* The two updates of the catch block; a failure of either is ignored.
UndoRequest(e) ==
    /\ enq[e] = "undoRequest"
    /\ request' \in {request, IF request = "RUNNING" THEN "APPROVED" ELSE request}
    /\ enq' = [enq EXCEPT ![e] = "undoTargets"]
    /\ UNCHANGED <<beat, target, job, unanswered, workers, control>>

UndoTargets(e) ==
    /\ enq[e] = "undoTargets"
    /\ target' \in {target, Moved({"RUNNING"}, "APPROVED")}
    /\ enq' = [enq EXCEPT ![e] = "idle"]
    /\ UNCHANGED <<request, beat, job, unanswered, workers, control>>

-----------------------------------------------------------------------------
\* The job, as the durable queue treats it (module JobQueue).

JobClaimed(k) ==
    /\ job[k] = "PENDING"
    /\ job' = [job EXCEPT ![k] = "RUNNING"]
    /\ run' = [run EXCEPT ![k].pc = "start"]
    /\ UNCHANGED <<rows, enq, unanswered, leg, sent, acked, control>>

\* The job is cancelled, abandoned or its lease is lost; its only attempt is
\* used up, so it is never run again.
JobLost(k) ==
    /\ job[k] \in {"PENDING", "RUNNING"}
    /\ job' = [job EXCEPT ![k] = "FAILED"]
    /\ UNCHANGED <<rows, enq, unanswered, workers, control>>

-----------------------------------------------------------------------------
\* executeTarget of job k on target t: each step one read or one update.

At(k, t, pc) == run[k].pc = "legs" /\ leg[k][t] = pc
Goes(k, t, pc) == leg' = [leg EXCEPT ![k][t] = pc]

\* The live re-read.
Look(k, t) ==
    /\ At(k, t, "todo")
    /\ \/ /\ target[t] \in Terminal \/ request \in Terminal
          /\ Goes(k, t, "lost")
       \/ /\ target[t] \notin Terminal /\ request \notin Terminal
          /\ "CANCELLING" \in {target[t], request}
          /\ Goes(k, t, "stopping")
       \/ /\ target[t] \notin Terminal /\ request \notin Terminal
          /\ "CANCELLING" \notin {target[t], request}
          /\ Goes(k, t, "cleared")
    /\ UNCHANGED <<rows, queue, run, sent, acked, control>>

\* An update of target t alone, which only moves it while it is open.
Settles(t, to) == target' = [target EXCEPT ![t] = IF @ \in Open THEN to ELSE @]

\* Cancelled before dispatch.
Stop(k, t) ==
    /\ At(k, t, "stopping")
    /\ Settles(t, "CANCELLED") /\ Goes(k, t, "lost")
    /\ UNCHANGED <<request, beat, queue, run, sent, acked, control>>

\* failTarget: the requester may no longer run commands there, or the credentials
\* of the server do not do.  The latter is found after the first check.
Deny(k, t) ==
    /\ \E pc \in {"cleared", "checked", "aborted"} : At(k, t, pc)
    /\ Settles(t, "FAILED") /\ Goes(k, t, "lost")
    /\ UNCHANGED <<request, beat, queue, run, sent, acked, control>>

Revoked == {"CANCELLING", "CANCELLED", "FAILED", "REJECTED"}

\* Variant: the monitor is started without waiting for its first check.
CheckUnawaited(k, t) ==
    /\ At(k, t, "cleared") /\ Goes(k, t, "checked")
    /\ UNCHANGED <<rows, queue, run, sent, acked, control>>

\* monitorCommandCancellation: its first check, and those of its timer up to the
\* start of the transport.  The signal is aborted after a cancellation, and
\* whenever the check does not reach the database.
Check(k, t) ==
    /\ \/ /\ At(k, t, "cleared") /\ {target[t], request} \cap Revoked = {}
          /\ Goes(k, t, "checked")
       \/ /\ At(k, t, "cleared") \/ At(k, t, "checked")
          /\ Goes(k, t, "aborted")
    /\ UNCHANGED <<rows, queue, run, sent, acked, control>>

\* The transport starts (Agent job or SSH session): its signal is not aborted.
\* The statuses are not read again, so they may have changed since the check.
Send(k, t) ==
    /\ At(k, t, "checked")
    /\ Goes(k, t, "sent") /\ sent' = sent \cup {<<k, t>>}
    /\ UNCHANGED <<rows, queue, run, acked, control>>

\* It does not start, for the signal or for an error of its own.
Refuse(k, t) ==
    /\ \/ At(k, t, "aborted") /\ Goes(k, t, "cancelled")
       \/ (At(k, t, "checked") \/ At(k, t, "aborted")) /\ Goes(k, t, "failed")
    /\ UNCHANGED <<rows, queue, run, sent, acked, control>>

\* The transport ends.  The monitor's polling aborts it after a cancellation and
\* also when it cannot reach the database, so any end is possible at any time.
Reply(k, t) ==
    /\ At(k, t, "sent")
    /\ \E pc \in {"ok", "failed", "cancelled"} :
          /\ Goes(k, t, pc)
          /\ acked' = IF pc = "cancelled" THEN acked \cup {t} ELSE acked
    /\ UNCHANGED <<rows, queue, run, sent, control>>

Outcome(pc) == CASE pc = "ok" -> "COMPLETED" [] pc = "failed" -> "FAILED"
                 [] pc = "cancelled" -> "CANCELLED"

\* The result is written unless the target has been settled meanwhile.
Record(k, t) ==
    /\ \E pc \in {"ok", "failed", "cancelled"} :
          /\ At(k, t, pc)
          /\ Settles(t, Outcome(pc))
          /\ Goes(k, t, IF pc = "ok" /\ target[t] \in Open THEN "won" ELSE "lost")
    /\ UNCHANGED <<request, beat, queue, run, sent, acked, control>>

\* A database call of executeTarget throws, the last one being the log entry
\* after the result was written.
LegThrows(k, t) ==
    /\ run[k].pc = "legs" /\ leg[k][t] \notin {"threw", "sent"}
    /\ Goes(k, t, "threw")
    /\ UNCHANGED <<rows, queue, run, sent, acked, control>>

-----------------------------------------------------------------------------
\* handleClaimedJob and executeAndFinalizeCommand of job k.

Runs(k, pc) == run[k].pc = pc
\* It goes on, and nothing is left of the targets' ways.
Becomes(k, r) == /\ run' = [run EXCEPT ![k] = r]
                 /\ leg' = [leg EXCEPT ![k] = NoLegs]
Goto(k, pc) == Becomes(k, [NoRun EXCEPT !.pc = pc])

Start(k) ==
    /\ Runs(k, "start")
    /\ Goto(k, IF request = "CANCELLED" THEN "settle" ELSE "beat")
    /\ UNCHANGED <<rows, queue, sent, acked, control>>

Renewed == IF request \in {"RUNNING", "CANCELLING"} THEN "fresh" ELSE beat

\* heartbeatRunningCommandRequest, once before the targets...
FirstBeat(k) ==
    /\ Runs(k, "beat")
    /\ beat' = Renewed
    /\ Goto(k, "legs")
    /\ UNCHANGED <<request, target, queue, sent, acked, control>>

\* ... and by the interval timer until executeAndFinalizeCommand returns.
Beat(k) ==
    /\ run[k].pc \in {"legs", "finalRead", "finish", "ack"}
    /\ beat # Renewed /\ beat' = Renewed
    /\ UNCHANGED <<request, target, queue, workers, control>>

\* All targets have ended: the ones that threw are marked FAILED.
EndLegs(k) ==
    /\ Runs(k, "legs") /\ \A t \in Targets : leg[k][t] \in LegEnds
    /\ target' = [t \in Targets |->
                    IF leg[k][t] = "threw" /\ target[t] \in {"RUNNING", "CANCELLING"}
                    THEN "FAILED" ELSE target[t]]
    /\ run' = [run EXCEPT ![k].pc = "finalRead"]
    /\ UNCHANGED <<request, beat, queue, leg, sent, acked, control>>

AllWon(k) == \A t \in Targets : leg[k][t] = "won"

\* Variant: COMPLETED as soon as one target has completed.
FinalReadAny(k) ==
    /\ Runs(k, "finalRead")
    /\ Becomes(k, [pc |-> "finish",
            next |-> IF \E t \in Targets : leg[k][t] = "won" THEN "COMPLETED" ELSE "FAILED",
            from |-> {"RUNNING", "APPROVED"}, failed |-> FALSE])
    /\ UNCHANGED <<rows, queue, sent, acked, control>>

\* The re-read of request and targets, and the decision taken on it.
FinalRead(k) ==
    LET failed == \E t \in Targets : target[t] = "FAILED"
        cancelled == \/ \A t \in Targets : target[t] = "CANCELLED"
                     \/ request = "CANCELLING" /\ ~failed
    IN /\ Runs(k, "finalRead")
       /\ \/ request = "CANCELLED" /\ Goto(k, "settle")
          \/ /\ request # "CANCELLED"
             /\ Becomes(k,
                  [pc |-> "finish",
                   next |-> IF cancelled THEN "CANCELLED"
                            ELSE IF AllWon(k) THEN "COMPLETED" ELSE "FAILED",
                   from |-> {"RUNNING", "APPROVED"}
                            \cup (IF cancelled \/ request = "CANCELLING"
                                  THEN {"CANCELLING"} ELSE {}),
                   failed |-> failed])
       /\ UNCHANGED <<rows, queue, sent, acked, control>>

\* The request is settled, from the statuses the decision allows.  When that
\* fails for a COMPLETED or FAILED, a cancellation may have come in since.
Finish(k) ==
    LET claimed == request \in run[k].from
    IN /\ Runs(k, "finish")
       /\ request' = IF claimed THEN run[k].next ELSE request
       /\ IF claimed \/ run[k].next = "CANCELLED" THEN Goto(k, "settle")
          ELSE Becomes(k, [NoRun EXCEPT !.pc = "ack", !.failed = run[k].failed])
       /\ UNCHANGED <<beat, target, queue, sent, acked, control>>

Ack(k) ==
    /\ Runs(k, "ack")
    /\ request' = IF request = "CANCELLING"
                  THEN IF run[k].failed THEN "FAILED" ELSE "CANCELLED"
                  ELSE request
    /\ Goto(k, "settle")
    /\ UNCHANGED <<beat, target, queue, sent, acked, control>>

\* Variant: the job completes whatever became of the request.
SettleBlind(k) ==
    /\ Runs(k, "settle")
    /\ job' = [job EXCEPT ![k] = IF @ # "RUNNING" THEN @ ELSE "COMPLETED"]
    /\ Goto(k, "over")
    /\ UNCHANGED <<rows, enq, unanswered, sent, acked, control>>

\* The job gets the outcome of the request: failJob or completeJob.
Settle(k) ==
    /\ Runs(k, "settle")
    /\ job' = [job EXCEPT ![k] =
                 IF @ # "RUNNING" THEN @
                 ELSE IF request \in {"FAILED", "CANCELLED"} THEN "FAILED"
                 ELSE "COMPLETED"]
    /\ Goto(k, "over")
    /\ UNCHANGED <<rows, enq, unanswered, sent, acked, control>>

\* A database call of executeAndFinalizeCommand throws.
RunThrows(k) ==
    /\ \/ run[k].pc \in {"start", "beat", "finalRead", "finish", "ack", "settle"}
       \/ Runs(k, "legs") /\ \A t \in Targets : leg[k][t] \in LegEnds
    /\ Goto(k, "markFailed")
    /\ UNCHANGED <<rows, queue, sent, acked, control>>

\* markCommandExecutionFailed: the request first, then the targets.
MarkFailed(k) ==
    LET claimed == request \in {"RUNNING", "CANCELLING", "APPROVED"}
    IN /\ Runs(k, "markFailed")
       /\ request' = IF claimed THEN "FAILED" ELSE request
       /\ Goto(k, IF claimed THEN "markTargets" ELSE "failJob")
       /\ UNCHANGED <<beat, target, queue, sent, acked, control>>

MarkTargets(k) ==
    /\ Runs(k, "markTargets")
    /\ target' = Moved(Open, "FAILED")
    /\ Goto(k, "failJob")
    /\ UNCHANGED <<request, beat, queue, sent, acked, control>>

\* markCommandExecutionFailed throws; this is logged and the job fails.
MarkThrows(k) ==
    /\ run[k].pc \in {"markFailed", "markTargets"}
    /\ Goto(k, "failJob")
    /\ UNCHANGED <<rows, queue, sent, acked, control>>

FailJob(k) ==
    /\ Runs(k, "failJob")
    /\ job' = [job EXCEPT ![k] = IF @ = "RUNNING" THEN "FAILED" ELSE @]
    /\ Goto(k, "over")
    /\ UNCHANGED <<rows, enq, unanswered, sent, acked, control>>

-----------------------------------------------------------------------------
\* cancelCommandRequest.

CancelRead ==
    /\ cancel.pc = "idle"
    /\ request \in {"PENDING_APPROVAL", "APPROVED", "RUNNING"}
    /\ cancel' = [pc |-> "claim", read |-> request]
    /\ UNCHANGED <<rows, queue, workers, review, rec>>

\* The claim, of a request still as it was read; a running one is CANCELLING
\* until its executor confirms.  Local transports are signalled (see Reply).
CancelClaim ==
    /\ cancel.pc = "claim"
    /\ request' = IF request # cancel.read THEN request
                  ELSE IF request = "RUNNING" THEN "CANCELLING" ELSE "CANCELLED"
    /\ cancel' = [NoCancel EXCEPT !.pc = IF request = cancel.read THEN "queued" ELSE "idle"]
    /\ UNCHANGED <<beat, target, queue, workers, review, rec>>

CancelQueued ==
    /\ cancel.pc = "queued"
    /\ target' = Moved({"PENDING_APPROVAL", "APPROVED"}, "CANCELLED")
    /\ cancel' = [cancel EXCEPT !.pc = "running"]
    /\ UNCHANGED <<request, beat, queue, workers, review, rec>>

CancelRunning ==
    /\ cancel.pc = "running"
    /\ target' = Moved({"RUNNING"}, "CANCELLING")
    /\ cancel' = NoCancel
    /\ UNCHANGED <<request, beat, queue, workers, review, rec>>

-----------------------------------------------------------------------------
\* recoverStaleRunningCommandRequests.

\* staleRunningAfterMs pass without a heartbeat: nobody has the request, or its
\* executor was suspended.  A sweep takes less time than that.
Age ==
    /\ request \in {"RUNNING", "CANCELLING"} /\ beat = "fresh" /\ rec.pc = "idle"
    /\ beat' = "stale"
    /\ UNCHANGED <<request, target, queue, workers, control>>

\* Variant: a sweep that only looks for RUNNING requests.
RecReadRunning ==
    /\ rec.pc = "idle" /\ request = "RUNNING" /\ beat = "stale"
    /\ rec' = [pc |-> "jobs", read |-> request, open |-> TRUE, next |-> "FAILED"]
    /\ UNCHANGED <<rows, queue, workers, review, cancel>>

\* The read, with the status recoverOne will give the request.
RecRead ==
    LET open == \E t \in Targets : target[t] \in Open
        failed == \E t \in Targets : target[t] = "FAILED"
        completed == \A t \in Targets : target[t] = "COMPLETED"
    IN /\ rec.pc = "idle" /\ request \in {"RUNNING", "CANCELLING"} /\ beat = "stale"
       /\ rec' = [pc |-> "jobs", read |-> request, open |-> open,
                  next |-> IF open THEN "FAILED"
                           ELSE IF request = "CANCELLING" /\ ~failed THEN "CANCELLED"
                           ELSE IF completed THEN "COMPLETED" ELSE "FAILED"]
       /\ UNCHANGED <<rows, queue, workers, review, cancel>>

\* idsWithWaitingExecutionJob: a request whose job waits its turn is not lost.
RecWaiting ==
    /\ rec.pc = "jobs"
    /\ rec' = IF \E k \in Jobs : job[k] = "PENDING" THEN NoSweep
              ELSE [rec EXCEPT !.pc = "claim"]
    /\ UNCHANGED <<rows, queue, workers, review, cancel>>

\* recoverOne's claim, of a request still as it was read (stillStale).
RecClaim ==
    LET claimed == request = rec.read /\ beat = "stale"
    IN /\ rec.pc = "claim"
       /\ request' = IF claimed THEN rec.next ELSE request
       /\ rec' = IF claimed /\ rec.open THEN [NoSweep EXCEPT !.pc = "targets"] ELSE NoSweep
       /\ UNCHANGED <<beat, target, queue, workers, review, cancel>>

RecTargets ==
    /\ rec.pc = "targets"
    /\ target' = Moved(Open, "FAILED")
    /\ rec' = NoSweep
    /\ UNCHANGED <<request, beat, queue, workers, review, cancel>>

-----------------------------------------------------------------------------
\* A process dies, or an update of a caller throws, and the rest of what it had
\* begun is never done.

EnqDies(e) ==
    /\ enq[e] # "idle"
    /\ enq' = [enq EXCEPT ![e] = "idle"]
    /\ UNCHANGED <<rows, job, unanswered, workers, control>>

RunDies(k) ==
    /\ run[k].pc \notin {"idle", "over"}
    /\ Goto(k, "over")
    /\ UNCHANGED <<rows, queue, sent, acked, control>>

ReviewDies ==
    /\ review # "idle" /\ review' = "idle"
    /\ UNCHANGED <<rows, queue, workers, cancel, rec>>

CancelDies ==
    /\ cancel.pc # "idle" /\ cancel' = NoCancel
    /\ UNCHANGED <<rows, queue, workers, review, rec>>

RecDies ==
    /\ rec.pc # "idle" /\ rec' = NoSweep
    /\ UNCHANGED <<rows, queue, workers, review, cancel>>

Crash ==
    \/ \E e \in Enqueuers : EnqDies(e)
    \/ \E k \in Jobs : RunDies(k)
    \/ ReviewDies \/ CancelDies \/ RecDies

-----------------------------------------------------------------------------
EnqStep(e) == \/ EnqClaim(e) \/ EnqMark(e) \/ EnqCheck(e) \/ EnqQueue(e)
              \/ EnqThrows(e) \/ UndoRequest(e) \/ UndoTargets(e)

LegStep(k, t) == \/ Look(k, t) \/ Stop(k, t) \/ Deny(k, t) \/ Check(k, t)
                 \/ Send(k, t) \/ Refuse(k, t) \/ Reply(k, t) \/ Record(k, t)
                 \/ LegThrows(k, t)

RunStep(k) == \/ JobClaimed(k) \/ Start(k) \/ FirstBeat(k) \/ EndLegs(k)
              \/ FinalRead(k) \/ Finish(k) \/ Ack(k) \/ Settle(k)
              \/ MarkFailed(k) \/ MarkTargets(k) \/ FailJob(k)

ReviewStep == Approve \/ Reject \/ RejectTargets
CancelStep == CancelRead \/ CancelClaim \/ CancelQueued \/ CancelRunning
RecStep == RecRead \/ RecWaiting \/ RecClaim \/ RecTargets

Work ==
    \/ ReviewStep \/ SweepQueued \/ CancelStep \/ Age \/ RecStep
    \/ \E e \in Enqueuers : EnqStep(e)
    \/ \E k \in Jobs : \/ RunStep(k) \/ Beat(k) \/ RunThrows(k) \/ MarkThrows(k)
                       \/ JobLost(k)
                       \/ \E t \in Targets : LegStep(k, t)

Next == Work \/ Crash

Spec == Init /\ [][Next]_vars

-----------------------------------------------------------------------------
\* Properties.

\* Every variable has its type; what an executor or the sweep has decided for a
\* request is a status that settles it.
TypeOK ==
    /\ request \in Open \cup Terminal
    /\ beat \in {"fresh", "stale"}
    /\ target \in [Targets -> Open \cup Terminal]
    /\ job \in [Jobs -> {"none", "PENDING", "RUNNING", "COMPLETED", "FAILED"}]
    /\ run \in [Jobs -> Run]
    /\ leg \in [Jobs -> [Targets -> LegPcs]]
    /\ enq \in [Enqueuers -> EnqPcs]
    /\ review \in {"idle", "targets"}
    /\ cancel \in Cancel /\ rec \in Sweep
    /\ sent \subseteq Jobs \X Targets
    /\ acked \subseteq Targets
    /\ unanswered \subseteq Jobs

\* Settled rows stay settled: executor, operator, sweep and reviewer all race
\* with guarded updates, and whoever comes first has the last word.
SettledForGood ==
    [][/\ request \in Terminal => request' = request
       /\ \A t \in Targets : target[t] \in Terminal => target'[t] = target[t]]_vars

\* A request is COMPLETED only when the command was dispatched to every target
\* and every target is COMPLETED, whether the executor or the sweep settled it.
CompletedMeansRan ==
    request = "COMPLETED" =>
        \A t \in Targets : target[t] = "COMPLETED" /\ \E k \in Jobs : <<k, t>> \in sent

\* No target gets its command twice: the claims of reviewCommandRequest and
\* enqueueApprovedCommandExecution let one job through.  Only a job that was
\* committed by an enqueueJob whose answer was lost may come beside it.
DispatchedOnce ==
    \A t \in Targets : \A k, l \in Jobs \ unanswered :
        <<k, t>> \in sent /\ <<l, t>> \in sent => k = l

\* A COMPLETED job does not hide a request that failed or was cancelled.
JobTellsOutcome ==
    \A k \in Jobs : job[k] = "COMPLETED" => request = "COMPLETED"

\* A target is CANCELLED only when its command was never started or its executor
\* has confirmed the cancellation.
CancelIsConfirmed ==
    \A t \in Targets : target[t] = "CANCELLED" =>
        t \in acked \/ \A k \in Jobs : <<k, t>> \notin sent

\* The sweep does not fail a request whose turn has only just come: a live worker
\* has its job and no target has been tried.
UntriedIsNotLost ==
    [][rec.pc = "claim" /\ request' # request =>
          \A k \in Jobs : run[k].pc \notin {"start", "beat"}]_vars

\* The request and its targets as those outside see them.
StateOf(r) == CASE r = "PENDING_APPROVAL" -> "asked"
                [] r \in {"APPROVED", "RUNNING"} -> "allowed"
                [] r = "CANCELLING" -> "stopping"
                [] r = "COMPLETED" -> "completed" [] r = "FAILED" -> "failed"
                [] r = "CANCELLED" -> "cancelled" [] r = "REJECTED" -> "rejected"
OutcomeOf(r) == IF r \in Open THEN "open" ELSE StateOf(r)

Reviewed == INSTANCE ReviewedCommand WITH
    Executors <- Jobs,
    state <- StateOf(request), outcome <- [t \in Targets |-> OutcomeOf(target[t])],
    cleared <- {d \in Jobs \X Targets : At(d[1], d[2], "checked")},
    started <- sent

\* Reviewer, enqueuers, workers, operator and sweeps, who act on rows they have
\* read before, together never do more than ReviewedCommand allows.  In particular
\* nobody gives a CANCELLING request back to be run, or reports it COMPLETED, and
\* after a cancellation no executor passes the check before its transport.
ImplementsReviewed == Reviewed!Spec

-----------------------------------------------------------------------------
\* Liveness.  Timers fire, calls return and workers poll; transports end because
\* the executors bound them by executionTimeoutMs.

StepFairness ==
    /\ WF_vars(SweepQueued) /\ WF_vars(Age) /\ WF_vars(RejectTargets)
    /\ WF_vars(CancelClaim \/ CancelQueued \/ CancelRunning)
    /\ WF_vars(RecRead) /\ WF_vars(RecWaiting \/ RecClaim \/ RecTargets)
    /\ \A e \in Enqueuers : WF_vars(EnqStep(e))
    /\ \A k \in Jobs : /\ WF_vars(RunStep(k))
                       /\ \A t \in Targets : WF_vars(LegStep(k, t))

\* No process dies.
AliveSpec == Init /\ [][Work]_vars /\ StepFairness

\* Processes die and enqueueJob throws, but not for ever.
Failure == Crash \/ \E e \in Enqueuers : EnqThrows(e)
FairSpec == Spec /\ StepFairness /\ <>[][~Failure]_vars

\* A request that was approved is settled in the end: queued again when queueing
\* failed, taken for lost when its executor died.
EveryRequestSettles == request = "APPROVED" ~> request \in Terminal

\* No target stays open below a request that is settled.
TargetsSettleToo ==
    \A t \in Targets : request \in Terminal ~> target[t] \in Terminal

=============================================================================

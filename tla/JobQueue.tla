------------------------------ MODULE JobQueue ------------------------------
(***************************************************************************)
(* The durable job queue: the rows of the `jobs` table, the processes that *)
(* claim and run them under a lease, and the maintenance sweep that frees  *)
(* what dead processes left behind (src/src/lib/job).                      *)
(*                                                                         *)
(* Time is kept relative to the present.  A row's availableAt and          *)
(* leaseExpiresAt are the ticks still to go until them (below 0 they lie   *)
(* in the past) and every database call carries its age in `lag`, so that  *)
(* a comparison with the `now` the caller took when it started the call is *)
(* a comparison with -lag.  No clock bound is needed.  Each is kept only   *)
(* while it is looked at: avail of a PENDING row, lease of a RUNNING one.  *)
(***************************************************************************)
EXTENDS Integers, FiniteSets

CONSTANTS
    Jobs,          \* ids of rows of the jobs table
    Slots,         \* places to run a job in; a process has one or more
    Workers,       \* the workerId strings, one per process and kind of worker
    WorkerOf,      \* the workerId a slot claims under
    MaxAttempts,   \* maxAttempts of each row
    Owner, Node,   \* createdBy and targetStorageNodeId of each row
    Nobody,        \* the null owner, node and worker
    LeaseLen,      \* leaseMs, in ticks
    RetryDelay,    \* retryAfterMs of failJob, in ticks
    CallLag,       \* how long a database call may take before it fails
    MaxGlobal, MaxPerUser, MaxPerNode   \* caps; 0 is unlimited

ASSUME ConstantsAssumption ==
    /\ WorkerOf \in [Slots -> Workers]
    /\ MaxAttempts \in [Jobs -> Nat \ {0}]
    /\ Nobody \notin Workers \cup Slots \cup Jobs
    /\ LeaseLen \in Nat /\ RetryDelay \in Nat /\ CallLag \in Nat
    /\ MaxGlobal \in Nat /\ MaxPerUser \in Nat /\ MaxPerNode \in Nat

\* The shortest lease (30 s) is far longer than a transaction may take (5 s).
ASSUME LagAssumption == CallLag < LeaseLen

VARIABLES
    jobs,    \* the table: a row for each id, "ABSENT" before enqueueJob
    slot,    \* what each slot's worker loop is doing
    beats,   \* heartbeat updates sent and not yet answered
    sweep,   \* the maintenance tick's recoverStaleRunningJobs
    lock     \* holder of pg_advisory_xact_lock(45085, 0), or Nobody

vars == <<jobs, slot, beats, sweep, lock>>

Terminal == {"COMPLETED", "FAILED", "CANCELLED"}
Statuses == {"ABSENT", "PENDING", "RUNNING"} \cup Terminal
TooLate == CallLag + 1
Expired == -(CallLag + 2)

Row == [status : Statuses, attempts : Nat, avail : Int, lease : Int,
        worker : Workers \cup {Nobody}, stamped : BOOLEAN]
SlotPcs == {"idle", "claiming", "counted", "running",
            "completing", "failTerminal", "failRead", "failWrite"}
Slot == [pc : SlotPcs, job : Jobs \cup {Nobody}, attempt : Nat, lag : Nat,
         deadline : Nat, lost : BOOLEAN, canRetry : BOOLEAN]
Beat == [slot : Slots, job : Jobs, attempt : Nat, lag : Nat]
SweepPcs == {"idle", "retryableRead", "read", "requeued"}
Sweep == [pc : SweepPcs, retryable : SUBSET Jobs, exhausted : SUBSET Jobs,
          lag : Nat]

\* A row after an update of its columns, and a slot: records are written out
\* field by field, the form the provers work with best.
RowOf(status, attempts, avail, lease, worker, stamped) ==
    [status |-> status, attempts |-> attempts, avail |-> avail,
     lease |-> lease, worker |-> worker, stamped |-> stamped]

IdleSlot == [pc |-> "idle", job |-> Nobody, attempt |-> 0, lag |-> 0,
             deadline |-> 0, lost |-> FALSE, canRetry |-> FALSE]
IdleSweep == [pc |-> "idle", retryable |-> {}, exhausted |-> {}, lag |-> 0]

Init ==
    /\ jobs = [j \in Jobs |-> RowOf("ABSENT", 0, 0, 0, Nobody, FALSE)]
    /\ slot = [s \in Slots |-> IdleSlot]
    /\ beats = {}
    /\ sweep = IdleSweep
    /\ lock = Nobody

-----------------------------------------------------------------------------
\* Adding and cancelling jobs.

\* enqueueJob; availableAt is the present unless the caller asks for later.
Enqueue(j) ==
    /\ jobs[j].status = "ABSENT"
    /\ \E delay \in {0, RetryDelay} :
          jobs' = [jobs EXCEPT ![j] = RowOf("PENDING", 0, delay, 0, Nobody, FALSE)]
    /\ UNCHANGED <<slot, beats, sweep, lock>>

\* cancelJob: an operator cancels whatever has not settled yet.
Cancel(j) ==
    /\ jobs[j].status \in {"PENDING", "RUNNING"}
    /\ jobs' = [jobs EXCEPT ![j] =
                  RowOf("CANCELLED", @.attempts, 0, 0, Nobody, TRUE)]
    /\ UNCHANGED <<slot, beats, sweep, lock>>

\* abandonOrphanPendingJobs on one row; its age is not modelled, any PENDING
\* row may be old enough.  completedAt is left null.
Abandon(j) ==
    /\ jobs[j].status = "PENDING"
    /\ jobs' = [jobs EXCEPT ![j] =
                  RowOf("CANCELLED", @.attempts, 0, 0, Nobody, @.stamped)]
    /\ UNCHANGED <<slot, beats, sweep, lock>>

-----------------------------------------------------------------------------
\* claimNextJob.

CapsOn == MaxGlobal > 0 \/ MaxPerUser > 0 \/ MaxPerNode > 0

\* Rows that count against a cap for a claim whose `now` is lag ticks old.
Active(lag) == {j \in Jobs : jobs[j].status = "RUNNING" /\ jobs[j].lease >= -lag}

\* Variant: a claim that takes RUNNING rows without looking at their lease.
ClaimableAnyRunning(j, lag) ==
    \/ jobs[j].status = "PENDING" /\ jobs[j].avail <= -lag
    \/ jobs[j].status = "RUNNING"

\* A PENDING row that is due, or a RUNNING row whose lease has run out.
Claimable(j, lag) ==
    \/ jobs[j].status = "PENDING" /\ jobs[j].avail <= -lag
    \/ jobs[j].status = "RUNNING" /\ jobs[j].lease < -lag

\* Variant: the budgets count rows of the same owner on the same node only.
WithinBudgetJoint(j, lag) ==
    MaxPerUser > 0 /\ Owner[j] # Nobody =>
        Cardinality({r \in Active(lag) : Owner[r] = Owner[j] /\ Node[r] = Node[j]})
            < MaxPerUser

\* The owner and the node of the row each have room for one more.
WithinBudget(j, lag) ==
    /\ MaxPerUser > 0 /\ Owner[j] # Nobody =>
          Cardinality({r \in Active(lag) : Owner[r] = Owner[j]}) < MaxPerUser
    /\ MaxPerNode > 0 /\ Node[j] # Nobody =>
          Cardinality({r \in Active(lag) : Node[r] = Node[j]}) < MaxPerNode

Eligible(lag) == {j \in Jobs : /\ jobs[j].attempts < MaxAttempts[j]
                               /\ Claimable(j, lag)
                               /\ WithinBudget(j, lag)}

\* A worker tick takes `now` and opens the claim transaction.  A process claims
\* in one slot at a time (its state.running flag).
ClaimBegin(s) ==
    /\ slot[s].pc = "idle"
    /\ \A t \in Slots : WorkerOf[t] = WorkerOf[s]
                           => slot[t].pc \notin {"claiming", "counted"}
    /\ slot' = [slot EXCEPT ![s] = [IdleSlot EXCEPT !.pc = "claiming"]]
    /\ UNCHANGED <<jobs, beats, sweep, lock>>

AtGlobalCap(lag) == MaxGlobal > 0 /\ Cardinality(Active(lag)) >= MaxGlobal

\* Variant: counting without the advisory lock.
ClaimCountUnlocked(s) ==
    /\ slot[s].pc = "claiming" /\ slot[s].lag <= CallLag
    /\ CapsOn /\ ~AtGlobalCap(slot[s].lag)
    /\ slot' = [slot EXCEPT ![s].pc = "counted"]
    /\ UNCHANGED <<jobs, beats, sweep, lock>>

\* With a cap set: wait for the transaction's advisory lock, count what runs.
ClaimCount(s) ==
    /\ slot[s].pc = "claiming" /\ slot[s].lag <= CallLag
    /\ CapsOn /\ lock = Nobody /\ ~AtGlobalCap(slot[s].lag)
    /\ slot' = [slot EXCEPT ![s].pc = "counted"]
    /\ lock' = s
    /\ UNCHANGED <<jobs, beats, sweep>>

\* The global cap is reached: the claim returns null.
ClaimCapped(s) ==
    /\ slot[s].pc = "claiming" /\ slot[s].lag <= CallLag
    /\ lock = Nobody /\ AtGlobalCap(slot[s].lag)
    /\ slot' = [slot EXCEPT ![s] = IdleSlot]
    /\ UNCHANGED <<jobs, beats, sweep, lock>>

ReadyToTake(s) ==
    /\ slot[s].lag <= CallLag
    /\ slot[s].pc = IF CapsOn THEN "counted" ELSE "claiming"

Unlock(s) == lock' = IF lock = s THEN Nobody ELSE lock

\* Take one eligible row and commit.  SKIP LOCKED passes over a row another
\* transaction is writing, so any eligible row may be the one taken.  The lease
\* runs from the `now` taken before the transaction; the runner's own deadline
\* runs from the moment the claim has returned.
ClaimTake(s) ==
    /\ ReadyToTake(s)
    /\ \E j \in Eligible(slot[s].lag) :
          /\ jobs' = [jobs EXCEPT ![j] =
                        RowOf("RUNNING", @.attempts + 1, 0,
                              LeaseLen - slot[s].lag, WorkerOf[s], @.stamped)]
          /\ slot' = [slot EXCEPT ![s] =
                        [pc |-> "running", job |-> j,
                         attempt |-> jobs[j].attempts + 1, lag |-> 0,
                         deadline |-> LeaseLen, lost |-> FALSE,
                         canRetry |-> FALSE]]
    /\ Unlock(s)
    /\ UNCHANGED <<beats, sweep>>

\* Nothing eligible: the claim returns null.
ClaimNone(s) ==
    /\ ReadyToTake(s)
    /\ Eligible(slot[s].lag) = {}
    /\ slot' = [slot EXCEPT ![s] = IdleSlot]
    /\ Unlock(s)
    /\ UNCHANGED <<jobs, beats, sweep>>

\* The transaction errs or times out and is rolled back.
ClaimFails(s) ==
    /\ slot[s].pc \in {"claiming", "counted"}
    /\ slot' = [slot EXCEPT ![s] = IdleSlot]
    /\ Unlock(s)
    /\ UNCHANGED <<jobs, beats, sweep>>

-----------------------------------------------------------------------------
\* runWithLeaseHeartbeat: the run and the heartbeats beside it.

\* The guard of every update a worker makes of its job, where: { id, status:
\* RUNNING, workerId }.  The two variants each forget one part of it.
FencedByWorkerOnly(j, w) == jobs[j].worker = w
FencedByStatusOnly(j, w) == jobs[j].status = "RUNNING"
Fenced(j, w) == jobs[j].status = "RUNNING" /\ jobs[j].worker = w

Holds(s) == Fenced(slot[s].job, WorkerOf[s])

Running(s) == slot[s].pc = "running"

\* The interval timer starts a heartbeat unless this run has one in flight, has
\* lost its lease or is past its deadline.  The first can only come when the
\* timer has fired once; when is not modelled.
BeatSend(s) ==
    /\ Running(s) /\ ~slot[s].lost /\ slot[s].deadline > 0
    /\ \A b \in beats : b.slot = s /\ b.job = slot[s].job
                           => b.attempt # slot[s].attempt
    /\ beats' = beats \cup {[slot |-> s, job |-> slot[s].job,
                             attempt |-> slot[s].attempt, lag |-> 0]}
    /\ UNCHANGED <<jobs, slot, sweep, lock>>

\* The run that sent b is still going and has not lost its lease.
Listening(b) == /\ Running(b.slot) /\ ~slot[b.slot].lost
                /\ slot[b.slot].job = b.job /\ slot[b.slot].attempt = b.attempt

\* markLeaseLost.
LeaseLost(sl) == [pc |-> sl.pc, job |-> sl.job, attempt |-> sl.attempt,
                  lag |-> sl.lag, deadline |-> sl.deadline, lost |-> TRUE,
                  canRetry |-> sl.canRetry]

\* heartbeatJob's update: fenced by workerId only, so that it also finds a row
\* whose lease has run out in the meantime, and it lands even when the run that
\* sent it is over.  The lease counts from the start of the call.
RenewLease(b) ==
    jobs' = IF Fenced(b.job, WorkerOf[b.slot])
            THEN [jobs EXCEPT ![b.job] =
                    RowOf(@.status, @.attempts, @.avail, LeaseLen - b.lag,
                          @.worker, @.stamped)]
            ELSE jobs

\* Variant: the runner takes an update of no row for a renewal.
BeatRenewsUnchecked(b) ==
    /\ b.lag <= CallLag /\ Listening(b) /\ slot[b.slot].deadline > 0
    /\ RenewLease(b)
    /\ slot' = [slot EXCEPT ![b.slot].deadline = LeaseLen - b.lag]
    /\ beats' = beats \ {b}
    /\ UNCHANGED <<sweep, lock>>

\* The update found the row and the answer came in time: the runner's deadline
\* counts from the start of the call as well.
BeatRenews(b) ==
    /\ b.lag <= CallLag /\ Listening(b) /\ slot[b.slot].deadline > 0
    /\ Fenced(b.job, WorkerOf[b.slot])
    /\ RenewLease(b)
    /\ slot' = [slot EXCEPT ![b.slot].deadline = LeaseLen - b.lag]
    /\ beats' = beats \ {b}
    /\ UNCHANGED <<sweep, lock>>

\* The update found no row, its answer came after the deadline, or the
\* connection failed after the update: the run takes its lease for lost.
BeatLoses(b) ==
    /\ b.lag <= CallLag /\ Listening(b)
    /\ RenewLease(b)
    /\ slot' = [slot EXCEPT ![b.slot] = LeaseLost(@)]
    /\ beats' = beats \ {b}
    /\ UNCHANGED <<sweep, lock>>

\* The run that sent the heartbeat is over: the update lands unheard.
BeatUnheard(b) ==
    /\ b.lag <= CallLag /\ ~Listening(b)
    /\ RenewLease(b)
    /\ beats' = beats \ {b}
    /\ UNCHANGED <<slot, sweep, lock>>

\* The heartbeat throws without having reached the row.
BeatFails(b) ==
    /\ slot' = [slot EXCEPT ![b.slot] = IF Listening(b) THEN LeaseLost(@) ELSE @]
    /\ beats' = beats \ {b}
    /\ UNCHANGED <<jobs, sweep, lock>>

\* The expiry timer, which a hung heartbeat cannot hold up.
ExpiryFires(s) ==
    /\ Running(s) /\ ~slot[s].lost /\ slot[s].deadline = 0
    /\ slot' = [slot EXCEPT ![s] = LeaseLost(@)]
    /\ UNCHANGED <<jobs, beats, sweep, lock>>

\* Variant: a result is reported whatever the slot is doing.
RunReturnsIdle(s) ==
    /\ ~slot[s].lost
    /\ \E pc \in {"completing", "failTerminal"} :
          slot' = [slot EXCEPT ![s].pc = pc]
    /\ UNCHANGED <<jobs, beats, sweep, lock>>

\* run() has resolved and the lease was not lost: the worker goes on to
\* completeJob, or to failJobTerminal when the result is a failure.
RunReturns(s) ==
    /\ Running(s) /\ ~slot[s].lost
    /\ \E pc \in {"completing", "failTerminal"} :
          slot' = [slot EXCEPT ![s].pc = pc]
    /\ UNCHANGED <<jobs, beats, sweep, lock>>

\* run() has thrown: the error wins over a lost lease, and failJob follows.
RunThrows(s) ==
    /\ Running(s)
    /\ slot' = [slot EXCEPT ![s].pc = "failRead"]
    /\ UNCHANGED <<jobs, beats, sweep, lock>>

\* LeaseLostError: the worker leaves the row to its next owner.
RunLost(s) ==
    /\ Running(s) /\ slot[s].lost
    /\ slot' = [slot EXCEPT ![s] = IdleSlot]
    /\ UNCHANGED <<jobs, beats, sweep, lock>>

-----------------------------------------------------------------------------
\* Settling a job.

\* completeJob; workerId stays on the row.
Complete(s) ==
    /\ slot[s].pc = "completing"
    /\ jobs' = IF Holds(s)
               THEN [jobs EXCEPT ![slot[s].job] =
                       RowOf("COMPLETED", @.attempts, @.avail, 0, @.worker, TRUE)]
               ELSE jobs
    /\ slot' = [slot EXCEPT ![s] = IdleSlot]
    /\ UNCHANGED <<beats, sweep, lock>>

Failed(row) == RowOf("FAILED", row.attempts, row.avail, 0, Nobody, TRUE)

Requeued(row, delay, stamped) ==
    RowOf("PENDING", row.attempts, delay, 0, Nobody, stamped)

\* failJobTerminal.
FailTerminal(s) ==
    /\ slot[s].pc = "failTerminal"
    /\ jobs' = IF Holds(s) THEN [jobs EXCEPT ![slot[s].job] = Failed(@)] ELSE jobs
    /\ slot' = [slot EXCEPT ![s] = IdleSlot]
    /\ UNCHANGED <<beats, sweep, lock>>

\* Variant: an off-by-one in failJob's canRetry.
FailReadOffByOne(s) ==
    /\ slot[s].pc = "failRead"
    /\ slot' = [slot EXCEPT ![s] =
                  [pc |-> "failWrite", job |-> @.job, attempt |-> @.attempt,
                   lag |-> 0, deadline |-> @.deadline, lost |-> @.lost,
                   canRetry |-> jobs[@.job].attempts <= MaxAttempts[@.job]]]
    /\ UNCHANGED <<jobs, beats, sweep, lock>>

\* failJob, first half: read attempts and maxAttempts, of whoever's claim.
FailRead(s) ==
    /\ slot[s].pc = "failRead"
    /\ slot' = [slot EXCEPT ![s] =
                  [pc |-> "failWrite", job |-> @.job, attempt |-> @.attempt,
                   lag |-> 0, deadline |-> @.deadline, lost |-> @.lost,
                   canRetry |-> jobs[@.job].attempts < MaxAttempts[@.job]]]
    /\ UNCHANGED <<jobs, beats, sweep, lock>>

\* failJob, second half: the fenced update decided by what was read.
FailWrite(s) ==
    /\ slot[s].pc = "failWrite" /\ slot[s].lag <= CallLag
    /\ jobs' = IF ~Holds(s) THEN jobs
               ELSE [jobs EXCEPT ![slot[s].job] =
                       IF slot[s].canRetry
                       THEN Requeued(@, RetryDelay - slot[s].lag, FALSE)
                       ELSE Failed(@)]
    /\ slot' = [slot EXCEPT ![s] = IdleSlot]
    /\ UNCHANGED <<beats, sweep, lock>>

\* The settling call errs: the worker logs it, the row stays RUNNING.
SettleFails(s) ==
    /\ slot[s].pc \in {"completing", "failTerminal", "failRead", "failWrite"}
    /\ slot' = [slot EXCEPT ![s] = IdleSlot]
    /\ UNCHANGED <<jobs, beats, sweep, lock>>

\* A process dies and starts again, under the same id (host name and pid of a
\* restarted container).  Its transaction is rolled back; a heartbeat already
\* on its way may still land.
Crash(w) ==
    /\ \E s \in Slots : WorkerOf[s] = w /\ slot[s].pc # "idle"
    /\ slot' = [s \in Slots |-> IF WorkerOf[s] = w THEN IdleSlot ELSE slot[s]]
    /\ lock' = IF lock # Nobody /\ WorkerOf[lock] = w THEN Nobody ELSE lock
    /\ UNCHANGED <<jobs, beats, sweep>>

-----------------------------------------------------------------------------
\* recoverStaleRunningJobs: two reads, then two updates that look at the lease
\* again but not at the attempts.

Stale(lag) == {j \in Jobs : jobs[j].status = "RUNNING" /\ jobs[j].lease < -lag}

SweepReadRetryable ==
    /\ sweep.pc = "idle"
    /\ sweep' = [pc |-> "retryableRead", lag |-> 0, exhausted |-> {},
                 retryable |-> {j \in Stale(0) : jobs[j].attempts < MaxAttempts[j]}]
    /\ UNCHANGED <<jobs, slot, beats, lock>>

\* Variant: attempts > maxAttempts instead of >=.
SweepReadOverrun ==
    /\ sweep.pc = "retryableRead" /\ sweep.lag <= CallLag
    /\ sweep' = [pc |-> "read", lag |-> sweep.lag, retryable |-> sweep.retryable,
                 exhausted |-> {j \in Stale(sweep.lag) :
                                   jobs[j].attempts > MaxAttempts[j]}]
    /\ UNCHANGED <<jobs, slot, beats, lock>>

SweepReadExhausted ==
    /\ sweep.pc = "retryableRead" /\ sweep.lag <= CallLag
    /\ sweep' = [pc |-> "read", lag |-> sweep.lag, retryable |-> sweep.retryable,
                 exhausted |-> {j \in Stale(sweep.lag) :
                                   jobs[j].attempts >= MaxAttempts[j]}]
    /\ UNCHANGED <<jobs, slot, beats, lock>>

SweepRequeue ==
    /\ sweep.pc = "read" /\ sweep.lag <= CallLag
    /\ jobs' = [j \in Jobs |-> IF j \in sweep.retryable \cap Stale(sweep.lag)
                               THEN Requeued(jobs[j], -sweep.lag, jobs[j].stamped)
                               ELSE jobs[j]]
    /\ sweep' = [sweep EXCEPT !.pc = "requeued"]
    /\ UNCHANGED <<slot, beats, lock>>

SweepFailExhausted ==
    /\ sweep.pc = "requeued" /\ sweep.lag <= CallLag
    /\ jobs' = [j \in Jobs |-> IF j \in sweep.exhausted \cap Stale(sweep.lag)
                               THEN Failed(jobs[j]) ELSE jobs[j]]
    /\ sweep' = IdleSweep
    /\ UNCHANGED <<slot, beats, lock>>

\* A step of the sweep errs: runStep logs it and the next tick starts over.
SweepFails ==
    /\ sweep.pc # "idle"
    /\ sweep' = IdleSweep
    /\ UNCHANGED <<jobs, slot, beats, lock>>

-----------------------------------------------------------------------------
\* The passage of time.

Down(n, floor) == IF n > floor THEN n - 1 ELSE n
Up(n) == IF n < TooLate THEN n + 1 ELSE n

TickRow(row) ==
    RowOf(row.status, row.attempts,
          IF row.status = "PENDING" THEN Down(row.avail, Expired) ELSE row.avail,
          IF row.status = "RUNNING" THEN Down(row.lease, Expired) ELSE row.lease,
          row.worker, row.stamped)

TickSlot(sl) ==
    [pc |-> sl.pc, job |-> sl.job, attempt |-> sl.attempt,
     lag |-> IF sl.pc \in {"claiming", "counted", "failWrite"}
             THEN Up(sl.lag) ELSE sl.lag,
     deadline |-> IF sl.pc = "running" THEN Down(sl.deadline, 0) ELSE sl.deadline,
     lost |-> sl.lost, canRetry |-> sl.canRetry]

Tick ==
    /\ jobs' = [j \in Jobs |-> TickRow(jobs[j])]
    /\ slot' = [s \in Slots |-> TickSlot(slot[s])]
    /\ beats' = {[b EXCEPT !.lag = Up(@)] : b \in beats}
    /\ sweep' = IF sweep.pc = "idle" THEN sweep ELSE [sweep EXCEPT !.lag = Up(@)]
    /\ UNCHANGED lock

-----------------------------------------------------------------------------
JobStep(j) == Enqueue(j) \/ Cancel(j) \/ Abandon(j)

SlotStep(s) ==
    \/ ClaimBegin(s) \/ ClaimCount(s) \/ ClaimCapped(s)
    \/ ClaimTake(s) \/ ClaimNone(s) \/ ClaimFails(s)
    \/ BeatSend(s) \/ ExpiryFires(s)
    \/ RunReturns(s) \/ RunThrows(s) \/ RunLost(s)
    \/ Complete(s) \/ FailTerminal(s)
    \/ FailRead(s) \/ FailWrite(s) \/ SettleFails(s)

BeatStep(b) == BeatRenews(b) \/ BeatLoses(b) \/ BeatUnheard(b) \/ BeatFails(b)

SweepStep == \/ SweepReadRetryable \/ SweepReadExhausted
             \/ SweepRequeue \/ SweepFailExhausted \/ SweepFails

Next ==
    \/ \E j \in Jobs : JobStep(j)
    \/ \E s \in Slots : SlotStep(s)
    \/ \E b \in beats : BeatStep(b)
    \/ \E w \in Workers : Crash(w)
    \/ SweepStep
    \/ Tick

Spec == Init /\ [][Next]_vars

-----------------------------------------------------------------------------
\* Properties.

Settling == {"completing", "failTerminal", "failRead", "failWrite"}
Busy(s) == slot[s].pc \in {"running"} \cup Settling

\* Every variable has its type, and a busy slot has a job.
TypeOK ==
    /\ jobs \in [Jobs -> Row]
    /\ slot \in [Slots -> Slot]
    /\ \A s \in Slots : Busy(s) => slot[s].job \in Jobs
    /\ beats \subseteq Beat
    /\ sweep \in Sweep
    /\ lock \in Slots \cup {Nobody}

\* No PENDING row has used up its attempts.  claimNextJob asks for
\* attempts < maxAttempts, so such a row would wait for ever; failJob and
\* recoverStaleRunningJobs both requeue from a count they read earlier.
NoStrandedPending ==
    \A j \in Jobs : /\ jobs[j].attempts <= MaxAttempts[j]
                    /\ jobs[j].status = "PENDING" => jobs[j].attempts < MaxAttempts[j]

\* The workerId fence tells claims apart: when completeJob, failJob or
\* failJobTerminal finds its row, the row is still in the attempt that the
\* caller ran, never in a later one.
SettlesOwnAttempt ==
    [][\A s \in Slots :
          slot[s].pc \in Settling /\ slot'[s].pc = "idle" /\ jobs' # jobs
              => jobs[slot[s].job].attempts = slot[s].attempt]_vars

\* The run believes in its lease, with more left than a call can be late.
Believes(s) == Running(s) /\ ~slot[s].lost /\ slot[s].deadline > CallLag

\* At most one run of a job believes that it owns it: runWithLeaseHeartbeat gives
\* up, up to the delay of a database call, before another process can claim.
ExclusiveExecution ==
    \A s, t \in Slots : s # t /\ Believes(s) /\ Believes(t)
                           => slot[s].job # slot[t].job

\* A settled row stays as it was settled, whatever late worker, heartbeat or
\* sweep comes after.
SettledForGood ==
    [][\A j \in Jobs : jobs[j].status \in Terminal => jobs'[j] = jobs[j]]_vars

\* The queue as the caller of enqueueJob sees it.
PhaseOf(status) == CASE status = "ABSENT" -> "absent"
                     [] status = "PENDING" -> "waiting"
                     [] status = "RUNNING" -> "trying"
                     [] OTHER -> "done"

Work == INSTANCE AttemptedWork
            WITH phase <- [j \in Jobs |-> PhaseOf(jobs[j].status)],
                 used <- [j \in Jobs |-> jobs[j].attempts]

\* Refinement: claims, leases, heartbeats, crashes, cancellation and the sweep
\* together never do more than AttemptedWork allows.  In particular no writer
\* that acts on what it read before (failJob, the sweep) gives a job back that
\* has no attempt left, and no late report reopens a settled one.
ImplementsWork == Work!Spec

\* A run's deadline never lies beyond the lease the database acknowledged to it
\* (runWithLeaseHeartbeat adds no latency to the lifetime of the lease).
DeadlineWithinLease ==
    \A s \in Slots :
        Running(s) /\ ~slot[s].lost /\ slot[s].deadline > 0 /\ Holds(s)
            => slot[s].deadline <= jobs[slot[s].job].lease

\* Every terminal writer stamps completedAt, which the prunes order rows by.
TerminalIsStamped ==
    \A j \in Jobs : jobs[j].status \in Terminal => jobs[j].stamped

-----------------------------------------------------------------------------
\* Liveness.

\* The timers of a process and the database: the clock, the expiry timer, and
\* an answer or an error for every heartbeat.
TimerFairness ==
    /\ WF_vars(Tick)
    /\ \A s \in Slots : WF_vars(ExpiryFires(s))
    /\ WF_vars(\E b \in beats : BeatStep(b))

TimerSpec == Spec /\ TimerFairness

\* A worker loop keeps polling, a run ends sooner or later, and a call that is
\* tried for ever succeeds at some time: calls fail and processes crash, but not
\* each time.
WorkerFairness(s) ==
    /\ WF_vars(ClaimBegin(s))
    /\ SF_vars(ClaimCount(s)) /\ SF_vars(ClaimTake(s))
    /\ WF_vars(ClaimCapped(s)) /\ WF_vars(ClaimNone(s)) /\ WF_vars(ClaimFails(s))
    /\ WF_vars(RunReturns(s)) /\ WF_vars(RunLost(s))
    /\ WF_vars(Complete(s)) /\ WF_vars(FailTerminal(s))
    /\ WF_vars(FailRead(s)) /\ WF_vars(FailWrite(s)) /\ WF_vars(SettleFails(s))

SweepFairness ==
    /\ WF_vars(SweepReadRetryable) /\ SF_vars(SweepReadExhausted)
    /\ SF_vars(SweepRequeue) /\ SF_vars(SweepFailExhausted) /\ WF_vars(SweepFails)

LoopsKeepGoing == SweepFairness /\ \A s \in Slots : WorkerFairness(s)

\* Every job that waits is settled in the end, however its runs crash, lose
\* their leases or fail to report: a retry is claimed, an exhausted row is
\* failed by the maintenance sweep.
EveryJobSettles ==
    LoopsKeepGoing =>
        \A j \in Jobs : jobs[j].status = "PENDING" ~> jobs[j].status \in Terminal

\* A run whose job was taken away (cancelled, or claimed by another process)
\* learns of it or ends, with nothing but the clock, the expiry timer and an end
\* of each heartbeat: a heartbeat finds no row or the deadline passes.
LostRunIsTold ==
    \A s \in Slots :
        Running(s) /\ ~Holds(s) ~> slot[s].lost \/ ~Running(s)

=============================================================================

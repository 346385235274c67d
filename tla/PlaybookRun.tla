----------------------------- MODULE PlaybookRun -----------------------------
(***************************************************************************)
(* One run of a playbook (src/src/lib/playbook): its playbook_runs row,    *)
(* the durable job that carries it, the workers that execute it, and the   *)
(* command requests and webhooks of its steps.  A worker may crash, lose   *)
(* its lease and go on for a while without noticing, or see any statement  *)
(* fail; another worker then takes the job again and resumes the run from  *)
(* the step results that were saved.                                       *)
(*                                                                         *)
(* The job is the part of JobQueue that a run depends on, without its      *)
(* clock: a lease may run out at any time.  The advisory lock of the       *)
(* playbook is held until its holder releases it or dies.                  *)
(***************************************************************************)
EXTENDS Naturals, FiniteSets, FiniteSetsExt

CONSTANTS
    Workers,       \* processes running runPlaybookRunWorkerOnce
    Commands,      \* steps of type run_command
    Webhooks,      \* steps of type call_webhook (or send_notification)
    Tries,         \* (step.retry + 1) * (chainRetry + 1)
    MaxAttempts,   \* of the job: chainRetry + 1
    Nobody

Steps == Commands \cup Webhooks

ASSUME PlaybookAssumption ==
    /\ Cardinality(Steps) \in Nat \ {0} /\ Steps = 1 .. Cardinality(Steps)
    /\ Commands \cap Webhooks = {}
    /\ Tries \in Nat \ {0} /\ MaxAttempts \in Nat \ {0}
    /\ Nobody \notin Workers

VARIABLES
    run,       \* playbook_runs: status and stepResults
    job,       \* the playbook.run job
    lock,      \* holder of the advisory lock "playbook-execute"
    command,   \* command requests by step and attempt (their idempotency key)
    worker,    \* processPlaybookRun and handleJob of each worker
    flight,    \* history: who fired a webhook and has not heard how it ended
    done,      \* history: webhooks that were answered with success
    loose,     \* history: steps whose retry let go of an earlier attempt too early
    unswept    \* history: the sweep failed the job and could not write the run

vars == <<run, job, lock, command, worker, flight, done, loose, unswept>>

\* A stepResults entry: its status, the attempt whose command it names (0: none)
\* and sideEffectDispatched.
StepResult == [status : {"none", "running", "ok", "failed"}, cmd : 0 .. Tries, fired : BOOLEAN]
NoResult == [status |-> "none", cmd |-> 0, fired |-> FALSE]
Results == [Steps -> StepResult]
NoResults == [s \in Steps |-> NoResult]
Terminal == {"completed", "failed"}

\* A command request: live until its own machinery settles it; "unknown" is
\* FAILED with a target whose outcome is unknown, which may still be running.
CommandStates == {"none", "live", "completed", "failed", "unknown"}

\* step, round and try: the step at work, the rounds of executeWithRetries begun
\* for it, and those that came as far as dispatchStep (attemptIndex).
Outside == {"idle", "open", "lock", "settle", "error", "failJob"}
InChain == {"gate", "dispatch", "create", "persist", "wait", "confirm", "fire", "answer",
            "retry", "succeed", "fail", "finalize"}     \* under the lock
Worker == [pc : Outside \cup InChain, results : Results, step : Steps, round : 1 .. Tries,
           try : 0 .. Tries, aborted : BOOLEAN, attempts : 0 .. MaxAttempts, outcome : Terminal]
IdleWorker == [pc |-> "idle", results |-> NoResults, step |-> 1, round |-> 1, try |-> 0,
               aborted |-> FALSE, attempts |-> 0, outcome |-> "failed"]

\* queuePlaybookRunWithClient: run and job in one transaction.
Init ==
    /\ run = [status |-> "queued", results |-> NoResults]
    /\ job = [status |-> "PENDING", owner |-> Nobody, attempts |-> 0]
    /\ lock = Nobody
    /\ command = [s \in Commands |-> [t \in 1 .. Tries |-> "none"]]
    /\ worker = [w \in Workers |-> IdleWorker]
    /\ flight = [s \in Webhooks |-> {}]
    /\ done = {}
    /\ loose = {}
    /\ unswept = FALSE

-----------------------------------------------------------------------------
\* The job, as the queue treats it, and the command requests.

Owns(w) == job.status = "RUNNING" /\ job.owner = w

ClaimJob(w) ==
    /\ worker[w].pc = "idle" /\ job.status = "PENDING"
    /\ job' = [status |-> "RUNNING", owner |-> w, attempts |-> job.attempts + 1]
    /\ worker' = [worker EXCEPT ![w] = [IdleWorker EXCEPT !.pc = "open",
                                                          !.attempts = job.attempts + 1]]
    /\ UNCHANGED <<run, lock, command, flight, done, loose, unswept>>

\* recoverStaleRunningJobs: an expired lease puts the job back, or fails it and then
\* its run; an error of that second statement is ignored.
Sweep ==
    /\ job.status = "RUNNING"
    /\ \/ /\ job.attempts < MaxAttempts /\ UNCHANGED <<run, unswept>>
          /\ job' = [job EXCEPT !.status = "PENDING", !.owner = Nobody]
       \/ /\ job.attempts = MaxAttempts
          /\ job' = [job EXCEPT !.status = "FAILED", !.owner = Nobody]
          /\ \/ /\ run' = IF run.status \in Terminal THEN run
                          ELSE [run EXCEPT !.status = "failed"]
                /\ unswept' = unswept
             \/ run' = run /\ unswept' = TRUE
    /\ UNCHANGED <<lock, command, worker, flight, done, loose>>

CommandEnds(s) ==
    /\ \E t \in 1 .. Tries, end \in {"completed", "failed", "unknown"} :
          /\ command[s][t] = "live"
          /\ command' = [command EXCEPT ![s] = [@ EXCEPT ![t] = end]]
    /\ UNCHANGED <<run, job, lock, worker, flight, done, loose, unswept>>

-----------------------------------------------------------------------------
\* processPlaybookRun of worker w.

At(w, pc) == worker[w].pc = pc
Goto(w, pc) == worker' = [worker EXCEPT ![w].pc = pc]
Finish(w, outcome) ==
    worker' = [worker EXCEPT ![w] = [worker[w] EXCEPT !.pc = "settle", !.outcome = outcome]]
Unlock(w) == lock' = IF lock = w THEN Nobody ELSE lock
execution == <<job, command, flight, done, loose, unswept>>   \* all but the run, the lock and the workers

\* Variant: a step with any result counts as done.
PendingUntouched(results) == {s \in Steps : results[s].status = "none"}

\* The first step that has not succeeded; none: the run can be finalised.
Pending(results) == {s \in Steps : results[s].status # "ok"}
Enter(w, results) ==
    worker' = [worker EXCEPT ![w] = [worker[w] EXCEPT
                 !.results = results, !.round = 1, !.try = 0,
                 !.pc = IF Pending(results) = {} THEN "finalize" ELSE "gate",
                 !.step = IF Pending(results) = {} THEN worker[w].step ELSE Min(Pending(results))]]

Claimable == run.status \notin Terminal
MarkRunning == run' = [run EXCEPT !.status = "running"]

\* A run that is settled only settles its job.  Otherwise it is marked running,
\* and the authorization of its requester checked, which may refuse it.
Open(w) ==
    /\ At(w, "open")
    /\ IF ~Claimable THEN run' = run /\ Finish(w, run.status)
       ELSE \/ MarkRunning /\ Goto(w, "lock")
            \/ run' = [run EXCEPT !.status = "failed"] /\ Finish(w, "failed")
    /\ UNCHANGED <<lock, execution>>

\* Under the lock the run is read again, and resumed from its saved results.
Lock(w) ==
    /\ At(w, "lock") /\ lock = Nobody
    /\ IF ~Claimable THEN run' = run /\ lock' = lock /\ Finish(w, run.status)
       ELSE MarkRunning /\ lock' = w /\ Enter(w, run.results)
    /\ UNCHANGED execution

\* LeaseLostError: whoever has the job now deals with it.
LeaseLost(w) == worker' = [worker EXCEPT ![w] = IdleWorker] /\ Unlock(w)

\* beforeDispatch: the lease is renewed, or it is lost.
Gate(w) ==
    /\ \/ /\ At(w, "gate") /\ Owns(w) /\ ~worker[w].aborted /\ lock' = lock
          /\ worker' = [worker EXCEPT ![w] = [worker[w] EXCEPT !.pc = "dispatch",
                                                                !.try = worker[w].try + 1]]
       \/ At(w, "gate") /\ (~Owns(w) \/ worker[w].aborted) /\ LeaseLost(w)
    /\ UNCHANGED <<run, execution>>

\* A statement of beforeDispatch fails, or the requester is no longer allowed.
GateThrows(w) ==
    /\ worker[w].pc \in {"gate", "confirm"} /\ Goto(w, "retry")
    /\ UNCHANGED <<run, lock, execution>>

-----------------------------------------------------------------------------
\* dispatchStep and executePlaybookChain.

Step(w) == worker[w].step
Mine(w) == worker[w].results[Step(w)]
Set(w, result) == [worker[w].results EXCEPT ![Step(w)] = result]

Keep(w, result, pc) ==      \* in memory
    worker' = [worker EXCEPT ![w] = [worker[w] EXCEPT !.results = Set(w, result), !.pc = pc]]

\* persistProgress of the results, which throws unless the run is running.
Persist(w, results, next) ==
    /\ run' = IF run.status = "running" THEN [run EXCEPT !.results = results] ELSE run
    /\ worker' = [worker EXCEPT ![w] = [worker[w] EXCEPT !.results = results,
                                           !.pc = IF run.status = "running" THEN next ELSE "fail"]]

\* run_command: the request that an earlier worker left is taken up; one that
\* has failed for certain makes room for a new one.
Resume(w) ==
    LET s == Step(w)
        state == IF Mine(w).cmd = 0 THEN "none" ELSE command[s][Mine(w).cmd]
    IN /\ At(w, "dispatch") /\ s \in Commands
       /\ Goto(w, CASE state = "completed" -> "succeed" [] state = "live" -> "wait"
                    [] state = "unknown" -> "fail" [] OTHER -> "create")
       /\ UNCHANGED <<run, lock, execution>>

\* The request of an earlier worker cannot be read.
ResumeThrows(w) ==
    /\ At(w, "dispatch") /\ Step(w) \in Commands /\ Goto(w, "retry")
    /\ UNCHANGED <<run, lock, execution>>

Created(s, t) ==
    IF command[s][t] # "none" THEN command
    ELSE [command EXCEPT ![s] = [@ EXCEPT ![t] = "live"]]
RunningCommand(t) == [status |-> "running", cmd |-> t, fired |-> FALSE]

\* createCommandRequest, or its replay under the key of this attempt.
Create(w) ==
    LET t == worker[w].try
    IN /\ At(w, "create")
       /\ command' = Created(Step(w), t)
       /\ Keep(w, RunningCommand(t), "persist")
       /\ UNCHANGED <<run, job, lock, flight, done, loose, unswept>>

CreateThrows(w) ==
    /\ At(w, "create")
    /\ command' \in {command, Created(Step(w), worker[w].try)}
    /\ Goto(w, "retry")
    /\ UNCHANGED <<run, job, lock, flight, done, loose, unswept>>

\* The id of the request is saved; if the statement fails, so does the attempt.
SaveCommand(w) ==
    /\ At(w, "persist")
    /\ \/ Persist(w, worker[w].results, "wait")
       \/ run' = run /\ Goto(w, "retry")
    /\ UNCHANGED <<lock, execution>>

\* waitForCommand: the request has ended, or has not in time, or cannot be read.
Wait(w) ==
    LET state == command[Step(w)][Mine(w).cmd]
    IN /\ At(w, "wait") /\ state # "live"
       /\ Goto(w, CASE state = "completed" -> "succeed" [] state = "failed" -> "retry"
                    [] OTHER -> "fail")
       /\ UNCHANGED <<run, lock, execution>>

WaitGivesUp(w) ==
    /\ At(w, "wait") /\ \E pc \in {"fail", "retry"} : Goto(w, pc)
    /\ UNCHANGED <<run, lock, execution>>

\* call_webhook: a webhook that an earlier worker may have fired is refused;
\* otherwise the step is marked as dispatched, and that is saved.
Marked == [status |-> "running", cmd |-> 0, fired |-> TRUE]

\* Variant: the mark is kept in memory only.
MarkUnsaved(w) ==
    /\ At(w, "dispatch") /\ Step(w) \in Webhooks
    /\ IF worker[w].try = 1 /\ Mine(w).fired THEN Goto(w, "fail")
       ELSE Keep(w, Marked, "confirm")
    /\ UNCHANGED <<run, lock, execution>>

Mark(w) ==
    /\ At(w, "dispatch") /\ Step(w) \in Webhooks
    /\ \/ worker[w].try = 1 /\ Mine(w).fired /\ Goto(w, "fail") /\ UNCHANGED <<run, lock>>
       \/ /\ ~(worker[w].try = 1 /\ Mine(w).fired) /\ ~worker[w].aborted
          /\ \/ Persist(w, Set(w, Marked), "confirm")
             \/ run' = run /\ Keep(w, Marked, "retry")      \* the statement fails
          /\ lock' = lock
       \/ /\ ~(worker[w].try = 1 /\ Mine(w).fired) /\ worker[w].aborted
          /\ LeaseLost(w) /\ run' = run
    /\ UNCHANGED execution

\* beforeDispatch once more: the lease was still held after the mark was saved.
Confirm(w) ==
    /\ \/ At(w, "confirm") /\ Owns(w) /\ ~worker[w].aborted /\ Goto(w, "fire") /\ lock' = lock
       \/ At(w, "confirm") /\ (~Owns(w) \/ worker[w].aborted) /\ LeaseLost(w)
    /\ UNCHANGED <<run, execution>>

Fire(w) ==
    /\ At(w, "fire") /\ Goto(w, "answer")
    /\ flight' = [flight EXCEPT ![Step(w)] = @ \cup {w}]
    /\ UNCHANGED <<run, job, lock, command, done, loose, unswept>>

\* The answer: success, or a failure, which is also what an aborted request is.
Answered(w) ==
    /\ At(w, "answer")
    /\ \/ /\ Goto(w, "succeed") /\ done' = done \cup {Step(w)}
          /\ flight' = [flight EXCEPT ![Step(w)] = @ \ {w}]
       \/ /\ ~worker[w].aborted /\ Goto(w, "retry") /\ done' = done
          /\ flight' = [flight EXCEPT ![Step(w)] = @ \ {w}]
       \/ /\ worker[w].aborted /\ Goto(w, "retry") /\ done' = done
          /\ flight' = [flight EXCEPT ![Step(w)] = (@ \ {w}) \cup {"aborted"}]
    /\ UNCHANGED <<run, job, lock, command, loose, unswept>>

\* assertCommandRetryable: every command that the failed attempt may have created
\* has ended without completing and for certain.
CommandsOf(w) == {t \in {Mine(w).cmd, worker[w].try} \ {0} : command[Step(w)][t] # "none"}
Retryable(w) ==
    Step(w) \in Commands => \A t \in CommandsOf(w) : command[Step(w)][t] = "failed"

\* The retry of a command that does not exist under its key; the retry of a
\* webhook that is marked and whose outcome nobody knows.
TooEarly(w) ==
    \/ Step(w) \in Commands /\ worker[w].try > 0 /\ command[Step(w)][worker[w].try] = "none"
    \/ Step(w) \in Webhooks /\ Mine(w).fired /\ flight[Step(w)] # {}
LetsGo(w) == loose' = IF TooEarly(w) THEN loose \cup {Step(w)} ELSE loose

\* The next round of executeWithRetries, without the entry of the failed attempt.
NextRound(w) ==
    worker' = [worker EXCEPT ![w] = [worker[w] EXCEPT !.results = Set(w, NoResult),
                                       !.pc = "gate", !.round = worker[w].round + 1]]

\* Variant: a retry does not look at the command of the failed attempt.
RetryUnchecked(w) ==
    /\ At(w, "retry")
    /\ IF worker[w].round = Tries THEN Goto(w, "fail") /\ run' = run
       ELSE /\ run' = IF run.status = "running" THEN [run EXCEPT !.results = Set(w, NoResult)]
                      ELSE run
            /\ NextRound(w)
    /\ LetsGo(w)
    /\ UNCHANGED <<lock, job, command, flight, done, unswept>>

\* executeWithRetries: the entry of the failed attempt is dropped, and that saved,
\* before the next attempt.
Retry(w) ==
    /\ At(w, "retry")
    /\ IF worker[w].round = Tries \/ ~Retryable(w) THEN Goto(w, "fail") /\ run' = run
       ELSE \/ /\ run.status = "running" \/ Mine(w) = NoResult
               /\ run' = IF Mine(w) = NoResult THEN run
                         ELSE [run EXCEPT !.results = Set(w, NoResult)]
               /\ NextRound(w)
            \/ /\ Mine(w) # NoResult /\ run' = run   \* the statement fails, or finds the run settled
               /\ Keep(w, NoResult, "fail")
    /\ LetsGo(w)
    /\ UNCHANGED <<lock, job, command, flight, done, unswept>>

\* The command of a retry cannot be looked up.
RetryThrows(w) ==
    /\ At(w, "retry") /\ Step(w) \in Commands /\ Goto(w, "fail")
    /\ UNCHANGED <<run, lock, execution>>

\* The result of the step is saved; a failed step ends the chain.  An error in
\* saving it is an error of the run.
Record(w) ==
    LET ok == At(w, "succeed")
        results == Set(w, [status |-> IF ok THEN "ok" ELSE "failed", cmd |-> Mine(w).cmd,
                           fired |-> Mine(w).fired /\ ~ok])
    IN /\ worker[w].pc \in {"succeed", "fail"} /\ ~worker[w].aborted
       /\ \/ /\ run.status = "running" /\ run' = [run EXCEPT !.results = results]
             /\ IF ok THEN Enter(w, results)
                ELSE worker' = [worker EXCEPT ![w] = [worker[w] EXCEPT !.results = results,
                                                                       !.pc = "finalize"]]
             /\ lock' = lock
          \/ run' = run /\ Goto(w, "error") /\ Unlock(w)
       /\ UNCHANGED execution

RecordLeaseLost(w) ==
    /\ worker[w].pc \in {"succeed", "fail"} /\ worker[w].aborted /\ LeaseLost(w)
    /\ UNCHANGED <<run, execution>>

\* The end of the chain settles the run unless it is settled already.
Finalize(w) ==
    LET status == IF Pending(worker[w].results) = {} THEN "completed" ELSE "failed"
    IN /\ At(w, "finalize")
       /\ IF Claimable
          THEN /\ run' = [status |-> status, results |-> worker[w].results]
               /\ Finish(w, status)
          ELSE run' = run /\ Finish(w, run.status)
       /\ Unlock(w)
       /\ UNCHANGED execution

-----------------------------------------------------------------------------
\* handleJob.

\* Variant: the job of a failed run is completed.
SettleCompletes(w) ==
    /\ At(w, "settle")
    /\ job' = IF Owns(w) THEN [job EXCEPT !.status = "COMPLETED", !.owner = Nobody] ELSE job
    /\ worker' = [worker EXCEPT ![w] = IdleWorker]
    /\ UNCHANGED <<run, lock, command, flight, done, loose, unswept>>

\* completeJob or failJobTerminal; neither when the lease was lost meanwhile.
Settle(w) ==
    /\ At(w, "settle")
    /\ job' = IF Owns(w) /\ ~worker[w].aborted
              THEN [job EXCEPT !.owner = Nobody, !.status =
                      IF worker[w].outcome = "completed" THEN "COMPLETED" ELSE "FAILED"]
              ELSE job
    /\ worker' = [worker EXCEPT ![w] = IdleWorker]
    /\ UNCHANGED <<run, lock, command, flight, done, loose, unswept>>

\* An error outside the steps: a statement of processPlaybookRun or of Settle
\* fails, or the lock is not free in time.
Throws(w) ==
    /\ worker[w].pc \in {"open", "lock", "finalize", "settle"} /\ Goto(w, "error") /\ Unlock(w)
    /\ UNCHANGED <<run, execution>>

\* Variant: an error settles the run in whatever status it is.
FailedAnyStatus(w) ==
    /\ At(w, "error")
    /\ run' = [run EXCEPT !.status = IF worker[w].attempts < MaxAttempts
                                     THEN "queued" ELSE "failed"]
    /\ Goto(w, "failJob")
    /\ UNCHANGED <<lock, execution>>

\* Variant: the last error queues the run again.
FailedQueuesAlways(w) ==
    /\ At(w, "error")
    /\ run' = IF ~Claimable THEN run ELSE [run EXCEPT !.status = "queued"]
    /\ Goto(w, "failJob")
    /\ UNCHANGED <<lock, execution>>

\* The error is written to the run, then to the job, which is queued again
\* while it has attempts left.
Failed(w) ==
    /\ At(w, "error")
    /\ run' = IF ~Claimable THEN run
              ELSE [run EXCEPT !.status = IF worker[w].attempts < MaxAttempts
                                          THEN "queued" ELSE "failed"]
    /\ Goto(w, "failJob")
    /\ UNCHANGED <<lock, execution>>

FailJob(w) ==
    /\ At(w, "failJob")
    /\ job' = IF ~Owns(w) THEN job
              ELSE [job EXCEPT !.owner = Nobody, !.status =
                      IF job.attempts < MaxAttempts THEN "PENDING" ELSE "FAILED"]
    /\ worker' = [worker EXCEPT ![w] = IdleWorker]
    /\ UNCHANGED <<run, lock, command, flight, done, loose, unswept>>

\* runWithLeaseHeartbeat aborts the work: a heartbeat failed or came too late.
Abort(w) ==
    /\ worker[w].pc \notin {"idle", "error", "failJob"} /\ ~worker[w].aborted
    /\ worker' = [worker EXCEPT ![w].aborted = TRUE]
    /\ UNCHANGED <<run, lock, execution>>

\* The process dies, or a statement of handleJob's catch fails.
Crash(w) ==
    /\ ~At(w, "idle") /\ worker' = [worker EXCEPT ![w] = IdleWorker] /\ Unlock(w)
    /\ flight' = [s \in Webhooks |-> IF w \in flight[s] THEN (flight[s] \ {w}) \cup {"crashed"}
                                                        ELSE flight[s]]
    /\ UNCHANGED <<run, job, command, done, loose, unswept>>

-----------------------------------------------------------------------------
WorkerStep(w) ==
    \/ Open(w) \/ Lock(w) \/ Gate(w) \/ Resume(w) \/ Create(w) \/ SaveCommand(w) \/ Wait(w)
    \/ Mark(w) \/ Confirm(w) \/ Fire(w) \/ Answered(w) \/ Retry(w) \/ Record(w)
    \/ RecordLeaseLost(w) \/ Finalize(w) \/ Settle(w) \/ Failed(w) \/ FailJob(w)

Fault(w) ==
    \/ GateThrows(w) \/ ResumeThrows(w) \/ CreateThrows(w) \/ WaitGivesUp(w) \/ RetryThrows(w) \/ Throws(w)
    \/ Abort(w) \/ Crash(w)

Next ==
    \/ \E w \in Workers : ClaimJob(w) \/ WorkerStep(w) \/ Fault(w)
    \/ Sweep
    \/ \E s \in Commands : CommandEnds(s)

Spec == Init /\ [][Next]_vars

\* The job is RUNNING and its worker is not at work on it.
Orphaned == job.status = "RUNNING" /\ worker[job.owner].pc = "idle"

\* Workers go on, the queue hands out jobs and sweeps those of lost workers, and
\* command requests end.
FairSpec == /\ Spec /\ WF_vars(Orphaned /\ Sweep)
            /\ \A w \in Workers : WF_vars(WorkerStep(w)) /\ WF_vars(ClaimJob(w))
            /\ \A s \in Commands : WF_vars(CommandEnds(s))

-----------------------------------------------------------------------------
\* Properties.

\* Every variable has its type.
TypeOK ==
    /\ run \in [status : {"queued", "running"} \cup Terminal, results : Results]
    /\ job \in [status : {"PENDING", "RUNNING", "COMPLETED", "FAILED"},
                owner : Workers \cup {Nobody}, attempts : 0 .. MaxAttempts]
    /\ lock \in Workers \cup {Nobody}
    /\ command \in [Commands -> [1 .. Tries -> CommandStates]]
    /\ worker \in [Workers -> Worker]
    /\ flight \in [Webhooks -> SUBSET (Workers \cup {"crashed", "aborted"})]
    /\ done \subseteq Webhooks /\ loose \subseteq Steps /\ unswept \in BOOLEAN

Unsettled == {"live", "unknown", "completed"}

\* Of the commands of one step at most one is running, may be running or has
\* completed, however often the step is retried and the run resumed.
OneCommandOfStep ==
    \A s \in Commands : \A t, u \in 1 .. Tries :
        command[s][t] \in Unsettled /\ command[s][u] \in Unsettled => t = u

\* That is so as long as every attempt gets as far as its command.
OneCommandOfAttempts ==
    \A s \in Commands \ loose : \A t, u \in 1 .. Tries :
        command[s][t] \in Unsettled /\ command[s][u] \in Unsettled => t = u

Succeeded(s) == IF s \in Commands THEN \E t \in 1 .. Tries : command[s][t] = "completed"
                                  ELSE s \in done
Started(s) == IF s \in Commands THEN \E t \in 1 .. Tries : command[s][t] # "none"
                                ELSE s \in done \/ flight[s] # {}

\* A step starts only when all the steps before it have really succeeded, and a
\* run is completed only when all have: what a worker resumes from, or what it
\* overwrites after it lost its lease, skips no step.
StepsInOrder ==
    /\ \A s \in Steps : Started(s) => \A r \in 1 .. s - 1 : Succeeded(r)
    /\ run.status = "completed" => \A s \in Steps : Succeeded(s)

\* The operation task tells the outcome of the run: its job is completed only
\* when the run is.
JobTellsRun == job.status = "COMPLETED" => run.status = "completed"

\* A settled run keeps its outcome, also against a worker that lost its lease.
RunSettledOnce == [][run.status \in Terminal => run'.status = run.status]_vars

Fires(w, s) == At(w, "fire") /\ Step(w) = s /\ worker'[w].pc = "answer"

\* A webhook that was fired and whose outcome is not known, because its worker
\* died or was cut off from the answer, is never fired again on reclaim.
NeverReplayed ==
    [][\A w \in Workers, s \in Webhooks : Fires(w, s) => flight[s] = {}]_vars

\* That is so as long as no retry drops the mark of such a webhook: the mark is
\* saved before the webhook is fired, and whoever takes over under the lock reads it.
MarkPreventsReplay ==
    [][\A w \in Workers, s \in Webhooks \ loose : Fires(w, s) => flight[s] = {}]_vars

\* Every run is settled in the end, through crashes, lost leases and errors, unless
\* the sweep that gave up its job could not write the run.
EveryRunSettles == <>(run.status \in Terminal \/ unswept)

=============================================================================

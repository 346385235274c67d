---------------------------- MODULE ScheduledTask ----------------------------
(***************************************************************************)
(* Dispatch of one scheduled task (src/src/lib/scheduled-task).  A worker  *)
(* claims an occurrence by turning nextRunAt into a lease and keeping the  *)
(* occurrence in claimedOccurrenceAt; the command request it then creates  *)
(* carries the occurrence in its idempotency key.  Meanwhile users edit,   *)
(* pause, resume or delete the task, workers die, and a worker may be      *)
(* slower than its lease.                                                  *)
(*                                                                         *)
(* Times are ticks of one clock.  A cron schedule is due at the multiples  *)
(* of Period.                                                              *)
(***************************************************************************)
EXTENDS Integers, FiniteSets

CONSTANTS
    Workers,      \* processes running dispatchDueScheduledTasks
    Period,       \* of the cron expression
    ClaimLease,   \* SCHEDULED_TASK_CLAIM_LEASE_MS
    MaxTime,      \* bound of the clock
    None          \* null

ASSUME ScheduleAssumption ==
    /\ Period \in Nat \ {0} /\ ClaimLease \in Nat \ {0} /\ MaxTime \in Nat
    /\ None \notin Nat

VARIABLES
    now,         \* the clock
    task,        \* the scheduled_tasks row
    requests,    \* occurrences in the idempotency key of a command request
    linked,      \* those of them with a scheduled_task_runs row
    worker,      \* dispatchDueTask of each worker
    scheduled,   \* history: times the schedule has named as next run
    edited       \* history: workers that read the row before the user's last edit

vars == <<now, task, requests, linked, worker, scheduled, edited>>

Times == 0 .. MaxTime + Period + ClaimLease
Task == [status : {"ACTIVE", "PAUSED", "DISABLED", "GONE"}, once : BOOLEAN,
         runAt : Times \cup {None}, next : Times \cup {None},
         claimed : Times \cup {None}]
WorkerPcs == {"idle", "check", "claim", "create", "link", "rollback",
              "record", "write"}
WorkerState == [pc : WorkerPcs, next : Times, occ : Times, lease : Times,
                refused : BOOLEAN, once : BOOLEAN]
IdleWorker == [pc |-> "idle", next |-> 0, occ |-> 0, lease |-> 0,
               refused |-> FALSE, once |-> FALSE]

computeNextRun(t) == (t \div Period + 1) * Period

\* The row once an occurrence is done with: a ONCE task is disabled.
AfterRun(once) ==
    [task EXCEPT !.next = IF once THEN None ELSE computeNextRun(now),
                 !.claimed = None,
                 !.status = IF once THEN "DISABLED" ELSE @]

Named(times) == scheduled' = scheduled \cup (times \ {None})

\* createScheduledTask.
Init ==
    /\ now = 0
    /\ \/ task = [status |-> "ACTIVE", once |-> FALSE, runAt |-> None,
                  next |-> computeNextRun(0), claimed |-> None]
       \/ task = [status |-> "ACTIVE", once |-> TRUE, runAt |-> 1,
                  next |-> 1, claimed |-> None]
    /\ requests = {} /\ linked = {}
    /\ worker = [w \in Workers |-> IdleWorker]
    /\ scheduled = {task.next}
    /\ edited = {}

-----------------------------------------------------------------------------
\* dispatchDueScheduledTasks and dispatchDueTask of worker w.

At(w, pc) == worker[w].pc = pc
Goto(w, pc) == worker' = [worker EXCEPT ![w].pc = pc]
\* A worker that is done has forgotten what it read.
Done(w) == /\ worker' = [worker EXCEPT ![w] = IdleWorker]
           /\ edited' = edited \ {w}

\* Variant: the occurrence is taken from nextRunAt, also when that is a lease.
ReadDueLease(w) ==
    /\ At(w, "idle")
    /\ task.status = "ACTIVE" /\ task.next # None /\ task.next <= now
    /\ worker' = [worker EXCEPT ![w] =
                    [IdleWorker EXCEPT !.pc = "check", !.next = task.next,
                                       !.occ = task.next]]
    /\ UNCHANGED <<now, task, requests, linked, scheduled, edited>>

\* The task is in the list of due tasks.
ReadDue(w) ==
    /\ At(w, "idle")
    /\ task.status = "ACTIVE" /\ task.next # None /\ task.next <= now
    /\ worker' = [worker EXCEPT ![w] =
                    [IdleWorker EXCEPT !.pc = "check", !.next = task.next,
                        !.occ = IF task.claimed # None THEN task.claimed ELSE task.next]]
    /\ UNCHANGED <<now, task, requests, linked, scheduled, edited>>

\* Without servers, creator or authorization the run is recorded as skipped.
Check(w) ==
    /\ At(w, "check")
    /\ \E pc \in {"claim", "record"} : Goto(w, pc)
    /\ UNCHANGED <<now, task, requests, linked, scheduled, edited>>

\* The claim wins while nextRunAt is what was read.  Two claims do not fall in
\* the same millisecond.
Claim(w) ==
    LET lease == now + ClaimLease
    IN /\ At(w, "claim")
       /\ \A v \in Workers : worker[v].lease # lease
       /\ IF task.status = "ACTIVE" /\ task.next = worker[w].next
          THEN /\ task' = [task EXCEPT !.next = lease, !.claimed = worker[w].occ]
               /\ worker' = [worker EXCEPT ![w] = [@ EXCEPT !.pc = "create", !.lease = lease]]
               /\ edited' = edited \ {w}
          ELSE task' = task /\ Done(w)
       /\ UNCHANGED <<now, requests, linked, scheduled>>

\* createCommandRequest, or its replay by the idempotency key.
Create(w) ==
    /\ At(w, "create")
    /\ requests' = requests \cup {worker[w].occ}
    /\ Goto(w, "link")
    /\ UNCHANGED <<now, task, linked, scheduled, edited>>

\* It throws: refused, or a transient error that may have come after the commit.
CreateThrows(w) ==
    /\ At(w, "create")
    /\ \E refused \in BOOLEAN :
          /\ worker' = [worker EXCEPT ![w] = [@ EXCEPT !.pc = "rollback", !.refused = refused]]
          /\ requests' \in {requests} \cup
                (IF refused THEN {} ELSE {requests \cup {worker[w].occ}})
    /\ UNCHANGED <<now, task, linked, scheduled, edited>>

Owns(w) == task.next = worker[w].lease /\ task.claimed = worker[w].occ

\* recordTaskDispatch: the schedule moves on only in the transaction that
\* creates the run, and only from this worker's own claim.
Dispatched(w) ==
    LET first == worker[w].occ \notin linked /\ task.status # "GONE"
        advances == first /\ Owns(w)
    IN /\ linked' = IF first THEN linked \cup {worker[w].occ} ELSE linked
       /\ task' = IF advances
                  THEN AfterRun(task.once) ELSE task
       /\ Named(IF advances THEN {task'.next} ELSE {})

\* Variant: the schedule moves on from whatever claim the row has.
DispatchedAnyClaim(w) ==
    LET first == worker[w].occ \notin linked /\ task.status # "GONE"
    IN /\ linked' = IF first THEN linked \cup {worker[w].occ} ELSE linked
       /\ task' = IF first
                  THEN AfterRun(task.once) ELSE task
       /\ Named(IF first THEN {task'.next} ELSE {})

LinkAnyClaim(w) ==
    /\ At(w, "link") /\ DispatchedAnyClaim(w) /\ Done(w)
    /\ UNCHANGED <<now, requests>>

Link(w) ==
    /\ At(w, "link") /\ Dispatched(w) /\ Done(w)
    /\ UNCHANGED <<now, requests>>

\* DispatchLinkError, before the commit or after it.
LinkThrows(w) ==
    /\ At(w, "link")
    /\ Dispatched(w) \/ UNCHANGED <<task, linked, scheduled>>
    /\ Goto(w, "rollback")
    /\ UNCHANGED <<now, requests, edited>>

AfterRollback(w) == IF worker[w].refused THEN Goto(w, "record") /\ UNCHANGED edited
                                         ELSE Done(w)

\* Variant: the claim is dropped and the task moves on to its next run.
RollbackAdvances(w) ==
    /\ At(w, "rollback")
    /\ task' = IF Owns(w) THEN AfterRun(task.once) ELSE task
    /\ Named(IF Owns(w) THEN {task'.next} ELSE {})
    /\ AfterRollback(w)
    /\ UNCHANGED <<now, requests, linked>>

\* The worker hands its own claim back; an error in doing so is only logged.
\* A refusal is then recorded, any other error leaves the task to the next tick.
Rollback(w) ==
    /\ At(w, "rollback")
    /\ task' \in {task, IF Owns(w) THEN [task EXCEPT !.next = worker[w].occ,
                                                     !.claimed = None] ELSE task}
    /\ AfterRollback(w)
    /\ UNCHANGED <<now, requests, linked, scheduled>>

\* recordTaskRun, for a skipped or a failed run: the schedule is read...
RecordRead(w) ==
    /\ At(w, "record")
    /\ IF task.status = "GONE" THEN Done(w)
       ELSE /\ worker' = [worker EXCEPT ![w] = [@ EXCEPT !.pc = "write", !.once = task.once]]
            /\ UNCHANGED edited
    /\ UNCHANGED <<now, task, requests, linked, scheduled>>

\* ... and the row is written by what was read, whatever it holds now.
RecordWrite(w) ==
    /\ At(w, "write")
    /\ IF task.status = "GONE" THEN UNCHANGED <<task, scheduled>>
       ELSE task' = AfterRun(worker[w].once) /\ Named({task'.next})
    /\ Done(w)
    /\ UNCHANGED <<now, requests, linked>>

\* The process dies, or a call of the loop throws, with the rest undone.
Die(w) ==
    /\ ~At(w, "idle") /\ Done(w)
    /\ UNCHANGED <<now, task, requests, linked, scheduled>>

-----------------------------------------------------------------------------
\* Users, and the clock.

Busy == {w \in Workers : ~At(w, "idle")}
Saves(row) == /\ task' = row /\ edited' = Busy /\ Named({row.next})
              /\ UNCHANGED <<now, requests, linked, worker>>

\* updateScheduledTask with a new schedule: once at a coming time, or by cron.
Reschedule ==
    /\ task.status # "GONE"
    /\ \/ \E t \in now + 1 .. MaxTime :
             Saves([task EXCEPT !.once = TRUE, !.runAt = t, !.next = t, !.claimed = None])
       \/ Saves([task EXCEPT !.once = FALSE, !.runAt = None,
                             !.next = computeNextRun(now), !.claimed = None])

\* toggleScheduledTask, or updateScheduledTask with another status; a once task
\* whose time has passed cannot be resumed.
Toggle ==
    \/ /\ task.status # "GONE"
       /\ \E st \in {"PAUSED", "DISABLED"} \ {task.status} :
             Saves([task EXCEPT !.status = st, !.next = None, !.claimed = None])
    \/ /\ task.status \in {"PAUSED", "DISABLED"}
       /\ task.once => task.runAt > now
       /\ Saves([task EXCEPT !.status = "ACTIVE", !.claimed = None,
                   !.next = IF task.once THEN task.runAt ELSE computeNextRun(now)])

\* deleteScheduledTask.
Delete ==
    /\ task.status # "GONE"
    /\ Saves([task EXCEPT !.status = "GONE", !.next = None, !.claimed = None])

Tick ==
    /\ now < MaxTime /\ now' = now + 1
    /\ UNCHANGED <<task, requests, linked, worker, scheduled, edited>>

WorkerStep(w) ==
    \/ ReadDue(w) \/ Check(w) \/ Claim(w) \/ Create(w) \/ CreateThrows(w)
    \/ Link(w) \/ LinkThrows(w) \/ Rollback(w) \/ RecordRead(w)
    \/ RecordWrite(w) \/ Die(w)

Next ==
    \/ \E w \in Workers : WorkerStep(w)
    \/ Reschedule \/ Toggle \/ Delete \/ Tick

Spec == Init /\ [][Next]_vars

-----------------------------------------------------------------------------
\* Properties.

\* Every variable has its type: nextRunAt is a time or null, the status one of
\* the four a task can have.
TypeOK ==
    /\ now \in 0 .. MaxTime
    /\ task \in Task
    /\ requests \subseteq Times /\ linked \subseteq Times /\ scheduled \subseteq Times
    /\ worker \in [Workers -> WorkerState]
    /\ edited \subseteq Workers

\* Only times that the schedule has named are dispatched: a claim's lease is
\* never taken for an occurrence, whoever finds it expired.  The idempotency key
\* relies on it to keep an occurrence from running twice.
DispatchesOccurrences == requests \subseteq scheduled

\* Ended(o): a worker that does not record an outcome ends the claim on o.
Ended(o) == /\ task.claimed = o /\ task'.claimed # o
            /\ \E w \in Workers : worker'[w] # worker[w] /\ ~At(w, "write")

\* A claim on an occurrence ends with its command request or hands it back, so
\* that no crash, error or slow worker loses it.
NoOccurrenceLost ==
    [][\A o \in Times : Ended(o) => o \in requests \/ task'.next = o]_vars

\* Once the user has saved a new schedule, a worker that claimed under the old
\* one leaves the task alone.
ClaimYieldsToEdit ==
    [][\A w \in edited : worker[w].pc \in {"create", "link", "rollback"}
                            /\ worker'[w] # worker[w] => task' = task]_vars

\* The same of every write of a worker, recordTaskRun's included.
EditSticks ==
    [][\A w \in edited : worker[w].pc # "claim" /\ worker'[w] # worker[w]
                            => task' = task]_vars

\* When all workers are done, an occurrence that was recorded is not still
\* claimed: recordTaskDispatch finds its run again and never moves the task on.
RecordedMovesOn ==
    (\A w \in Workers : At(w, "idle")) => task.claimed \notin linked

=============================================================================

------------------------- MODULE ScheduledTaskProofs -------------------------
(***************************************************************************)
(* Proofs about ScheduledTask for any number of workers, any period, any   *)
(* length of the claim and any bound of the clock.                         *)
(***************************************************************************)
EXTENDS ScheduledTask, TLAPS

\* A worker that has read the row, and one that has claimed the occurrence.
Reading == {"check", "claim"}
Claiming == {"create", "link", "rollback"}

\* The row names an occurrence: in claimedOccurrenceAt while nextRunAt is a lease,
\* in nextRunAt otherwise.
RowNames ==
    /\ task.claimed # None => task.claimed \in scheduled
    /\ task.claimed = None /\ task.next # None => task.next \in scheduled

\* A worker keeps the occurrence it has read.
WorkerNames ==
    \A w \in Workers : worker[w].pc \in Reading \cup Claiming => worker[w].occ \in scheduled

\* A lease that is in the row again is the one the worker has read, and with it
\* the occurrence: a later lease ends later than what was due at the read.
ReadIsCurrent ==
    \A w \in Workers : worker[w].pc \in Reading =>
        /\ worker[w].next <= now
        /\ task.claimed # None /\ task.next = worker[w].next => worker[w].occ = task.claimed

\* The run of an occurrence is linked once its request exists.
LinkHasRequest == \A w \in Workers : worker[w].pc = "link" => worker[w].occ \in requests

\* No claim outlives an edit.
EditEndsClaim == \A w \in edited : worker[w].pc \in Claiming => ~Owns(w)

\* The inductive invariant.
IInv ==
    /\ TypeOK /\ DispatchesOccurrences /\ RowNames /\ WorkerNames /\ ReadIsCurrent
    /\ LinkHasRequest /\ EditEndsClaim


\* What a step other than a claim does to the row: the schedule only names more
\* times, and what replaces a claim is one of them.
RowMove ==
    /\ scheduled \subseteq scheduled' /\ requests \subseteq requests'
    /\ \/ task' = task
       \/ task'.claimed = None /\ (task'.next # None => task'.next \in scheduled')

\* What a worker keeps through a step other than a read or a claim of its own.
KeepMove(w) ==
    \/ worker'[w] = worker[w]
    \/ worker'[w].pc \notin Reading \cup Claiming
    \/ /\ worker'[w].next = worker[w].next /\ worker'[w].occ = worker[w].occ
       /\ worker'[w].lease = worker[w].lease
       /\ worker'[w].pc \in Reading => worker[w].pc \in Reading
       /\ worker'[w].pc \in Claiming => worker[w].pc \in Claiming
       /\ worker'[w].pc = "link" => worker'[w].occ \in requests'

\* Steps of the user.
UserStep == Reschedule \/ Toggle \/ Delete

-----------------------------------------------------------------------------
\* The next run of a cron schedule is a time after now, at most a period later.
LEMMA NextRun == ASSUME NEW t \in 0 .. MaxTime
                 PROVE computeNextRun(t) \in Times /\ computeNextRun(t) > t
  BY ScheduleAssumption DEF computeNextRun, Times

\* The fields of a row and of a worker.
LEMMA RowFields ==
    ASSUME TypeOK
    PROVE  /\ task.next \in Times \cup {None} /\ task.claimed \in Times \cup {None}
           /\ task.runAt \in Times \cup {None} /\ task.once \in BOOLEAN
  BY DEF TypeOK, Task

LEMMA WorkerFields ==
    ASSUME TypeOK, NEW w \in Workers
    PROVE  /\ worker[w] \in WorkerState
           /\ worker[w].next \in Times /\ worker[w].occ \in Times /\ worker[w].lease \in Times
           /\ worker[w].once \in BOOLEAN /\ IdleWorker \in WorkerState
  BY ScheduleAssumption DEF TypeOK, WorkerState, WorkerPcs, IdleWorker, Times

LEMMA TimesAreNotNull == None \notin Times /\ 0 \in Times
                         /\ \A t \in 0 .. MaxTime : t \in Times /\ t + ClaimLease \in Times
  BY ScheduleAssumption DEF Times

LEMMA AfterRunRow ==
    ASSUME TypeOK, NEW once \in BOOLEAN, task' = AfterRun(once)
    PROVE  /\ task' \in Task /\ task'.claimed = None /\ task'.next \in Times \cup {None}
<1>1. now \in 0 .. MaxTime
  BY DEF TypeOK
<1>2. computeNextRun(now) \in Times
  BY <1>1, NextRun
<1>3. AfterRun(once) \in Task
  BY <1>2 DEF AfterRun, TypeOK, Task
<1>4. AfterRun(once).claimed = None
  BY DEF AfterRun, TypeOK, Task
<1> QED BY <1>3, <1>4 DEF Task

\* A user's edit writes a row without a claim.
LEMMA Saved ==
    ASSUME TypeOK, UserStep
    PROVE  \E row \in Task : row.claimed = None /\ Saves(row)
<1>1. now \in 0 .. MaxTime /\ computeNextRun(now) \in Times /\ None \in Times \cup {None}
  BY NextRun DEF TypeOK
<1>2. \A t \in now + 1 .. MaxTime : t \in Times
  BY <1>1, ScheduleAssumption DEF Times
<1>3. task \in Task
  BY DEF TypeOK
<1> DEFINE Row(row) == row \in Task /\ row.claimed = None
<1>4. CASE Reschedule
  <2>1. \A t \in Times : Row([task EXCEPT !.once = TRUE, !.runAt = t, !.next = t, !.claimed = None])
    BY <1>3 DEF Task
  <2>2. Row([task EXCEPT !.once = FALSE, !.runAt = None, !.next = computeNextRun(now),
                         !.claimed = None])
    BY <1>1, <1>3 DEF Task
  <2> HIDE DEF Row
  <2>3. \E row : Row(row) /\ Saves(row)
    BY <1>2, <1>4, <2>1, <2>2, Zenon DEF Reschedule
  <2> QED BY <2>3, Zenon DEF Row
<1>5. CASE Toggle
  <2>1. \A st \in {"PAUSED", "DISABLED"} :
            Row([task EXCEPT !.status = st, !.next = None, !.claimed = None])
    BY <1>3 DEF Task
  <2>2. Row([task EXCEPT !.status = "ACTIVE", !.claimed = None,
                !.next = IF task.once THEN task.runAt ELSE computeNextRun(now)])
    BY <1>1, <1>3 DEF Task
  <2> HIDE DEF Row
  <2>3. \E row : Row(row) /\ Saves(row)
    BY <1>5, <2>1, <2>2, Zenon DEF Toggle
  <2> QED BY <2>3, Zenon DEF Row
<1>6. CASE Delete
  BY <1>1, <1>3, <1>6 DEF Delete, Task
<1> QED BY <1>4, <1>5, <1>6 DEF UserStep

-----------------------------------------------------------------------------
\* How the two halves of a worker's step, on the row and on the worker, keep
\* their types.
LEMMA DispatchedRow ==
    ASSUME TypeOK, NEW w \in Workers, Dispatched(w)
    PROVE  /\ task' \in Task /\ linked' \subseteq Times /\ scheduled' \subseteq Times
           /\ scheduled \subseteq scheduled'
           /\ \/ task' = task
              \/ task'.claimed = None /\ (task'.next # None => task'.next \in scheduled')
           /\ task' = task \/ Owns(w)
<1>1. task.once \in BOOLEAN /\ worker[w].occ \in Times /\ task \in Task
      /\ linked \subseteq Times /\ scheduled \subseteq Times
  BY RowFields, WorkerFields DEF TypeOK
<1>2. CASE worker[w].occ \notin linked /\ task.status # "GONE" /\ Owns(w)
  <2>1. task' = AfterRun(task.once) /\ Named({task'.next})
    BY <1>2 DEF Dispatched
  <2>2. linked' = linked \cup {worker[w].occ}
    BY <1>2 DEF Dispatched
  <2>3. task' \in Task /\ task'.claimed = None /\ task'.next \in Times \cup {None}
    BY <1>1, <2>1, AfterRunRow
  <2> QED BY <1>1, <1>2, <2>1, <2>2, <2>3 DEF Named
<1>3. CASE ~(worker[w].occ \notin linked /\ task.status # "GONE" /\ Owns(w))
  <2>1. task' = task /\ scheduled' = scheduled \cup ({} \ {None})
    BY <1>3, Zenon DEF Dispatched, Named
  <2>2. linked' \subseteq linked \cup {worker[w].occ}
    BY DEF Dispatched
  <2> QED BY <1>1, <2>1, <2>2
<1> QED BY <1>2, <1>3

LEMMA WrittenRow ==
    ASSUME TypeOK, NEW w \in Workers, RecordWrite(w)
    PROVE  /\ task' \in Task /\ scheduled' \subseteq Times /\ scheduled \subseteq scheduled'
           /\ \/ task' = task
              \/ task'.claimed = None /\ (task'.next # None => task'.next \in scheduled')
<1>1. worker[w].once \in BOOLEAN /\ task \in Task /\ scheduled \subseteq Times
  BY WorkerFields DEF TypeOK
<1>2. CASE task.status = "GONE"
  BY <1>1, <1>2 DEF RecordWrite
<1>3. CASE task.status # "GONE"
  <2>1. task' = AfterRun(worker[w].once) /\ Named({task'.next})
    BY <1>3 DEF RecordWrite
  <2>2. task' \in Task /\ task'.claimed = None /\ task'.next \in Times \cup {None}
    BY <1>1, <2>1, AfterRunRow
  <2> QED BY <1>1, <2>1, <2>2 DEF Named
<1> QED BY <1>2, <1>3

LEMMA ReturnedRow ==
    ASSUME TypeOK, NEW w \in Workers, Rollback(w)
    PROVE  /\ task' \in Task
           /\ \/ task' = task
              \/ Owns(w) /\ task'.claimed = None /\ task'.next = worker[w].occ
  BY RowFields, WorkerFields, ZenonT(60) DEF TypeOK, Task, Rollback

LEMMA ClaimedRow ==
    ASSUME TypeOK, NEW w \in Workers, Claim(w)
    PROVE  /\ task' \in Task
           /\ \/ task' = task /\ Done(w)
              \/ /\ task.next = worker[w].next
                 /\ task'.next = now + ClaimLease /\ task'.claimed = worker[w].occ
                 /\ worker' = [worker EXCEPT ![w] = [@ EXCEPT !.pc = "create",
                                                              !.lease = now + ClaimLease]]
                 /\ edited' = edited \ {w}
<1>1. now + ClaimLease \in Times
  BY TimesAreNotNull DEF TypeOK
<1>2. CASE task.status = "ACTIVE" /\ task.next = worker[w].next
  <2>1. /\ task' = [task EXCEPT !.next = now + ClaimLease, !.claimed = worker[w].occ]
        /\ worker' = [worker EXCEPT ![w] = [@ EXCEPT !.pc = "create", !.lease = now + ClaimLease]]
        /\ edited' = edited \ {w}
    BY <1>2, Zenon DEF Claim
  <2> QED BY <1>1, <1>2, <2>1, WorkerFields DEF TypeOK, Task
<1>3. CASE ~(task.status = "ACTIVE" /\ task.next = worker[w].next)
  BY <1>3, Zenon DEF Claim, TypeOK
<1> QED BY <1>2, <1>3

\* The state of a worker after each of its steps.
LEMMA DoneType == ASSUME TypeOK, NEW w \in Workers, Done(w)
                  PROVE  worker' \in [Workers -> WorkerState] /\ edited' \subseteq Workers
  BY WorkerFields DEF TypeOK, Done

LEMMA GotoType == ASSUME TypeOK, NEW w \in Workers, NEW pc \in WorkerPcs, Goto(w, pc)
                  PROVE  worker' \in [Workers -> WorkerState]
  BY WorkerFields DEF TypeOK, Goto, WorkerState

LEMMA WorkerType ==
    ASSUME TypeOK, NEW w \in Workers, WorkerStep(w)
    PROVE  worker' \in [Workers -> WorkerState] /\ edited' \subseteq Workers
<1> DEFINE W == worker' \in [Workers -> WorkerState] /\ edited' \subseteq Workers
<1>0. edited \subseteq Workers /\ worker \in [Workers -> WorkerState]
  BY DEF TypeOK
<1>1. CASE ReadDue(w)
  <2>1. worker'[w] \in WorkerState
    BY <1>0, <1>1, RowFields, TimesAreNotNull
       DEF ReadDue, IdleWorker, WorkerState, WorkerPcs
  <2> QED BY <1>0, <1>1, <2>1 DEF ReadDue
<1>2. CASE Check(w)
  BY <1>0, <1>2, GotoType DEF Check, WorkerPcs
<1>3. CASE Claim(w)
  <2>1. now + ClaimLease \in Times
    BY TimesAreNotNull DEF TypeOK
  <2>2. CASE Done(w)
    BY <2>2, DoneType
  <2>3. CASE /\ worker' = [worker EXCEPT ![w] = [@ EXCEPT !.pc = "create",
                                                           !.lease = now + ClaimLease]]
             /\ edited' = edited \ {w}
    <3>1. [worker[w] EXCEPT !.pc = "create", !.lease = now + ClaimLease] \in WorkerState
      BY <1>0, <2>1 DEF WorkerState, WorkerPcs
    <3> QED BY <1>0, <2>3, <3>1
  <2> QED BY <1>3, <2>2, <2>3, ClaimedRow, Zenon
<1>4. CASE Create(w)
  BY <1>0, <1>4, GotoType DEF Create, WorkerPcs
<1>5. CASE CreateThrows(w)
  BY <1>0, <1>5, ZenonT(60) DEF CreateThrows, WorkerState, WorkerPcs
<1>6. CASE Link(w) \/ RecordWrite(w) \/ Die(w)
  BY <1>6, DoneType DEF Link, RecordWrite, Die
<1>7. CASE LinkThrows(w)
  BY <1>0, <1>7, GotoType DEF LinkThrows, WorkerPcs
<1>8. CASE Rollback(w)
  BY <1>0, <1>8, GotoType, DoneType DEF Rollback, AfterRollback, WorkerPcs
<1>9. CASE RecordRead(w)
  <2>1. CASE task.status = "GONE"
    BY <1>9, <2>1, DoneType DEF RecordRead
  <2>2. CASE task.status # "GONE"
    <3>1. [worker[w] EXCEPT !.pc = "write", !.once = task.once] \in WorkerState
      BY <1>0, RowFields DEF WorkerState, WorkerPcs
    <3> QED BY <1>0, <1>9, <2>2, <3>1 DEF RecordRead
  <2> QED BY <2>1, <2>2
<1> QED BY <1>1, <1>2, <1>3, <1>4, <1>5, <1>6, <1>7, <1>8, <1>9 DEF WorkerStep

LEMMA TypeStep == ASSUME TypeOK, [Next]_vars PROVE TypeOK'
<1>0. /\ now \in 0 .. MaxTime /\ task \in Task /\ requests \subseteq Times
      /\ linked \subseteq Times /\ scheduled \subseteq Times
      /\ worker \in [Workers -> WorkerState] /\ edited \subseteq Workers
  BY DEF TypeOK
<1>1. ASSUME NEW w \in Workers, WorkerStep(w) PROVE TypeOK'
  <2>1. worker' \in [Workers -> WorkerState] /\ edited' \subseteq Workers
    BY <1>1, WorkerType
  <2>2. now' = now
    BY <1>1 DEF WorkerStep, ReadDue, Check, Claim, Create, CreateThrows, Link, LinkThrows,
                Rollback, RecordRead, RecordWrite, Die
  <2>3. requests' \subseteq requests \cup {worker[w].occ}
    BY <1>1 DEF WorkerStep, ReadDue, Check, Claim, Create, CreateThrows, Link, LinkThrows,
                Rollback, RecordRead, RecordWrite, Die
  <2>4. task' \in Task /\ linked' \subseteq Times /\ scheduled' \subseteq Times
    <3>1. CASE Claim(w)
      BY <1>0, <3>1, ClaimedRow DEF Claim
    <3>2. CASE Link(w) \/ LinkThrows(w)
      BY <1>0, <3>2, DispatchedRow DEF Link, LinkThrows
    <3>3. CASE Rollback(w)
      BY <1>0, <3>3, ReturnedRow DEF Rollback
    <3>4. CASE RecordWrite(w)
      BY <1>0, <3>4, WrittenRow DEF RecordWrite
    <3> QED BY <1>0, <1>1, <3>1, <3>2, <3>3, <3>4
            DEF WorkerStep, ReadDue, Check, Create, CreateThrows, RecordRead, Die
  <2> QED BY <1>0, <2>1, <2>2, <2>3, <2>4, WorkerFields DEF TypeOK
<1>2. CASE UserStep
  <2>1. PICK row \in Task : Saves(row)
    BY <1>2, Saved
  <2> QED BY <1>0, <2>1 DEF TypeOK, Saves, Named, Busy, Task
<1>3. CASE Tick
  BY <1>0, <1>3, ScheduleAssumption DEF TypeOK, Tick
<1>4. CASE UNCHANGED vars
  BY <1>0, <1>4 DEF TypeOK, vars
<1> QED BY <1>1, <1>2, <1>3, <1>4 DEF Next, UserStep

-----------------------------------------------------------------------------
\* The row after every step but a claim.
LEMMA RowStep ==
    ASSUME TypeOK, WorkerNames, [Next]_vars, \A w \in Workers : ~Claim(w) PROVE RowMove
<1>1. ASSUME NEW w \in Workers, WorkerStep(w) PROVE RowMove
  <2>1. requests \subseteq requests'
    BY <1>1 DEF WorkerStep, ReadDue, Check, Claim, Create, CreateThrows, Link, LinkThrows,
                Rollback, RecordRead, RecordWrite, Die
  <2>2. CASE Link(w) \/ LinkThrows(w)
    BY <2>1, <2>2, DispatchedRow DEF Link, LinkThrows, RowMove
  <2>3. CASE Rollback(w)
    <3>1. worker[w].occ \in scheduled /\ scheduled' = scheduled
      BY <2>3 DEF Rollback, At, WorkerNames, Claiming
    <3> QED BY <2>1, <2>3, <3>1, ReturnedRow DEF RowMove
  <2>4. CASE RecordWrite(w)
    BY <2>1, <2>4, WrittenRow DEF RowMove
  <2> QED BY <1>1, <2>1, <2>2, <2>3, <2>4
          DEF WorkerStep, ReadDue, Check, Create, CreateThrows, RecordRead, Die, RowMove
<1>2. CASE UserStep
  <2>1. PICK row \in Task : row.claimed = None /\ Saves(row)
    BY <1>2, Saved
  <2> QED BY <2>1 DEF Saves, Named, RowMove
<1>3. CASE Tick \/ UNCHANGED vars
  BY <1>3 DEF Tick, vars, RowMove
<1> QED BY <1>1, <1>2, <1>3 DEF Next, UserStep

\* The row after a claim: the lease, and the occurrence that was read.
LEMMA ClaimStep ==
    ASSUME TypeOK, NEW w \in Workers, Claim(w)
    PROVE  /\ UNCHANGED <<now, requests, linked, scheduled>>
           /\ \A v \in Workers \ {w} : worker'[v] = worker[v]
           /\ At(w, "claim") /\ edited' = edited \ {w}
           /\ \/ task' = task /\ worker'[w].pc = "idle"
              \/ /\ task.next = worker[w].next
                 /\ task'.next = now + ClaimLease /\ task'.claimed = worker[w].occ
                 /\ worker'[w].pc = "create" /\ worker'[w].occ = worker[w].occ
                 /\ \A v \in Workers : worker[v].lease # now + ClaimLease
<1>0. worker \in [Workers -> WorkerState]
  BY DEF TypeOK
<1>1. /\ UNCHANGED <<now, requests, linked, scheduled>> /\ At(w, "claim")
      /\ \A v \in Workers : worker[v].lease # now + ClaimLease
  BY DEF Claim
<1>2. CASE task' = task /\ Done(w)
  BY <1>0, <1>1, <1>2 DEF Done, IdleWorker
<1>3. CASE /\ task.next = worker[w].next
           /\ task'.next = now + ClaimLease /\ task'.claimed = worker[w].occ
           /\ worker' = [worker EXCEPT ![w] = [@ EXCEPT !.pc = "create",
                                                        !.lease = now + ClaimLease]]
           /\ edited' = edited \ {w}
  BY <1>0, <1>1, <1>3 DEF WorkerState
<1> QED BY <1>2, <1>3, ClaimedRow

\* A worker after every step but its own read or claim.
LEMMA KeepStep ==
    ASSUME TypeOK, [Next]_vars, NEW w \in Workers, ~ReadDue(w), ~Claim(w) PROVE KeepMove(w)
<1>0. worker \in [Workers -> WorkerState]
  BY DEF TypeOK
<1>1. ASSUME NEW v \in Workers, WorkerStep(v) PROVE KeepMove(w)
  <2>1. CASE v # w
    BY <1>0, <1>1, <2>1 DEF KeepMove, WorkerStep, ReadDue, Check, Claim, Create, CreateThrows,
       Link, LinkThrows, Rollback, RecordRead, RecordWrite, Die, Goto, Done, AfterRollback
  <2>2. CASE v = w
    <3>1. CASE Check(w)
      BY <1>0, <3>1 DEF Check, At, Goto, KeepMove, Reading, Claiming, WorkerState
    <3>2. CASE Create(w)
      BY <1>0, <3>2 DEF Create, At, Goto, KeepMove, Reading, Claiming, WorkerState
    <3>3. CASE CreateThrows(w)
      BY <1>0, <3>3 DEF CreateThrows, At, KeepMove, Reading, Claiming, WorkerState
    <3>4. CASE Done(w)
      BY <1>0, <3>4 DEF Done, IdleWorker, KeepMove, Reading, Claiming
    <3>5. CASE LinkThrows(w)
      BY <1>0, <3>5 DEF LinkThrows, At, Goto, KeepMove, Reading, Claiming, WorkerState
    <3>6. CASE Rollback(w) /\ ~Done(w)
      BY <1>0, <3>6 DEF Rollback, AfterRollback, Goto, KeepMove, Reading, Claiming, WorkerState
    <3>7. CASE RecordRead(w) /\ ~Done(w)
      BY <1>0, <3>7, ZenonT(60) DEF RecordRead, KeepMove, Reading, Claiming, WorkerState
    <3> QED BY <1>1, <2>2, <3>1, <3>2, <3>3, <3>4, <3>5, <3>6, <3>7
            DEF WorkerStep, Link, RecordWrite, Die
  <2> QED BY <2>1, <2>2
<1>2. CASE UserStep
  BY <1>2, Saved DEF Saves, KeepMove
<1>3. CASE Tick \/ UNCHANGED vars
  BY <1>3 DEF Tick, vars, KeepMove
<1> QED BY <1>1, <1>2, <1>3 DEF Next, UserStep

\* A read: the occurrence is the one the row names.
LEMMA ReadStep ==
    ASSUME TypeOK, NEW w \in Workers, ReadDue(w)
    PROVE  /\ UNCHANGED <<now, task, requests, linked, scheduled, edited>>
           /\ worker'[w].pc = "check" /\ worker'[w].next = task.next /\ task.next <= now
           /\ task.next # None
           /\ worker'[w].occ = IF task.claimed # None THEN task.claimed ELSE task.next
  BY DEF TypeOK, ReadDue, IdleWorker

-----------------------------------------------------------------------------
LEMMA RowNamesStep ==
    ASSUME TypeOK, RowNames, WorkerNames, [Next]_vars PROVE RowNames'
<1>1. ASSUME NEW w \in Workers, Claim(w) PROVE RowNames'
  <2>1. worker[w].occ \in scheduled /\ worker[w].occ # None
    BY <1>1, ClaimStep, WorkerFields, TimesAreNotNull DEF At, WorkerNames, Reading
  <2> QED BY <1>1, <2>1, ClaimStep DEF RowNames
<1>2. CASE \A w \in Workers : ~Claim(w)
  BY <1>2, RowStep DEF RowMove, RowNames
<1> QED BY <1>1, <1>2

LEMMA WorkerNamesStep ==
    ASSUME TypeOK, RowNames, WorkerNames, [Next]_vars PROVE WorkerNames'
<1>0. scheduled \subseteq scheduled'
  BY RowStep, ClaimStep DEF RowMove
<1> SUFFICES ASSUME NEW w \in Workers, worker'[w].pc \in Reading \cup Claiming
             PROVE  worker'[w].occ \in scheduled'
  BY DEF WorkerNames
<1>1. CASE ReadDue(w)
  BY <1>1, ReadStep DEF RowNames
<1>2. CASE Claim(w)
  BY <1>2, ClaimStep DEF WorkerNames, At, Reading, Claiming
<1>3. CASE ~ReadDue(w) /\ ~Claim(w)
  BY <1>0, <1>3, KeepStep DEF KeepMove, WorkerNames
<1> QED BY <1>1, <1>2, <1>3

LEMMA RequestsStep ==
    ASSUME TypeOK, DispatchesOccurrences, WorkerNames, [Next]_vars
    PROVE  DispatchesOccurrences'
<1>0. scheduled \subseteq scheduled'
  BY RowStep, ClaimStep DEF RowMove
<1>1. ASSUME NEW w \in Workers, WorkerStep(w) PROVE requests' \subseteq scheduled
  <2>1. CASE Create(w) \/ CreateThrows(w)
    BY <2>1 DEF Create, CreateThrows, At, WorkerNames, Claiming, DispatchesOccurrences
  <2> QED BY <1>1, <2>1 DEF WorkerStep, ReadDue, Check, Claim, Link, LinkThrows, Rollback,
          RecordRead, RecordWrite, Die, DispatchesOccurrences
<1>2. ~(\E w \in Workers : WorkerStep(w)) => requests' = requests
  BY Saved DEF Next, UserStep, Saves, Tick, vars
<1> QED BY <1>0, <1>1, <1>2 DEF DispatchesOccurrences

\* The clock never runs back.
LEMMA ClockStep == ASSUME TypeOK, [Next]_vars PROVE now' >= now
<1>0. now \in Int
  BY DEF TypeOK
<1>1. now' = now \/ now' = now + 1
  <2>1. CASE UserStep
    BY <2>1, Saved DEF Saves
  <2> QED BY <2>1 DEF Next, UserStep, WorkerStep, ReadDue, Check, Claim, Create, CreateThrows,
       Link, LinkThrows, Rollback, RecordRead, RecordWrite, Die, Tick, vars
<1> QED BY <1>0, <1>1

LEMMA CurrentStep ==
    ASSUME TypeOK, TypeOK', WorkerNames, ReadIsCurrent, [Next]_vars PROVE ReadIsCurrent'
<1>0. now \in Int /\ now' \in Int /\ now' >= now
  BY ClockStep DEF TypeOK
<1> SUFFICES ASSUME NEW w \in Workers, worker'[w].pc \in Reading
             PROVE  /\ worker'[w].next <= now'
                    /\ task'.claimed # None /\ task'.next = worker'[w].next
                          => worker'[w].occ = task'.claimed
  BY DEF ReadIsCurrent
<1>1. CASE ReadDue(w)
  BY <1>1, ReadStep
<1>2. CASE ~ReadDue(w)
  <2>1. ~Claim(w)
    BY ClaimStep DEF Reading
  <2>2. /\ worker'[w].next = worker[w].next /\ worker'[w].occ = worker[w].occ
        /\ worker[w].pc \in Reading
    BY <1>2, <2>1, KeepStep DEF KeepMove
  <2>3. worker[w].next \in Int /\ worker[w].next <= now
    BY <2>2, WorkerFields DEF ReadIsCurrent, Times
  <2>4. ASSUME NEW v \in Workers, Claim(v), task' # task PROVE task'.next # worker[w].next
    BY <1>0, <2>3, <2>4, ClaimStep, ScheduleAssumption
  <2>5. CASE task' = task
    BY <1>0, <2>2, <2>3, <2>5 DEF ReadIsCurrent
  <2>6. CASE task'.claimed = None
    BY <1>0, <2>2, <2>3, <2>6
  <2>7. task' = task \/ task'.claimed = None \/ \E v \in Workers : Claim(v)
    BY RowStep DEF RowMove
  <2> QED BY <1>0, <2>2, <2>3, <2>4, <2>5, <2>6, <2>7
<1> QED BY <1>1, <1>2

LEMMA LinkStep ==
    ASSUME TypeOK, WorkerNames, LinkHasRequest, [Next]_vars PROVE LinkHasRequest'
<1>0. requests \subseteq requests'
  BY RowStep, ClaimStep DEF RowMove
<1> SUFFICES ASSUME NEW w \in Workers, worker'[w].pc = "link" PROVE worker'[w].occ \in requests'
  BY DEF LinkHasRequest
<1>1. ~ReadDue(w) /\ ~Claim(w)
  BY ReadStep, ClaimStep
<1> QED BY <1>0, <1>1, KeepStep DEF KeepMove, LinkHasRequest, Claiming, Reading

\* Who is counted as having read before the last edit.
LEMMA EditedStep ==
    ASSUME TypeOK, [Next]_vars, NEW w \in edited'
    PROVE  (w \in edited /\ ~Claim(w)) \/ task'.claimed = None
<1>1. ASSUME NEW v \in Workers, WorkerStep(v) PROVE edited' \subseteq edited
  BY <1>1 DEF WorkerStep, ReadDue, Check, Claim, Create, CreateThrows,
       Link, LinkThrows, Rollback, RecordRead, RecordWrite, Die, Done, AfterRollback
<1>2. ASSUME Claim(w) PROVE w \notin Workers
  BY <1>2, ClaimStep
<1>3. CASE UserStep
  BY <1>3, Saved DEF Saves
<1>4. Tick \/ UNCHANGED vars => edited' = edited
  BY DEF Tick, vars
<1>5. edited \subseteq Workers
  BY DEF TypeOK
<1> QED BY <1>1, <1>2, <1>3, <1>4, <1>5 DEF Next, UserStep

LEMMA EditStep ==
    ASSUME TypeOK, TypeOK', WorkerNames, EditEndsClaim, [Next]_vars PROVE EditEndsClaim'
<1> SUFFICES ASSUME NEW w \in edited', worker'[w].pc \in Claiming
             PROVE  ~(task'.next = worker'[w].lease /\ task'.claimed = worker'[w].occ)
  BY DEF EditEndsClaim, Owns
<1>0. w \in Workers /\ worker'[w].occ # None
  BY TimesAreNotNull DEF TypeOK, WorkerState
<1>1. CASE task'.claimed = None
  BY <1>0, <1>1
<1>2. CASE w \in edited /\ ~Claim(w)
  <2>1. ~ReadDue(w)
    BY <1>0, ReadStep DEF Claiming
  <2>2. /\ worker'[w].lease = worker[w].lease /\ worker'[w].occ = worker[w].occ
        /\ worker[w].pc \in Claiming
    BY <1>0, <1>2, <2>1, KeepStep DEF KeepMove
  <2>3. ~(task.next = worker[w].lease /\ task.claimed = worker[w].occ)
    BY <1>2, <2>2 DEF EditEndsClaim, Owns
  <2>4. ASSUME NEW v \in Workers, Claim(v) PROVE task' = task \/ task'.next # worker[w].lease
    BY <1>0, <2>4, ClaimStep
  <2>5. task' = task \/ task'.claimed = None \/ \E v \in Workers : Claim(v)
    BY RowStep DEF RowMove
  <2> QED BY <1>1, <2>2, <2>3, <2>4, <2>5
<1> QED BY <1>1, <1>2, EditedStep

-----------------------------------------------------------------------------
LEMMA Start == Init => IInv
<1> SUFFICES ASSUME Init PROVE IInv
  OBVIOUS
<1>1. computeNextRun(0) \in Times /\ 1 \in Times
  BY ScheduleAssumption, NextRun DEF Times
<1>2. task \in Task /\ task.claimed = None /\ task.next \in Times
  <2>1. CASE task = [status |-> "ACTIVE", once |-> FALSE, runAt |-> None,
                     next |-> computeNextRun(0), claimed |-> None]
    BY <1>1, <2>1 DEF Task
  <2>2. CASE task = [status |-> "ACTIVE", once |-> TRUE, runAt |-> 1, next |-> 1,
                     claimed |-> None]
    BY <1>1, <2>2 DEF Task
  <2> QED BY <2>1, <2>2 DEF Init
<1>3. \A w \in Workers : worker[w].pc = "idle"
  BY DEF Init, IdleWorker
<1>4. worker \in [Workers -> WorkerState]
  BY TimesAreNotNull DEF Init, IdleWorker, WorkerState, WorkerPcs
<1>5. TypeOK
  BY <1>2, <1>4, ScheduleAssumption DEF Init, TypeOK
<1>6. RowNames /\ DispatchesOccurrences
  BY <1>2 DEF Init, RowNames, DispatchesOccurrences
<1>7. WorkerNames /\ ReadIsCurrent /\ LinkHasRequest /\ EditEndsClaim
  BY <1>3 DEF Init, WorkerNames, ReadIsCurrent, LinkHasRequest, EditEndsClaim, Reading, Claiming
<1> QED BY <1>5, <1>6, <1>7 DEF IInv

\* The invariant holds of every state the workers, the users and the clock reach.
THEOREM Inductive == Spec => []IInv
<1>1. ASSUME IInv, [Next]_vars PROVE IInv'
  <2>1. TypeOK'
    BY <1>1, TypeStep DEF IInv
  <2> QED BY <1>1, <2>1, RowNamesStep, WorkerNamesStep, RequestsStep, CurrentStep, LinkStep,
             EditStep DEF IInv
<1> QED BY <1>1, Start, PTL DEF Spec

\* Every variable keeps its type: what is computed from a cron expression or a
\* lease stays a time.
THEOREM TypeCorrect == Spec => []TypeOK
  BY Inductive, PTL DEF IInv

\* Only times the schedule has named are dispatched, whoever finds a lease expired.
THEOREM OccurrencesOnly == Spec => []DispatchesOccurrences
  BY Inductive, PTL DEF IInv

\* A claim on an occurrence ends with its command request or hands it back.
THEOREM NothingLost == Spec => NoOccurrenceLost
<1>1. ASSUME IInv, [Next]_vars, NEW o \in Times, Ended(o) PROVE o \in requests \/ task'.next = o
  <2>0. TypeOK /\ ReadIsCurrent /\ LinkHasRequest
    BY <1>1 DEF IInv
  <2>1. PICK w \in Workers : worker'[w] # worker[w] /\ ~At(w, "write")
    BY <1>1 DEF Ended
  <2>2. o # None /\ task.claimed = o /\ task'.claimed # o
    BY <1>1, TimesAreNotNull DEF Ended
  <2>3. PICK v \in Workers : WorkerStep(v)
    <3>1. ASSUME UserStep PROVE worker' = worker
      BY <2>0, <3>1, Saved DEF Saves
    <3> QED BY <1>1, <2>1, <3>1 DEF Next, UserStep, Tick, vars
  <2>4. v = w
    BY <2>0, <2>1, <2>3 DEF TypeOK, WorkerStep, ReadDue, Check, Claim, Create, CreateThrows,
       Link, LinkThrows, Rollback, RecordRead, RecordWrite, Die, Goto, Done, AfterRollback
  <2>5. CASE Claim(w)
    BY <2>0, <2>2, <2>5, ClaimStep DEF At, ReadIsCurrent, Reading
  <2>6. CASE Link(w) \/ LinkThrows(w)
    BY <2>0, <2>2, <2>6, DispatchedRow DEF Link, LinkThrows, At, Owns, LinkHasRequest
  <2>7. CASE Rollback(w)
    BY <2>0, <2>2, <2>7, ReturnedRow DEF Owns
  <2> QED BY <2>1, <2>2, <2>3, <2>4, <2>5, <2>6, <2>7
          DEF WorkerStep, ReadDue, Check, Create, CreateThrows, RecordRead, RecordWrite, Die
<1>2. ASSUME IInv, [Next]_vars
      PROVE  [\A o \in Times : Ended(o) => o \in requests \/ task'.next = o]_vars
  BY <1>1, <1>2
<1> QED BY <1>2, Inductive, PTL DEF Spec, NoOccurrenceLost

\* Once the user has saved a new schedule, a worker that claimed under the old
\* one leaves the task alone.
THEOREM EditWins == Spec => ClaimYieldsToEdit
<1>1. ASSUME IInv, [Next]_vars, NEW w \in edited, worker[w].pc \in Claiming,
             worker'[w] # worker[w]
      PROVE  task' = task
  <2>0. TypeOK /\ w \in Workers /\ ~Owns(w)
    BY <1>1 DEF IInv, TypeOK, EditEndsClaim
  <2>1. PICK v \in Workers : WorkerStep(v)
    <3>1. ASSUME UserStep PROVE worker' = worker
      BY <2>0, <3>1, Saved DEF Saves
    <3> QED BY <1>1, <3>1 DEF Next, UserStep, Tick, vars
  <2>2. v = w
    BY <1>1, <2>0, <2>1 DEF TypeOK, WorkerStep, ReadDue, Check, Claim, Create, CreateThrows,
       Link, LinkThrows, Rollback, RecordRead, RecordWrite, Die, Goto, Done, AfterRollback
  <2>3. CASE Link(w) \/ LinkThrows(w)
    BY <2>0, <2>3, DispatchedRow DEF Link, LinkThrows
  <2>4. CASE Rollback(w)
    BY <2>0, <2>4, ReturnedRow
  <2>5. ~Claim(w) /\ ~RecordWrite(w)
    BY <1>1 DEF Claim, RecordWrite, At, Claiming
  <2> QED BY <2>1, <2>2, <2>3, <2>4, <2>5
          DEF WorkerStep, ReadDue, Check, Create, CreateThrows, RecordRead, Die
<1>2. ASSUME IInv, [Next]_vars
      PROVE  [\A w \in edited : worker[w].pc \in {"create", "link", "rollback"}
                                  /\ worker'[w] # worker[w] => task' = task]_vars
  BY <1>1, <1>2 DEF Claiming
<1> QED BY <1>2, Inductive, PTL DEF Spec, ClaimYieldsToEdit

=============================================================================

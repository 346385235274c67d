--------------------------- MODULE JobQueueProofs ---------------------------
(***************************************************************************)
(* Proofs about JobQueue for any number of jobs, slots and processes and   *)
(* any lease, delay and caps.                                              *)
(***************************************************************************)
EXTENDS JobQueue, TLAPS

\* Slots that share a workerId only run jobs of a single attempt, as the three
\* places of the command.execution worker do.
FencedIds ==
    \A s, t \in Slots : s # t /\ WorkerOf[s] = WorkerOf[t]
                           => \A j \in Jobs : MaxAttempts[j] = 1

\* A busy slot has a claim on a job, one of those counted in its attempts.
ClaimsCounted ==
    \A s \in Slots : Busy(s) => /\ slot[s].job \in Jobs
                                /\ slot[s].attempt >= 1
                                /\ slot[s].attempt <= jobs[slot[s].job].attempts

\* Each attempt at a job is the claim of one slot.
ClaimsDistinct ==
    \A s, t \in Slots : /\ Busy(s) /\ Busy(t) /\ s # t
                        /\ slot[s].job = slot[t].job
                        => slot[s].attempt # slot[t].attempt

\* Who passes the workerId fence is in the row's latest attempt.
FenceIsExact ==
    \A s \in Slots : Busy(s) /\ Holds(s) => slot[s].attempt = jobs[slot[s].job].attempts

\* What failJob read is still so when its update finds the row.
RetryIsCurrent ==
    \A s \in Slots : slot[s].pc = "failWrite" /\ slot[s].canRetry /\ Holds(s)
                        => jobs[slot[s].job].attempts < MaxAttempts[slot[s].job]

\* What the sweep read is still so for the rows its update finds.
SweepIsCurrent ==
    /\ sweep.pc = "idle" => sweep.retryable = {}
    /\ sweep.lag <= CallLag =>
        \A j \in sweep.retryable :
            jobs[j].status = "RUNNING" /\ jobs[j].lease < -sweep.lag
                => jobs[j].attempts < MaxAttempts[j]

\* While a run believes in its lease, its claim is the latest, and the row is
\* settled or RUNNING under a lease at most CallLag shorter than the belief.
BeliefIsSound ==
    \A s \in Slots :
        /\ slot[s].deadline <= LeaseLen
        /\ Believes(s) =>
              LET row == jobs[slot[s].job]
              IN /\ row.attempts = slot[s].attempt
                 /\ row.status \in Terminal \cup {"RUNNING"}
                 /\ row.status = "RUNNING" => /\ row.worker = WorkerOf[s]
                                              /\ row.lease >= slot[s].deadline - CallLag

\* An id that is not enqueued has no attempts.
AbsentIsFresh == \A j \in Jobs : jobs[j].status = "ABSENT" => jobs[j].attempts = 0

\* Everything in the inductive invariant beyond the types.
Consistent ==
    /\ NoStrandedPending /\ AbsentIsFresh
    /\ ClaimsCounted /\ ClaimsDistinct /\ FenceIsExact
    /\ RetryIsCurrent /\ SweepIsCurrent /\ BeliefIsSound

IInv == TypeOK /\ Consistent

-----------------------------------------------------------------------------
\* markLeaseLost changes nothing but the flag.
LEMMA LeaseLostType ==
  ASSUME NEW sl \in Slot
  PROVE  /\ LeaseLost(sl) \in Slot
         /\ LeaseLost(sl).lost
         /\ LeaseLost(sl).pc = sl.pc /\ LeaseLost(sl).job = sl.job
         /\ LeaseLost(sl).attempt = sl.attempt /\ LeaseLost(sl).lag = sl.lag
         /\ LeaseLost(sl).deadline = sl.deadline
         /\ LeaseLost(sl).canRetry = sl.canRetry
  BY DEF Slot, LeaseLost

\* Every step keeps the variables in their types.
LEMMA TypeStep == TypeOK /\ [Next]_vars => TypeOK'
<1> SUFFICES ASSUME TypeOK, [Next]_vars PROVE TypeOK'
  OBVIOUS
<1> USE ConstantsAssumption, LagAssumption
<1> USE DEF TypeOK, Row, Slot, Beat, Sweep, SlotPcs, SweepPcs, Statuses,
            Terminal, IdleSlot, IdleSweep, RowOf, Busy, Settling
<1>1. ASSUME NEW j \in Jobs, JobStep(j) PROVE TypeOK'
  <2>1. CASE Enqueue(j)  BY <2>1 DEF Enqueue
  <2>2. CASE Cancel(j)   BY <2>2 DEF Cancel
  <2>3. CASE Abandon(j)  BY <2>3 DEF Abandon
  <2> QED BY <1>1, <2>1, <2>2, <2>3 DEF JobStep
<1>2. ASSUME NEW s \in Slots, SlotStep(s) PROVE TypeOK'
  <2>1. CASE ClaimBegin(s)    BY <2>1 DEF ClaimBegin
  <2>2. CASE ClaimCount(s)
    BY <2>2 DEF ClaimCount
  <2>0. CASE ClaimCapped(s)   BY <2>0 DEF ClaimCapped
  <2>3. CASE ClaimTake(s)     BY <2>3 DEF ClaimTake, ReadyToTake, Unlock, Eligible
  <2>4. CASE ClaimNone(s)     BY <2>4 DEF ClaimNone, Unlock
  <2>5. CASE ClaimFails(s)    BY <2>5 DEF ClaimFails, Unlock
  <2>6. CASE BeatSend(s)
    <3>1. slot[s].job \in Jobs  BY <2>6 DEF BeatSend, Running
    <3>2. [slot |-> s, job |-> slot[s].job, attempt |-> slot[s].attempt, lag |-> 0] \in Beat
      BY <3>1
    <3> QED BY <2>6, <3>2 DEF BeatSend
  <2>7. CASE ExpiryFires(s)
    BY <2>7, LeaseLostType DEF ExpiryFires
  <2>8. CASE RunReturns(s)
    <3>1. slot[s].job \in Jobs  BY <2>8 DEF RunReturns, Running
    <3>2. (slot \in [Slots -> Slot])'
      BY <2>8 DEF RunReturns
    <3> QED BY <2>8, <3>1, <3>2 DEF RunReturns
  <2>9. CASE RunThrows(s)     BY <2>9 DEF RunThrows, Running
  <2>10. CASE RunLost(s)      BY <2>10 DEF RunLost
  <2>11. CASE Complete(s)     BY <2>11 DEF Complete
  <2>12. CASE FailTerminal(s) BY <2>12 DEF FailTerminal, Failed
  <2>13. CASE FailRead(s)     BY <2>13 DEF FailRead
  <2>14. CASE FailWrite(s)    BY <2>14 DEF FailWrite, Requeued, Failed
  <2>15. CASE SettleFails(s)  BY <2>15 DEF SettleFails
  <2> QED BY <1>2, <2>0, <2>1, <2>2, <2>3, <2>4, <2>5, <2>6, <2>7, <2>8, <2>9, <2>10,
             <2>11, <2>12, <2>13, <2>14, <2>15 DEF SlotStep
<1>3. ASSUME NEW b \in beats, BeatStep(b) PROVE TypeOK'
  <2>0. b \in Beat /\ b.slot \in Slots /\ b.job \in Jobs /\ b.lag \in Nat
    OBVIOUS
  <2>a. ASSUME RenewLease(b), b.lag <= CallLag PROVE (jobs \in [Jobs -> Row])'
    <3>1. LeaseLen - b.lag \in Int  BY <2>0
    <3>2. CASE Fenced(b.job, WorkerOf[b.slot])
      BY <2>0, <2>a, <3>1, <3>2 DEF RenewLease
    <3>3. CASE ~Fenced(b.job, WorkerOf[b.slot])
      BY <2>a, <3>3 DEF RenewLease
    <3> QED BY <3>2, <3>3
  <2>1. CASE BeatRenews(b)
    <3>1. LeaseLen - b.lag \in Nat
      BY <2>0, <2>1 DEF BeatRenews
    <3>2. /\ (slot \in [Slots -> Slot])'
          /\ (\A s \in Slots : Busy(s) => slot[s].job \in Jobs)'
      BY <2>0, <2>1, <3>1 DEF BeatRenews
    <3> QED BY <2>a, <2>1, <3>2 DEF BeatRenews
  <2>2. CASE BeatLoses(b)
    <3>1. /\ (slot \in [Slots -> Slot])'
          /\ (\A s \in Slots : Busy(s) => slot[s].job \in Jobs)'
      BY <2>0, <2>2, LeaseLostType DEF BeatLoses
    <3> QED BY <2>a, <2>2, <3>1 DEF BeatLoses
  <2>3. CASE BeatUnheard(b)
    BY <2>a, <2>3 DEF BeatUnheard
  <2>4. CASE BeatFails(b)
    BY <2>0, <2>4, LeaseLostType DEF BeatFails
  <2> QED BY <1>3, <2>1, <2>2, <2>3, <2>4 DEF BeatStep
<1>4. ASSUME NEW w \in Workers, Crash(w) PROVE TypeOK'
  BY <1>4 DEF Crash
<1>5. CASE SweepStep
  <2>1. CASE SweepReadRetryable  BY <2>1 DEF SweepReadRetryable, Stale
  <2>2. CASE SweepReadExhausted  BY <2>2 DEF SweepReadExhausted, Stale
  <2>3. CASE SweepRequeue        BY <2>3 DEF SweepRequeue, Stale, Requeued
  <2>4. CASE SweepFailExhausted  BY <2>4 DEF SweepFailExhausted, Stale, Failed
  <2>5. CASE SweepFails          BY <2>5 DEF SweepFails
  <2> QED BY <1>5, <2>1, <2>2, <2>3, <2>4, <2>5 DEF SweepStep
<1>6. CASE Tick
  <2>1. (jobs \in [Jobs -> Row])'
    BY <1>6 DEF Tick, TickRow, Down, Expired
  <2>2. (slot \in [Slots -> Slot])'
    BY <1>6 DEF Tick, TickSlot, Down, Up, TooLate
  <2>3. (\A s \in Slots : Busy(s) => slot[s].job \in Jobs)'
    BY <1>6 DEF Tick, TickSlot
  <2>4. (beats \subseteq Beat)'
    <3>1. \A n \in Nat : Up(n) \in Nat
      BY DEF Up, TooLate
    <3>2. \A b \in Beat : [b EXCEPT !.lag = Up(b.lag)] \in Beat
      BY <3>1
    <3>3. beats' = {[b EXCEPT !.lag = Up(b.lag)] : b \in beats}
      BY <1>6 DEF Tick
    <3> QED BY <3>2, <3>3
  <2>5. (sweep \in Sweep)'
    BY <1>6 DEF Tick, Up, TooLate
  <2> QED BY <1>6, <2>1, <2>2, <2>3, <2>4, <2>5 DEF Tick
<1>7. CASE UNCHANGED vars
  BY <1>7 DEF vars
<1> QED BY <1>1, <1>2, <1>3, <1>4, <1>5, <1>6, <1>7 DEF Next

-----------------------------------------------------------------------------
\* Every step keeps the inductive invariant.  The interesting steps are a claim,
\* which starts a new attempt; a heartbeat, which moves lease and deadline; the
\* read of failJob; and the clock.
LEMMA InvStep == FencedIds /\ IInv /\ [Next]_vars => IInv'
<1> SUFFICES ASSUME FencedIds, IInv, [Next]_vars PROVE Consistent'
  BY TypeStep DEF IInv
<1>0. TypeOK /\ TypeOK'
  BY TypeStep DEF IInv
<1> USE <1>0, ConstantsAssumption, LagAssumption
<1> USE DEF IInv, Consistent, TypeOK, Row, Slot, Beat, Sweep, SlotPcs, SweepPcs,
            Statuses, Terminal, IdleSlot, IdleSweep, RowOf, Busy, Settling,
            Holds, Fenced, Believes, Running
<1>1. ASSUME NEW j \in Jobs, JobStep(j) PROVE Consistent'
  <2>1. CASE Enqueue(j)  BY <2>1
    DEF Enqueue, NoStrandedPending, AbsentIsFresh, ClaimsCounted, ClaimsDistinct,
        FenceIsExact, RetryIsCurrent, SweepIsCurrent, BeliefIsSound
  <2>2. CASE Cancel(j)   BY <2>2
    DEF Cancel, NoStrandedPending, AbsentIsFresh, ClaimsCounted, ClaimsDistinct,
        FenceIsExact, RetryIsCurrent, SweepIsCurrent, BeliefIsSound
  <2>3. CASE Abandon(j)  BY <2>3
    DEF Abandon, NoStrandedPending, AbsentIsFresh, ClaimsCounted, ClaimsDistinct,
        FenceIsExact, RetryIsCurrent, SweepIsCurrent, BeliefIsSound
  <2> QED BY ONLY <1>1, <2>1, <2>2, <2>3 DEF JobStep
<1>2. ASSUME NEW s \in Slots, SlotStep(s) PROVE Consistent'
  <2>1. CASE ClaimBegin(s)
    <3>1. NoStrandedPending' /\ AbsentIsFresh' /\ ClaimsCounted'
      BY <2>1 DEF ClaimBegin, NoStrandedPending, AbsentIsFresh, ClaimsCounted
    <3>2. ClaimsDistinct' /\ RetryIsCurrent'
      BY <2>1 DEF ClaimBegin, ClaimsDistinct, RetryIsCurrent
    <3>3. FenceIsExact'
      BY <2>1 DEF ClaimBegin, FenceIsExact
    <3>4. SweepIsCurrent' /\ BeliefIsSound'
      BY <2>1 DEF ClaimBegin, SweepIsCurrent, BeliefIsSound
    <3> QED BY ONLY <3>1, <3>2, <3>3, <3>4 DEF Consistent
  <2>2. CASE ClaimCount(s)
    <3>1. NoStrandedPending' /\ AbsentIsFresh' /\ ClaimsCounted'
      BY <2>2 DEF ClaimCount, NoStrandedPending, AbsentIsFresh, ClaimsCounted
    <3>2. ClaimsDistinct' /\ RetryIsCurrent'
      BY <2>2 DEF ClaimCount, ClaimsDistinct, RetryIsCurrent
    <3>3. FenceIsExact'
      BY <2>2 DEF ClaimCount, FenceIsExact
    <3>4. SweepIsCurrent' /\ BeliefIsSound'
      BY <2>2 DEF ClaimCount, SweepIsCurrent, BeliefIsSound
    <3> QED BY ONLY <3>1, <3>2, <3>3, <3>4 DEF Consistent
  <2>3. CASE ClaimCapped(s)
    <3>1. NoStrandedPending' /\ AbsentIsFresh' /\ ClaimsCounted'
      BY <2>3 DEF ClaimCapped, NoStrandedPending, AbsentIsFresh, ClaimsCounted
    <3>2. ClaimsDistinct' /\ RetryIsCurrent'
      BY <2>3 DEF ClaimCapped, ClaimsDistinct, RetryIsCurrent
    <3>3. FenceIsExact'
      BY <2>3 DEF ClaimCapped, FenceIsExact
    <3>4. SweepIsCurrent' /\ BeliefIsSound'
      BY <2>3 DEF ClaimCapped, SweepIsCurrent, BeliefIsSound
    <3> QED BY ONLY <3>1, <3>2, <3>3, <3>4 DEF Consistent
  <2>4. CASE ClaimTake(s)
    <3>1. PICK j \in Eligible(slot[s].lag) :
             /\ jobs' = [jobs EXCEPT ![j] =
                           RowOf("RUNNING", @.attempts + 1, 0,
                                 LeaseLen - slot[s].lag, WorkerOf[s], @.stamped)]
             /\ slot' = [slot EXCEPT ![s] =
                           [pc |-> "running", job |-> j,
                            attempt |-> jobs[j].attempts + 1, lag |-> 0,
                            deadline |-> LeaseLen, lost |-> FALSE,
                            canRetry |-> FALSE]]
      BY <2>4 DEF ClaimTake
    <3>2. j \in Jobs /\ jobs[j].attempts < MaxAttempts[j] /\ Claimable(j, slot[s].lag)
      BY <3>1 DEF Eligible
    <3>3. slot[s].lag <= CallLag /\ slot[s].lag \in Nat /\ sweep' = sweep
      BY <2>4 DEF ClaimTake, ReadyToTake
    \* A slot that is still busy with an earlier attempt at j has another id.
    <3>4. ASSUME NEW t \in Slots, t # s, Busy(t), slot[t].job = j
          PROVE  WorkerOf[t] # WorkerOf[s]
      <4>1. jobs[j].attempts >= 1  BY <3>2, <3>4 DEF ClaimsCounted
      <4>2. MaxAttempts[j] # 1     BY <3>2, <4>1
      <4> QED BY <3>2, <3>4, <4>2 DEF FencedIds
    <3>5. NoStrandedPending' /\ AbsentIsFresh' /\ ClaimsCounted' /\ ClaimsDistinct'
      BY <3>1, <3>2 DEF NoStrandedPending, AbsentIsFresh, ClaimsCounted, ClaimsDistinct
    <3>6. FenceIsExact'
      <4> SUFFICES ASSUME NEW t \in Slots, Busy(t)', Holds(t)'
                   PROVE  slot'[t].attempt = jobs'[slot'[t].job].attempts
        BY DEF FenceIsExact
      <4>1. CASE t = s  BY <3>1, <3>2, <4>1
      <4>2. CASE t # s /\ slot[t].job = j  BY <3>1, <3>2, <3>4, <4>2
      <4>3. CASE t # s /\ slot[t].job # j  BY <3>1, <3>2, <4>3 DEF FenceIsExact
      <4> QED BY <4>1, <4>2, <4>3
    <3>7. RetryIsCurrent'
      <4> SUFFICES ASSUME NEW t \in Slots, slot'[t].pc = "failWrite",
                          slot'[t].canRetry, Holds(t)'
                   PROVE  jobs'[slot'[t].job].attempts < MaxAttempts[slot'[t].job]
        BY DEF RetryIsCurrent
      <4>1. t # s /\ slot'[t] = slot[t] /\ Busy(t)  BY <3>1
      <4>2. CASE slot[t].job = j  BY <3>1, <3>2, <3>4, <4>1, <4>2
      <4>3. CASE slot[t].job # j  BY <3>1, <3>2, <4>1, <4>3 DEF RetryIsCurrent
      <4> QED BY <4>2, <4>3
    <3>8. SweepIsCurrent'
      BY <3>1, <3>2, <3>3 DEF SweepIsCurrent
    <3>9. BeliefIsSound'
      BY <3>1, <3>2, <3>3 DEF Claimable, BeliefIsSound, ClaimsCounted
    <3> QED BY <3>5, <3>6, <3>7, <3>8, <3>9
  <2>5. CASE ClaimNone(s)
    <3>1. NoStrandedPending' /\ AbsentIsFresh' /\ ClaimsCounted'
      BY <2>5 DEF ClaimNone, NoStrandedPending, AbsentIsFresh, ClaimsCounted
    <3>2. ClaimsDistinct' /\ RetryIsCurrent'
      BY <2>5 DEF ClaimNone, ClaimsDistinct, RetryIsCurrent
    <3>3. FenceIsExact'
      BY <2>5 DEF ClaimNone, FenceIsExact
    <3>4. SweepIsCurrent' /\ BeliefIsSound'
      BY <2>5 DEF ClaimNone, SweepIsCurrent, BeliefIsSound
    <3> QED BY ONLY <3>1, <3>2, <3>3, <3>4 DEF Consistent
  <2>6. CASE ClaimFails(s)
    <3>1. NoStrandedPending' /\ AbsentIsFresh' /\ ClaimsCounted'
      BY <2>6 DEF ClaimFails, NoStrandedPending, AbsentIsFresh, ClaimsCounted
    <3>2. ClaimsDistinct' /\ RetryIsCurrent'
      BY <2>6 DEF ClaimFails, ClaimsDistinct, RetryIsCurrent
    <3>3. FenceIsExact'
      BY <2>6 DEF ClaimFails, FenceIsExact
    <3>4. SweepIsCurrent' /\ BeliefIsSound'
      BY <2>6 DEF ClaimFails, SweepIsCurrent, BeliefIsSound
    <3> QED BY ONLY <3>1, <3>2, <3>3, <3>4 DEF Consistent
  <2>7. CASE BeatSend(s)
    <3>1. NoStrandedPending' /\ AbsentIsFresh' /\ ClaimsCounted'
      BY <2>7 DEF BeatSend, NoStrandedPending, AbsentIsFresh, ClaimsCounted
    <3>2. ClaimsDistinct' /\ RetryIsCurrent'
      BY <2>7 DEF BeatSend, ClaimsDistinct, RetryIsCurrent
    <3>3. FenceIsExact'
      BY <2>7 DEF BeatSend, FenceIsExact
    <3>4. SweepIsCurrent' /\ BeliefIsSound'
      BY <2>7 DEF BeatSend, SweepIsCurrent, BeliefIsSound
    <3> QED BY ONLY <3>1, <3>2, <3>3, <3>4 DEF Consistent
  <2>8. CASE ExpiryFires(s)
    <3>1. NoStrandedPending' /\ AbsentIsFresh' /\ ClaimsCounted'
      BY <2>8 DEF ExpiryFires, LeaseLost, NoStrandedPending, AbsentIsFresh, ClaimsCounted
    <3>2. ClaimsDistinct' /\ RetryIsCurrent'
      BY <2>8 DEF ExpiryFires, LeaseLost, ClaimsDistinct, RetryIsCurrent
    <3>3. FenceIsExact'
      BY <2>8 DEF ExpiryFires, LeaseLost, FenceIsExact
    <3>4. SweepIsCurrent' /\ BeliefIsSound'
      BY <2>8 DEF ExpiryFires, LeaseLost, SweepIsCurrent, BeliefIsSound
    <3> QED BY ONLY <3>1, <3>2, <3>3, <3>4 DEF Consistent
  <2>9. CASE RunReturns(s)
    <3>1. NoStrandedPending' /\ AbsentIsFresh' /\ ClaimsCounted'
      BY <2>9 DEF RunReturns, NoStrandedPending, AbsentIsFresh, ClaimsCounted
    <3>2. ClaimsDistinct' /\ RetryIsCurrent'
      BY <2>9 DEF RunReturns, ClaimsDistinct, RetryIsCurrent
    <3>3. FenceIsExact'
      BY <2>9 DEF RunReturns, FenceIsExact
    <3>4. SweepIsCurrent' /\ BeliefIsSound'
      BY <2>9 DEF RunReturns, SweepIsCurrent, BeliefIsSound
    <3> QED BY ONLY <3>1, <3>2, <3>3, <3>4 DEF Consistent
  <2>10. CASE RunThrows(s)
    <3>1. NoStrandedPending' /\ AbsentIsFresh' /\ ClaimsCounted'
      BY <2>10 DEF RunThrows, NoStrandedPending, AbsentIsFresh, ClaimsCounted
    <3>2. ClaimsDistinct' /\ RetryIsCurrent'
      BY <2>10 DEF RunThrows, ClaimsDistinct, RetryIsCurrent
    <3>3. FenceIsExact'
      BY <2>10 DEF RunThrows, FenceIsExact
    <3>4. SweepIsCurrent' /\ BeliefIsSound'
      BY <2>10 DEF RunThrows, SweepIsCurrent, BeliefIsSound
    <3> QED BY ONLY <3>1, <3>2, <3>3, <3>4 DEF Consistent
  <2>11. CASE RunLost(s)
    <3>1. NoStrandedPending' /\ AbsentIsFresh' /\ ClaimsCounted'
      BY <2>11 DEF RunLost, NoStrandedPending, AbsentIsFresh, ClaimsCounted
    <3>2. ClaimsDistinct' /\ RetryIsCurrent'
      BY <2>11 DEF RunLost, ClaimsDistinct, RetryIsCurrent
    <3>3. FenceIsExact'
      BY <2>11 DEF RunLost, FenceIsExact
    <3>4. SweepIsCurrent' /\ BeliefIsSound'
      BY <2>11 DEF RunLost, SweepIsCurrent, BeliefIsSound
    <3> QED BY ONLY <3>1, <3>2, <3>3, <3>4 DEF Consistent
  <2>12. CASE Complete(s)
    <3>1. NoStrandedPending' /\ AbsentIsFresh' /\ ClaimsCounted'
      BY <2>12 DEF Complete, NoStrandedPending, AbsentIsFresh, ClaimsCounted
    <3>2. ClaimsDistinct' /\ RetryIsCurrent'
      BY <2>12 DEF Complete, ClaimsDistinct, RetryIsCurrent
    <3>3. FenceIsExact'
      BY <2>12 DEF Complete, FenceIsExact
    <3>4. SweepIsCurrent'
      BY <2>12 DEF Complete, SweepIsCurrent
    <3>5. BeliefIsSound'
      BY <2>12 DEF Complete, BeliefIsSound
    <3> QED BY ONLY <3>1, <3>2, <3>3, <3>4, <3>5 DEF Consistent
  <2>13. CASE FailTerminal(s)
    <3>1. NoStrandedPending' /\ AbsentIsFresh' /\ ClaimsCounted'
      BY <2>13 DEF FailTerminal, Failed, NoStrandedPending, AbsentIsFresh, ClaimsCounted
    <3>2. ClaimsDistinct' /\ RetryIsCurrent'
      BY <2>13 DEF FailTerminal, Failed, ClaimsDistinct, RetryIsCurrent
    <3>3. FenceIsExact'
      BY <2>13 DEF FailTerminal, Failed, FenceIsExact
    <3>4. SweepIsCurrent'
      BY <2>13 DEF FailTerminal, Failed, SweepIsCurrent
    <3>5. BeliefIsSound'
      BY <2>13 DEF FailTerminal, Failed, BeliefIsSound
    <3> QED BY ONLY <3>1, <3>2, <3>3, <3>4, <3>5 DEF Consistent
  <2>14. CASE FailRead(s)
    <3>1. /\ jobs' = jobs /\ sweep' = sweep
          /\ \A t \in Slots \ {s} : slot'[t] = slot[t]
          /\ slot'[s].pc = "failWrite" /\ slot'[s].job = slot[s].job
          /\ slot'[s].attempt = slot[s].attempt
          /\ slot'[s].deadline = slot[s].deadline
          /\ slot'[s].canRetry =
                (jobs[slot[s].job].attempts < MaxAttempts[slot[s].job])
      BY <2>14 DEF FailRead
    <3>2. slot[s].pc = "failRead"  BY <2>14 DEF FailRead
    <3>3. RetryIsCurrent'
      <4> SUFFICES ASSUME NEW t \in Slots, slot'[t].pc = "failWrite",
                          slot'[t].canRetry, Holds(t)'
                   PROVE  jobs'[slot'[t].job].attempts < MaxAttempts[slot'[t].job]
        BY DEF RetryIsCurrent
      <4>1. CASE t = s  BY <3>1, <4>1
      <4>2. CASE t # s  BY <3>1, <4>2 DEF RetryIsCurrent
      <4> QED BY <4>1, <4>2
    <3>4. NoStrandedPending' /\ AbsentIsFresh' /\ ClaimsCounted' /\ ClaimsDistinct'
      BY <2>14 DEF FailRead, NoStrandedPending, AbsentIsFresh, ClaimsCounted, ClaimsDistinct
    <3>5. FenceIsExact' /\ SweepIsCurrent'
      BY <2>14 DEF FailRead, FenceIsExact, SweepIsCurrent
    <3>6. BeliefIsSound'
      BY <2>14 DEF FailRead, BeliefIsSound
    <3> QED BY ONLY <3>3, <3>4, <3>5, <3>6 DEF Consistent
  <2>15. CASE FailWrite(s)
    <3>1. NoStrandedPending'
      BY <2>15 DEF FailWrite, Failed, Requeued, NoStrandedPending, RetryIsCurrent
    <3>2. AbsentIsFresh' /\ ClaimsCounted'
      BY <2>15 DEF FailWrite, Failed, Requeued, AbsentIsFresh, ClaimsCounted
    <3>3. ClaimsDistinct'
      BY <2>15 DEF FailWrite, ClaimsDistinct
    <3>4. RetryIsCurrent'
      BY <2>15 DEF FailWrite, Failed, Requeued, RetryIsCurrent
    <3>5. FenceIsExact'
      BY <2>15 DEF FailWrite, Failed, Requeued, FenceIsExact
    <3>6. SweepIsCurrent'
      BY <2>15 DEF FailWrite, Failed, Requeued, SweepIsCurrent
    <3>7. BeliefIsSound'
      BY <2>15
        DEF FailWrite, Failed, Requeued, BeliefIsSound, ClaimsDistinct, FenceIsExact
    <3> QED BY ONLY <3>1, <3>2, <3>3, <3>4, <3>5, <3>6, <3>7 DEF Consistent
  <2>16. CASE SettleFails(s)
    <3>1. NoStrandedPending' /\ AbsentIsFresh' /\ ClaimsCounted'
      BY <2>16 DEF SettleFails, NoStrandedPending, AbsentIsFresh, ClaimsCounted
    <3>2. ClaimsDistinct' /\ RetryIsCurrent'
      BY <2>16 DEF SettleFails, ClaimsDistinct, RetryIsCurrent
    <3>3. FenceIsExact'
      BY <2>16 DEF SettleFails, FenceIsExact
    <3>4. SweepIsCurrent' /\ BeliefIsSound'
      BY <2>16 DEF SettleFails, SweepIsCurrent, BeliefIsSound
    <3> QED BY ONLY <3>1, <3>2, <3>3, <3>4 DEF Consistent
  <2> QED BY ONLY <1>2, <2>1, <2>2, <2>3, <2>4, <2>5, <2>6, <2>7, <2>8, <2>9, <2>10,
             <2>11, <2>12, <2>13, <2>14, <2>15, <2>16 DEF SlotStep
<1>3. ASSUME NEW b \in beats, BeatStep(b) PROVE Consistent'
  <2>0. b \in Beat /\ b.slot \in Slots /\ b.job \in Jobs /\ b.lag \in Nat
    OBVIOUS
  <2> DEFINE Renewed == b.lag <= CallLag /\ Fenced(b.job, WorkerOf[b.slot])
             Renews == /\ Renewed /\ Listening(b)
                       /\ jobs'[b.job].lease = LeaseLen - b.lag
  \* A heartbeat touches no row but for its lease, and no slot but for its
  \* deadline and its flag.
  <2>a. ASSUME RenewLease(b), b.lag <= CallLag, NEW j \in Jobs
        PROVE  /\ jobs'[j].status = jobs[j].status /\ jobs'[j].worker = jobs[j].worker
               /\ jobs'[j].attempts = jobs[j].attempts
               /\ jobs'[j].lease = jobs[j].lease
                  \/ (Renewed /\ jobs'[j].lease = LeaseLen - b.lag)
    <3>1. CASE Fenced(b.job, WorkerOf[b.slot]) /\ j = b.job
      BY <2>0, <2>a, <3>1 DEF RenewLease
    <3>2. CASE Fenced(b.job, WorkerOf[b.slot]) /\ j # b.job
      BY <2>a, <3>2 DEF RenewLease
    <3>3. CASE ~Fenced(b.job, WorkerOf[b.slot])
      BY <2>a, <3>3 DEF RenewLease
    <3> QED BY <3>1, <3>2, <3>3
  <2>b. ASSUME NEW j \in Jobs
        PROVE  /\ jobs'[j].status = jobs[j].status /\ jobs'[j].worker = jobs[j].worker
               /\ jobs'[j].attempts = jobs[j].attempts
               /\ jobs'[j].lease = jobs[j].lease
                  \/ (Renewed /\ jobs'[j].lease = LeaseLen - b.lag)
    BY ONLY <1>3, <2>a DEF BeatStep, BeatRenews, BeatLoses, BeatUnheard, BeatFails
  <2>c. ASSUME NEW s \in Slots
        PROVE  /\ slot'[s].pc = slot[s].pc /\ slot'[s].job = slot[s].job
               /\ slot'[s].attempt = slot[s].attempt
               /\ slot'[s].canRetry = slot[s].canRetry
               /\ ~slot'[s].lost => ~slot[s].lost
               /\ slot'[s].deadline = slot[s].deadline
                  \/ (s = b.slot /\ slot'[s].deadline = LeaseLen - b.lag /\ Renews)
    <3>1. CASE BeatRenews(b)
      <4>1. jobs'[b.job].lease = LeaseLen - b.lag
        BY <2>0, <3>1 DEF BeatRenews, RenewLease
      <4>2. slot' = [slot EXCEPT ![b.slot].deadline = LeaseLen - b.lag]
        BY <3>1 DEF BeatRenews
      <4> QED BY <3>1, <4>1, <4>2 DEF BeatRenews
    <3>2. CASE BeatLoses(b)
      BY <2>0, <3>2, LeaseLostType DEF BeatLoses
    <3>3. CASE BeatUnheard(b)
      BY <3>3 DEF BeatUnheard
    <3>4. CASE BeatFails(b)
      BY <2>0, <3>4, LeaseLostType DEF BeatFails
    <3> QED BY ONLY <1>3, <3>1, <3>2, <3>3, <3>4 DEF BeatStep
  <2>d. sweep' = sweep
    BY ONLY <1>3 DEF BeatStep, BeatRenews, BeatLoses, BeatUnheard, BeatFails
  <2>e. LeaseLen - b.lag \in Int /\ (Renewed => LeaseLen - b.lag > 0)
    BY <2>0
  <2> HIDE DEF Renewed, Renews
  <2>1. NoStrandedPending' /\ AbsentIsFresh'
    BY <2>b DEF NoStrandedPending, AbsentIsFresh
  <2>2. ClaimsCounted'
    BY <2>b, <2>c DEF ClaimsCounted
  <2>3. ClaimsDistinct'
    BY <2>c DEF ClaimsDistinct
  <2>4. RetryIsCurrent'
    BY <2>b, <2>c DEF RetryIsCurrent
  <2>5. FenceIsExact'
    BY <2>b, <2>c DEF FenceIsExact
  <2>6. SweepIsCurrent'
    BY <2>b, <2>d, <2>e DEF SweepIsCurrent
  <2>7. BeliefIsSound'
    <3> SUFFICES ASSUME NEW s \in Slots
                 PROVE  /\ slot'[s].deadline <= LeaseLen
                        /\ Believes(s)' =>
                              LET row == jobs'[slot'[s].job]
                              IN /\ row.attempts = slot'[s].attempt
                                 /\ row.status \in Terminal \cup {"RUNNING"}
                                 /\ row.status = "RUNNING" =>
                                       /\ row.worker = WorkerOf[s]
                                       /\ row.lease >= slot'[s].deadline - CallLag
      BY DEF BeliefIsSound
    <3>1. CASE slot'[s].deadline = slot[s].deadline
      <4>1. Renewed => LeaseLen - b.lag >= slot[s].deadline - CallLag
        BY <2>0 DEF Renewed, BeliefIsSound
      <4> QED BY <2>b, <2>c, <3>1, <4>1 DEF BeliefIsSound
    <3>2. CASE s = b.slot /\ slot'[s].deadline = LeaseLen - b.lag /\ Renews
      BY <2>0, <2>b, <2>c, <3>2 DEF Renews, Renewed, Listening, FenceIsExact
    <3> QED BY <2>c, <3>1, <3>2
  <2> QED BY ONLY <2>1, <2>2, <2>3, <2>4, <2>5, <2>6, <2>7 DEF Consistent
<1>4. ASSUME NEW w \in Workers, Crash(w) PROVE Consistent'
  BY <1>4
    DEF Crash, NoStrandedPending, AbsentIsFresh, ClaimsCounted, ClaimsDistinct,
        FenceIsExact, RetryIsCurrent, SweepIsCurrent, BeliefIsSound
<1>5. CASE SweepStep
  <2>1. CASE SweepReadRetryable
    <3>1. NoStrandedPending' /\ AbsentIsFresh' /\ ClaimsCounted'
      BY <2>1 DEF SweepReadRetryable, Stale, NoStrandedPending, AbsentIsFresh, ClaimsCounted
    <3>2. ClaimsDistinct' /\ RetryIsCurrent'
      BY <2>1 DEF SweepReadRetryable, Stale, ClaimsDistinct, RetryIsCurrent
    <3>3. FenceIsExact'
      BY <2>1 DEF SweepReadRetryable, Stale, FenceIsExact
    <3>4. SweepIsCurrent' /\ BeliefIsSound'
      BY <2>1 DEF SweepReadRetryable, Stale, SweepIsCurrent, BeliefIsSound
    <3> QED BY ONLY <3>1, <3>2, <3>3, <3>4 DEF Consistent
  <2>2. CASE SweepReadExhausted
    <3>1. NoStrandedPending' /\ AbsentIsFresh' /\ ClaimsCounted'
      BY <2>2 DEF SweepReadExhausted, Stale, NoStrandedPending, AbsentIsFresh, ClaimsCounted
    <3>2. ClaimsDistinct' /\ RetryIsCurrent'
      BY <2>2 DEF SweepReadExhausted, Stale, ClaimsDistinct, RetryIsCurrent
    <3>3. FenceIsExact'
      BY <2>2 DEF SweepReadExhausted, Stale, FenceIsExact
    <3>4. SweepIsCurrent' /\ BeliefIsSound'
      BY <2>2 DEF SweepReadExhausted, Stale, SweepIsCurrent, BeliefIsSound
    <3> QED BY ONLY <3>1, <3>2, <3>3, <3>4 DEF Consistent
  <2>3. CASE SweepRequeue
    <3>1. NoStrandedPending' /\ AbsentIsFresh' /\ ClaimsCounted'
      BY <2>3
        DEF SweepRequeue, Stale, Requeued, NoStrandedPending, AbsentIsFresh, ClaimsCounted,
            SweepIsCurrent
    <3>2. ClaimsDistinct' /\ RetryIsCurrent'
      BY <2>3 DEF SweepRequeue, Stale, Requeued, ClaimsDistinct, RetryIsCurrent
    <3>3. FenceIsExact'
      BY <2>3 DEF SweepRequeue, Stale, Requeued, FenceIsExact
    <3>4. SweepIsCurrent'
      BY <2>3 DEF SweepRequeue, Stale, Requeued, SweepIsCurrent
    <3>5. BeliefIsSound'
      BY <2>3 DEF SweepRequeue, Stale, Requeued, BeliefIsSound
    <3> QED BY ONLY <3>1, <3>2, <3>3, <3>4, <3>5 DEF Consistent
  <2>4. CASE SweepFailExhausted
    <3>1. NoStrandedPending' /\ AbsentIsFresh' /\ ClaimsCounted'
      BY <2>4
        DEF SweepFailExhausted, Stale, Failed, NoStrandedPending, AbsentIsFresh,
            ClaimsCounted
    <3>2. ClaimsDistinct' /\ RetryIsCurrent'
      BY <2>4 DEF SweepFailExhausted, Stale, Failed, ClaimsDistinct, RetryIsCurrent
    <3>3. FenceIsExact'
      BY <2>4 DEF SweepFailExhausted, Stale, Failed, FenceIsExact
    <3>4. SweepIsCurrent'
      BY <2>4 DEF SweepFailExhausted, Stale, Failed, SweepIsCurrent
    <3>5. BeliefIsSound'
      BY <2>4 DEF SweepFailExhausted, Stale, Failed, BeliefIsSound
    <3> QED BY ONLY <3>1, <3>2, <3>3, <3>4, <3>5 DEF Consistent
  <2>5. CASE SweepFails
    <3>1. NoStrandedPending' /\ AbsentIsFresh' /\ ClaimsCounted'
      BY <2>5 DEF SweepFails, NoStrandedPending, AbsentIsFresh, ClaimsCounted
    <3>2. ClaimsDistinct' /\ RetryIsCurrent'
      BY <2>5 DEF SweepFails, ClaimsDistinct, RetryIsCurrent
    <3>3. FenceIsExact'
      BY <2>5 DEF SweepFails, FenceIsExact
    <3>4. SweepIsCurrent' /\ BeliefIsSound'
      BY <2>5 DEF SweepFails, SweepIsCurrent, BeliefIsSound
    <3> QED BY ONLY <3>1, <3>2, <3>3, <3>4 DEF Consistent
  <2> QED BY ONLY <1>5, <2>1, <2>2, <2>3, <2>4, <2>5 DEF SweepStep
<1>6. CASE Tick
  <2>1. /\ \A j \in Jobs : /\ jobs'[j].status = jobs[j].status
                           /\ jobs'[j].attempts = jobs[j].attempts
                           /\ jobs'[j].worker = jobs[j].worker
                           /\ jobs[j].status = "RUNNING" =>
                                 \/ jobs'[j].lease = jobs[j].lease - 1
                                 \/ /\ jobs'[j].lease = jobs[j].lease
                                    /\ jobs[j].lease <= Expired
    BY <1>6 DEF Tick, TickRow, Down, Expired
  <2>2. \A s \in Slots : /\ slot'[s].pc = slot[s].pc /\ slot'[s].job = slot[s].job
                         /\ slot'[s].attempt = slot[s].attempt
                         /\ slot'[s].lost = slot[s].lost
                         /\ slot'[s].canRetry = slot[s].canRetry
    BY <1>6 DEF Tick, TickSlot
  <2>3. NoStrandedPending' /\ AbsentIsFresh' /\ ClaimsCounted' /\ ClaimsDistinct'
    BY <2>1, <2>2 DEF NoStrandedPending, AbsentIsFresh, ClaimsCounted, ClaimsDistinct
  <2>4. FenceIsExact' /\ RetryIsCurrent'
    BY <2>1, <2>2 DEF FenceIsExact, RetryIsCurrent
  <2>5. SweepIsCurrent'
    <3>1. /\ sweep'.retryable = sweep.retryable /\ sweep'.pc = sweep.pc
          /\ \/ sweep'.lag = sweep.lag + 1
             \/ sweep'.lag = sweep.lag /\ sweep.lag >= TooLate
             \/ sweep'.lag = sweep.lag /\ sweep.pc = "idle"
      BY <1>6 DEF Tick, Up, TooLate
    <3> QED BY <2>1, <3>1 DEF TooLate, SweepIsCurrent
  <2>6. BeliefIsSound'
    <3> SUFFICES ASSUME NEW s \in Slots
                 PROVE  /\ slot'[s].deadline <= LeaseLen
                        /\ Believes(s)' =>
                              LET row == jobs'[slot'[s].job]
                              IN /\ row.attempts = slot'[s].attempt
                                 /\ row.status \in Terminal \cup {"RUNNING"}
                                 /\ row.status = "RUNNING" =>
                                       /\ row.worker = WorkerOf[s]
                                       /\ row.lease >= slot'[s].deadline - CallLag
      BY DEF BeliefIsSound
    <3>1. /\ slot'[s].deadline <= slot[s].deadline
          /\ slot[s].pc = "running" /\ slot'[s].deadline > 0
                => slot'[s].deadline = slot[s].deadline - 1
      BY <1>6 DEF Tick, TickSlot, Down
    <3>2. slot[s].deadline <= LeaseLen
      BY DEF BeliefIsSound
    <3>3. CASE ~Believes(s)'
      BY <3>2, <3>1, <3>3
    <3>4. CASE Believes(s)'
      <4>1. Believes(s) /\ slot'[s].deadline = slot[s].deadline - 1 /\ slot[s].job \in Jobs
        BY <2>2, <3>1, <3>4
      <4>2. LET row == jobs[slot[s].job]
            IN /\ row.attempts = slot[s].attempt
               /\ row.status \in Terminal \cup {"RUNNING"}
               /\ row.status = "RUNNING" => /\ row.worker = WorkerOf[s]
                                            /\ row.lease >= slot[s].deadline - CallLag
                                            /\ row.lease > Expired
        BY <4>1 DEF Expired, BeliefIsSound
      <4>3. jobs'[slot[s].job] \in Row /\ jobs[slot[s].job] \in Row
        BY <4>1
      <4> QED BY <2>1, <2>2, <3>2, <3>1, <4>1, <4>2, <4>3
    <3> QED BY <3>3, <3>4
  <2> QED BY <2>3, <2>4, <2>5, <2>6
<1>7. CASE UNCHANGED vars
  BY <1>7
    DEF vars, NoStrandedPending, AbsentIsFresh, ClaimsCounted, ClaimsDistinct, FenceIsExact,
        RetryIsCurrent, SweepIsCurrent, BeliefIsSound
<1> QED BY ONLY <1>1, <1>2, <1>3, <1>4, <1>5, <1>6, <1>7, [Next]_vars DEF Next

\* The empty table, the idle slots and the idle sweep satisfy the invariant.
LEMMA InitInv == Init => IInv
<1> SUFFICES ASSUME Init PROVE IInv
  OBVIOUS
<1> USE ConstantsAssumption, LagAssumption
<1> USE DEF Init, IdleSlot, IdleSweep, RowOf, Busy, Settling
<1>1. TypeOK
  BY DEF TypeOK, Row, Slot, Sweep, SlotPcs, SweepPcs, Statuses
<1>2. NoStrandedPending /\ AbsentIsFresh
  BY DEF NoStrandedPending, AbsentIsFresh
<1>3. ClaimsCounted /\ ClaimsDistinct /\ FenceIsExact
  BY DEF ClaimsCounted, ClaimsDistinct, FenceIsExact
<1>4. RetryIsCurrent /\ SweepIsCurrent
  BY DEF RetryIsCurrent, SweepIsCurrent
<1>5. BeliefIsSound
  BY DEF BeliefIsSound, Believes, Running
<1> QED BY <1>1, <1>2, <1>3, <1>4, <1>5 DEF IInv, Consistent

\* The inductive invariant holds in every state, when workerIds fence.
LEMMA Invariance == FencedIds => (Spec => []IInv)
<1> SUFFICES ASSUME FencedIds PROVE Spec => []IInv
  OBVIOUS
<1>1. IInv /\ [Next]_vars => IInv'
  BY InvStep
<1> QED BY <1>1, InitInv, PTL DEF Spec

-----------------------------------------------------------------------------
\* Two slots that believe in their leases run different jobs: each belief makes
\* its own attempt the row's latest, and attempts are distinct.
LEMMA InvExclusive == IInv => ExclusiveExecution
BY DEF IInv, Consistent, ClaimsCounted, ClaimsDistinct, BeliefIsSound,
       ExclusiveExecution, Believes, Running, Busy

\* Every variable of the queue has its type in every reachable state, whatever
\* the processes share.
THEOREM TypeCorrect == Spec => []TypeOK
<1>1. Init => TypeOK
  BY InitInv DEF IInv
<1> QED BY <1>1, TypeStep, PTL DEF Spec

\* failJob and recoverStaleRunningJobs never strand a row: what they read before
\* their update still holds when it finds the row.
THEOREM NoStranded == FencedIds => (Spec => []NoStrandedPending)
<1> SUFFICES ASSUME FencedIds PROVE Spec => []NoStrandedPending
  OBVIOUS
<1>1. IInv => NoStrandedPending
  BY DEF IInv, Consistent
<1>2. Spec => []IInv
  BY Invariance
<1> QED BY <1>1, <1>2, PTL

\* runWithLeaseHeartbeat: at most one run of a job believes in its lease.
THEOREM Exclusive == FencedIds => (Spec => []ExclusiveExecution)
<1> SUFFICES ASSUME FencedIds PROVE Spec => []ExclusiveExecution
  OBVIOUS
<1>1. Spec => []IInv
  BY Invariance
<1> QED BY <1>1, InvExclusive, PTL

\* completeJob, failJob and failJobTerminal only ever settle the attempt that
\* their caller ran.
THEOREM OwnAttempt == FencedIds => (Spec => SettlesOwnAttempt)
<1> SUFFICES ASSUME FencedIds PROVE Spec => SettlesOwnAttempt
  OBVIOUS
<1> DEFINE Own == \A s \in Slots :
                     slot[s].pc \in Settling /\ slot'[s].pc = "idle" /\ jobs' # jobs
                        => jobs[slot[s].job].attempts = slot[s].attempt
<1>1. ASSUME IInv, IInv', [Next]_vars PROVE [Own]_vars
  <2> SUFFICES ASSUME Next, NEW s \in Slots, slot[s].pc \in Settling,
                      slot'[s].pc = "idle", jobs' # jobs
               PROVE  Holds(s)
    BY <1>1 DEF IInv, Consistent, FenceIsExact, Busy
  <2>0. slot \in [Slots -> Slot] /\ slot' \in [Slots -> Slot] /\ beats \subseteq Beat
    BY <1>1 DEF IInv, TypeOK
  <2>1. ~ \E j \in Jobs : JobStep(j)
    BY DEF JobStep, Enqueue, Cancel, Abandon, Settling
  <2>2. ASSUME NEW t \in Slots, SlotStep(t) PROVE Holds(s)
    <3>1. CASE Complete(t)      BY <2>0, <3>1 DEF Complete, Settling
    <3>2. CASE FailTerminal(t)  BY <2>0, <3>2 DEF FailTerminal, Settling
    <3>3. CASE FailWrite(t)     BY <2>0, <3>3 DEF FailWrite, Settling
    <3>4. CASE ClaimTake(t)
      BY <2>0, <3>4 DEF ClaimTake, ReadyToTake, Settling
    <3> QED BY <2>2, <3>1, <3>2, <3>3, <3>4
            DEF SlotStep, ClaimBegin, ClaimCount, ClaimCapped, ClaimNone, ClaimFails,
                BeatSend, ExpiryFires, RunReturns, RunThrows, RunLost, FailRead, SettleFails
  <2>3. ASSUME NEW b \in beats PROVE ~BeatStep(b)
    <3>1. b \in Beat /\ b.slot \in Slots  BY <2>0 DEF Beat
    <3>2. LeaseLost(slot[b.slot]).pc = slot[b.slot].pc  BY DEF LeaseLost
    <3>3. ~BeatRenews(b)   BY <2>0, <3>1 DEF BeatRenews, Slot, Settling
    <3>4. ~BeatLoses(b)    BY <2>0, <3>1, <3>2 DEF BeatLoses, Settling
    <3>5. ~BeatUnheard(b)  BY DEF BeatUnheard, Settling
    <3>6. ~BeatFails(b)    BY DEF BeatFails
    <3> QED BY <3>3, <3>4, <3>5, <3>6 DEF BeatStep
  <2>4. ~ \E w \in Workers : Crash(w)
    BY DEF Crash
  <2>5. ~SweepStep
    BY DEF SweepStep, SweepReadRetryable, SweepReadExhausted, SweepRequeue,
           SweepFailExhausted, SweepFails, Settling
  <2>6. ~Tick
    BY DEF Tick, TickSlot, Settling
  <2> QED BY <2>1, <2>2, <2>3, <2>4, <2>5, <2>6 DEF Next
<1>2. Spec => []IInv
  BY Invariance
<1> QED BY <1>1, <1>2, PTL DEF Spec, SettlesOwnAttempt

\* A settled row is never written again, by late workers, heartbeats, claims,
\* cancellation or the sweep.
THEOREM SettledStays == Spec => SettledForGood
<1> DEFINE Kept == \A j \in Jobs : jobs[j].status \in Terminal => jobs'[j] = jobs[j]
<1>1. ASSUME TypeOK, [Next]_vars PROVE [Kept]_vars
  <2> SUFFICES ASSUME Next, NEW j \in Jobs, jobs[j].status \in Terminal
               PROVE  jobs'[j] = jobs[j]
    BY <1>1
  <2>0. /\ jobs \in [Jobs -> Row] /\ slot \in [Slots -> Slot] /\ beats \subseteq Beat
        /\ \A s \in Slots : Busy(s) => slot[s].job \in Jobs
    BY <1>1 DEF TypeOK
  <2> USE DEF Terminal, Fenced, Holds
  <2>1. ASSUME NEW k \in Jobs, JobStep(k) PROVE jobs'[j] = jobs[j]
    BY <2>0, <2>1 DEF JobStep, Enqueue, Cancel, Abandon
  <2>2. ASSUME NEW s \in Slots, SlotStep(s) PROVE jobs'[j] = jobs[j]
    <3>1. CASE Complete(s)      BY <2>0, <3>1 DEF Complete
    <3>2. CASE FailTerminal(s)  BY <2>0, <3>2 DEF FailTerminal
    <3>3. CASE FailWrite(s)     BY <2>0, <3>3 DEF FailWrite
    <3>4. CASE ClaimTake(s)     BY <2>0, <3>4 DEF ClaimTake, Eligible, Claimable
    <3> QED BY <2>2, <3>1, <3>2, <3>3, <3>4
            DEF SlotStep, ClaimBegin, ClaimCount, ClaimCapped, ClaimNone, ClaimFails,
                BeatSend, ExpiryFires, RunReturns, RunThrows, RunLost, FailRead, SettleFails
  <2>3. ASSUME NEW b \in beats, BeatStep(b) PROVE jobs'[j] = jobs[j]
    BY <2>0, <2>3 DEF BeatStep, BeatRenews, BeatLoses, BeatUnheard, BeatFails, RenewLease
  <2>4. ASSUME NEW w \in Workers, Crash(w) PROVE jobs'[j] = jobs[j]
    BY <2>4 DEF Crash
  <2>5. CASE SweepStep
    BY <2>5 DEF SweepStep, SweepReadRetryable, SweepReadExhausted, SweepRequeue,
                SweepFailExhausted, SweepFails, Stale
  <2>6. CASE Tick
    BY <2>0, <2>6 DEF Tick, TickRow, RowOf, Row
  <2> QED BY <2>1, <2>2, <2>3, <2>4, <2>5, <2>6 DEF Next
<1> QED BY <1>1, TypeCorrect, PTL DEF Spec, SettledForGood
-----------------------------------------------------------------------------
\* What a step may do to a row, in the columns a caller can see.
RowMoves(j) ==
    LET old == jobs[j]
        new == jobs'[j]
    IN \/ new.status = old.status /\ new.attempts = old.attempts
       \/ old.status = "ABSENT" /\ new.status = "PENDING" /\ new.attempts = old.attempts
       \/ /\ old.status \in {"PENDING", "RUNNING"} /\ old.attempts < MaxAttempts[j]
          /\ new.status = "RUNNING" /\ new.attempts = old.attempts + 1
       \/ /\ old.status = "RUNNING" /\ old.attempts < MaxAttempts[j]
          /\ new.status = "PENDING" /\ new.attempts = old.attempts
       \/ /\ old.status \in {"PENDING", "RUNNING"} /\ new.status \in Terminal
          /\ new.attempts = old.attempts

\* Every step moves every row as AttemptedWork allows.  The two writers that act
\* on an earlier read, failJob and the sweep, need RetryIsCurrent and
\* SweepIsCurrent.
LEMMA RowStep == ASSUME IInv, [Next]_vars, NEW j \in Jobs PROVE RowMoves(j)
<1>0. /\ jobs \in [Jobs -> Row] /\ slot \in [Slots -> Slot] /\ beats \subseteq Beat
      /\ \A s \in Slots : Busy(s) => slot[s].job \in Jobs
  BY DEF IInv, TypeOK
<1> USE DEF RowMoves
<1>1. ASSUME NEW k \in Jobs, JobStep(k) PROVE RowMoves(j)
  <2>1. CASE Enqueue(k)  BY <1>0, <2>1 DEF Enqueue, RowOf, Row, IInv, Consistent, AbsentIsFresh
  <2>2. CASE Cancel(k)   BY <1>0, <2>2 DEF Cancel, RowOf, Terminal, Row
  <2>3. CASE Abandon(k)  BY <1>0, <2>3 DEF Abandon, RowOf, Terminal, Row
  <2> QED BY <1>1, <2>1, <2>2, <2>3 DEF JobStep
<1>2. ASSUME NEW s \in Slots, SlotStep(s) PROVE RowMoves(j)
  <2>1. CASE Complete(s)
    BY <1>0, <2>1 DEF Complete, Holds, Fenced, RowOf, Terminal, Row
  <2>2. CASE FailTerminal(s)
    BY <1>0, <2>2 DEF FailTerminal, Failed, Holds, Fenced, RowOf, Terminal, Row
  <2>3. CASE FailWrite(s)
    <3>1. slot[s].job \in Jobs
      BY <1>0, <2>3 DEF FailWrite, Busy, Settling
    <3>2. slot[s].canRetry /\ Holds(s)
             => jobs[slot[s].job].attempts < MaxAttempts[slot[s].job]
      BY <2>3 DEF FailWrite, IInv, Consistent, RetryIsCurrent
    <3> QED
      BY <1>0, <2>3, <3>1, <3>2
      DEF FailWrite, Failed, Requeued, Holds, Fenced, RowOf, Terminal, Row
  <2>4. CASE ClaimTake(s)
    BY <1>0, <2>4 DEF ClaimTake, Eligible, Claimable, RowOf, Row
  <2> QED BY <1>2, <2>1, <2>2, <2>3, <2>4
          DEF SlotStep, ClaimBegin, ClaimCount, ClaimCapped, ClaimNone, ClaimFails,
              BeatSend, ExpiryFires, RunReturns, RunThrows, RunLost, FailRead, SettleFails
<1>3. ASSUME NEW b \in beats, BeatStep(b) PROVE RowMoves(j)
  BY <1>0, <1>3 DEF BeatStep, BeatRenews, BeatLoses, BeatUnheard, BeatFails,
                    RenewLease, RowOf, Row
<1>4. ASSUME NEW w \in Workers, Crash(w) PROVE RowMoves(j)
  BY <1>4 DEF Crash
<1>5. CASE SweepStep
  <2>1. CASE SweepRequeue
    <3>1. j \in sweep.retryable /\ j \in Stale(sweep.lag)
             => jobs[j].attempts < MaxAttempts[j]
      BY <2>1 DEF SweepRequeue, Stale, IInv, Consistent, SweepIsCurrent
    <3> QED BY <1>0, <2>1, <3>1 DEF SweepRequeue, Stale, Requeued, RowOf, Row
  <2>2. CASE SweepFailExhausted
    BY <1>0, <2>2 DEF SweepFailExhausted, Stale, Failed, RowOf, Terminal, Row
  <2> QED BY <1>5, <2>1, <2>2
          DEF SweepStep, SweepReadRetryable, SweepReadExhausted, SweepFails
<1>6. CASE Tick
  BY <1>0, <1>6 DEF Tick, TickRow, RowOf, Row
<1>7. CASE UNCHANGED vars
  BY <1>7 DEF vars
<1> QED BY <1>1, <1>2, <1>3, <1>4, <1>5, <1>6, <1>7 DEF Next

\* The queue implements AttemptedWork, when workerIds fence: each step of the
\* table, the workers and the sweep is a step of the abstract job or leaves it
\* as it is.
THEOREM Implements == FencedIds => (Spec => ImplementsWork)
<1> SUFFICES ASSUME FencedIds PROVE Spec => ImplementsWork
  OBVIOUS
<1>1. Init => Work!Init
  BY DEF Init, Work!Init, PhaseOf, RowOf
<1>2. ASSUME IInv, IInv', [Next]_vars PROVE [Work!Next]_(Work!vars)
  <2>1. jobs \in [Jobs -> Row] /\ jobs' \in [Jobs -> Row]
    BY <1>2 DEF IInv, TypeOK
  <2>2. \A k \in Jobs : PhaseOf(jobs'[k].status) \in Work!Phases
    BY <2>1 DEF Row, Statuses, Terminal, PhaseOf, Work!Phases
  <2>3. ASSUME NEW k \in Jobs
        PROVE  Work!Submit(k) \/ Work!Try(k) \/ Work!GiveBack(k)
                  \/ Work!Settle(k) \/ Work!Stays(k)
    <3>1. RowMoves(k)
      BY <1>2, RowStep
    <3> QED
      BY <2>1, <3>1
      DEF RowMoves, Row, Terminal, PhaseOf, Work!Submit, Work!Try, Work!GiveBack,
          Work!Settle, Work!Stays
  <2>4. \A k \in Jobs : jobs'[k].attempts \in Nat
    BY <2>1 DEF Row
  <2> QED BY <2>2, <2>3, <2>4 DEF Work!Next
<1>3. Spec => []IInv
  BY Invariance
<1> QED BY <1>1, <1>2, <1>3, PTL DEF Spec, ImplementsWork, Work!Spec
=============================================================================

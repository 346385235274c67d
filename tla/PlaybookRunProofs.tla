-------------------------- MODULE PlaybookRunProofs --------------------------
(***************************************************************************)
(* Proofs about PlaybookRun, for every set of workers, every playbook and  *)
(* every number of retries and of attempts.                                *)
(*                                                                         *)
(* Only the holder of the lock is in the chain, so what a worker knows     *)
(* there (InTheChain) is disturbed by its own steps alone: every other     *)
(* step of a worker leaves it outside the chain and is an instance of one  *)
(* shape, Aside.                                                           *)
(***************************************************************************)
EXTENDS PlaybookRun, FiniteSetTheorems, NaturalsInduction, TLAPS

\* A job that can be claimed has an attempt left.
AttemptLeft == job.status = "PENDING" => job.attempts < MaxAttempts

\* A worker is in the chain exactly while it holds the lock.
LockHeld == \A w \in Workers : worker[w].pc \in InChain <=> lock = w

\* A result "ok", saved or in the memory of a worker, is of a step that succeeded.
OkIsTrue ==
    \A s \in Steps : /\ run.results[s].status = "ok" => Succeeded(s)
                     /\ \A w \in Workers : worker[w].results[s].status = "ok" => Succeeded(s)

\* A worker that is about to complete the job has seen the run completed.
OutcomeIsTrue ==
    \A w \in Workers :
        At(w, "settle") /\ worker[w].outcome = "completed" => run.status = "completed"

\* A command was created only after the commands of all earlier attempts had failed.
CommandsInOrder ==
    \A s \in Commands \ loose : \A t, u \in 1 .. Tries :
        t < u /\ command[s][u] # "none" => command[s][t] = "failed"

\* The saved results mark every webhook that was fired with an unknown outcome.
FiredIsMarked == \A s \in Webhooks \ loose : flight[s] # {} => run.results[s].fired

\* What the worker in the chain knows: how far its rounds have come, and the step at work,
RoundsOf(w) ==
    /\ worker[w].try <= worker[w].round
    /\ At(w, "gate") => worker[w].try < worker[w].round
    /\ worker[w].pc \in {"dispatch", "create", "persist", "wait"} => worker[w].try >= 1
    /\ worker[w].pc \in {"create", "persist", "wait"} => Step(w) \in Commands
    /\ worker[w].pc \in {"persist", "wait"} => Mine(w).cmd # 0
    /\ worker[w].pc \in {"confirm", "fire", "answer"} => Step(w) \in Webhooks

\* that the steps before it have succeeded,
OrderOf(w) ==
    /\ \A r \in 1 .. Step(w) - 1 : worker[w].results[r].status = "ok"
    /\ At(w, "succeed") => Succeeded(Step(w))

\* what is saved,
SavedOf(w) ==
    /\ \A r \in Steps \ {Step(w)} : worker[w].results[r] = run.results[r]
    /\ worker[w].pc \in {"confirm", "fire", "answer", "finalize"} => worker[w].results = run.results

\* how the commands of its earlier attempts ended,
CommandsOfStep(w) ==
    Step(w) \in Commands \ loose /\ ~At(w, "finalize") =>
        \A t \in 1 .. Tries : t < worker[w].try \/ (At(w, "gate") /\ t = worker[w].try)
                                => command[Step(w)][t] = "failed"

\* and whether its webhook has been fired.
WebhookOfStep(w) ==
    Step(w) \in Webhooks \ loose /\ ~At(w, "finalize") =>
        /\ flight[Step(w)] # {} => Mine(w).fired
        /\ worker[w].pc \in {"gate", "dispatch"} /\ worker[w].round > 1 => ~Mine(w).fired
        /\ worker[w].pc \in {"confirm", "fire", "answer"} => Mine(w).fired
        /\ worker[w].pc \in {"confirm", "fire", "succeed"} => flight[Step(w)] = {}
        /\ At(w, "answer") => flight[Step(w)] \subseteq {w}

Chain(w) == RoundsOf(w) /\ OrderOf(w) /\ SavedOf(w) /\ CommandsOfStep(w) /\ WebhookOfStep(w)
InTheChain == \A w \in Workers : worker[w].pc \in InChain => Chain(w)

IInv ==
    /\ TypeOK /\ AttemptLeft /\ LockHeld /\ OkIsTrue /\ OutcomeIsTrue
    /\ CommandsInOrder /\ FiredIsMarked /\ InTheChain /\ StepsInOrder /\ JobTellsRun

-----------------------------------------------------------------------------
\* Constants, and the fields of a worker.

LEMMA Numbers ==
    /\ Cardinality(Steps) \in Nat \ {0} /\ Steps = 1 .. Cardinality(Steps)
    /\ 1 \in Steps /\ Steps \subseteq Nat \ {0}
    /\ Commands \subseteq Steps /\ Webhooks \subseteq Steps
    /\ \A s \in Steps : s \in Webhooks <=> s \notin Commands
    /\ Tries \in Nat \ {0} /\ MaxAttempts \in Nat \ {0}
    /\ Nobody \notin Workers
<1>1. /\ Cardinality(Steps) \in Nat \ {0} /\ Steps = 1 .. Cardinality(Steps)
      /\ Tries \in Nat \ {0} /\ MaxAttempts \in Nat \ {0} /\ Nobody \notin Workers
  BY PlaybookAssumption
<1>2. 1 \in Steps /\ Steps \subseteq Nat \ {0}
  BY <1>1
<1>3. /\ Commands \subseteq Steps /\ Webhooks \subseteq Steps
      /\ \A s \in Steps : s \in Webhooks <=> s \notin Commands
  BY PlaybookAssumption DEF Steps
<1> QED BY <1>1, <1>2, <1>3

LEMMA Blank ==
    /\ NoResult \in StepResult /\ NoResult.status = "none" /\ NoResult.cmd = 0 /\ ~NoResult.fired
    /\ NoResults \in Results /\ \A s \in Steps : NoResults[s] = NoResult
    /\ IdleWorker \in Worker /\ IdleWorker.pc = "idle" /\ IdleWorker.results = NoResults
<1>1. NoResult \in StepResult /\ NoResult.status = "none" /\ NoResult.cmd = 0 /\ ~NoResult.fired
  BY Numbers DEF NoResult, StepResult
<1>2. NoResults \in Results /\ \A s \in Steps : NoResults[s] = NoResult
  BY <1>1 DEF NoResults, Results
<1> QED BY <1>1, <1>2, Numbers DEF IdleWorker, Worker, Outside, InChain, Terminal

LEMMA Fields ==
    ASSUME TypeOK, NEW w \in Workers
    PROVE  /\ worker[w] \in Worker /\ worker[w].pc \in Outside \cup InChain
           /\ worker[w].results \in Results /\ worker[w].step \in Steps
           /\ worker[w].round \in 1 .. Tries /\ worker[w].try \in 0 .. Tries
           /\ worker[w].aborted \in BOOLEAN /\ worker[w].attempts \in 0 .. MaxAttempts
           /\ worker[w].outcome \in Terminal
           /\ Step(w) \in Steps /\ Mine(w) \in StepResult
           /\ Mine(w).cmd \in 0 .. Tries /\ Mine(w).fired \in BOOLEAN
           /\ Mine(w).status \in {"none", "running", "ok", "failed"}
<1>1. worker[w] \in Worker
  BY DEF TypeOK
<1>2. worker[w].results \in [Steps -> StepResult] /\ worker[w].step \in Steps
  BY <1>1 DEF Worker, Results
<1>3. Mine(w) \in StepResult
  BY <1>2 DEF Mine, Step
<1> QED BY <1>1, <1>2, <1>3 DEF Worker, StepResult, Step, Results

LEMMA RunFields ==
    ASSUME TypeOK
    PROVE  /\ run.status \in {"queued", "running"} \cup Terminal /\ run.results \in Results
           /\ \A s \in Steps : run.results[s] \in StepResult
           /\ \A x \in Results : [run EXCEPT !.results = x]
                  \in [status : {"queued", "running"} \cup Terminal, results : Results]
           /\ \A x \in Results : [run EXCEPT !.results = x].results = x
                  /\ [run EXCEPT !.results = x].status = run.status
           /\ \A x \in {"queued", "running"} \cup Terminal : [run EXCEPT !.status = x]
                  \in [status : {"queued", "running"} \cup Terminal, results : Results]
           /\ \A x \in {"queued", "running"} \cup Terminal : [run EXCEPT !.status = x].status = x
                  /\ [run EXCEPT !.status = x].results = run.results
  BY DEF TypeOK, Results

LEMMA Setting ==
    ASSUME TypeOK, NEW w \in Workers, NEW result \in StepResult
    PROVE  /\ Set(w, result) \in Results /\ Set(w, result)[Step(w)] = result
           /\ \A r \in Steps \ {Step(w)} : Set(w, result)[r] = worker[w].results[r]
  BY Fields DEF Set, Results

\* The step a worker enters is the first that has not succeeded.
LEMMA FirstPending ==
    ASSUME NEW results \in Results, Pending(results) # {}
    PROVE  /\ Min(Pending(results)) \in Steps
           /\ \A r \in 1 .. Min(Pending(results)) - 1 : results[r].status = "ok"
<1> DEFINE P == Pending(results)
<1>1. P # {} /\ P \subseteq Nat /\ P \subseteq Steps
  BY Numbers DEF Pending
<1>2. \E n \in P : \A m \in P : ~(<<m, n>> \in OpToRel(<, Nat))
  BY <1>1, NatLessThanWellFounded, WFMin
<1> HIDE DEF P
<1>3. \E n \in P : \A m \in P : ~(m < n)
  BY <1>1, <1>2 DEF OpToRel
<1>6. \E n \in P : \A m \in P : n <= m
  BY <1>1, <1>3
<1>4. Min(P) \in P /\ \A m \in P : Min(P) <= m
  BY <1>6 DEF Min
<1>5. ASSUME NEW r \in 1 .. Min(P) - 1 PROVE results[r].status = "ok"
  <2>0. Min(P) \in 1 .. Cardinality(Steps) /\ Cardinality(Steps) \in Nat
    BY <1>1, <1>4, Numbers
  <2>1. r \in 1 .. Cardinality(Steps) /\ r \notin P
    BY <1>4, <2>0
  <2> QED BY <2>1, Numbers DEF Pending, P
<1> QED BY <1>1, <1>4, <1>5 DEF P

-----------------------------------------------------------------------------
\* What a step does to the record of its worker.

Others(w) == \A v \in Workers \ {w} : worker'[v] = worker[v]
Typed == worker' \in [Workers -> Worker]

LEMMA Going ==
    ASSUME TypeOK, NEW w \in Workers, NEW pc \in Outside \cup InChain, Goto(w, pc)
    PROVE  /\ Typed /\ Others(w) /\ worker'[w].pc = pc
           /\ worker'[w].results = worker[w].results /\ worker'[w].step = worker[w].step
           /\ worker'[w].round = worker[w].round /\ worker'[w].try = worker[w].try
           /\ worker'[w].outcome = worker[w].outcome
<1> DEFINE rec == [worker[w] EXCEPT !.pc = pc]
<1>1. worker' = [worker EXCEPT ![w] = rec] /\ worker[w] \in Worker
  BY DEF Goto, TypeOK
<1>2. /\ rec \in Worker /\ rec.pc = pc /\ rec.results = worker[w].results
      /\ rec.step = worker[w].step /\ rec.round = worker[w].round /\ rec.try = worker[w].try
      /\ rec.outcome = worker[w].outcome
  BY <1>1 DEF Worker
<1> HIDE DEF rec
<1> QED BY <1>1, <1>2 DEF TypeOK, Typed, Others

LEMMA Keeping ==
    ASSUME TypeOK, NEW w \in Workers, NEW pc \in Outside \cup InChain, NEW results \in Results,
           worker' = [worker EXCEPT ![w] = [worker[w] EXCEPT !.results = results, !.pc = pc]]
    PROVE  /\ Typed /\ Others(w) /\ worker'[w].pc = pc
           /\ worker'[w].results = results /\ worker'[w].step = worker[w].step
           /\ worker'[w].round = worker[w].round /\ worker'[w].try = worker[w].try
<1> DEFINE rec == [worker[w] EXCEPT !.results = results, !.pc = pc]
<1>1. worker' = [worker EXCEPT ![w] = rec] /\ worker[w] \in Worker
  BY DEF TypeOK
<1>2. /\ rec \in Worker /\ rec.pc = pc /\ rec.results = results /\ rec.step = worker[w].step
      /\ rec.round = worker[w].round /\ rec.try = worker[w].try
  BY <1>1 DEF Worker
<1> HIDE DEF rec
<1> QED BY <1>1, <1>2 DEF TypeOK, Typed, Others

LEMMA Idling ==
    ASSUME TypeOK, NEW w \in Workers, worker' = [worker EXCEPT ![w] = IdleWorker]
    PROVE  Typed /\ Others(w) /\ worker'[w] = IdleWorker
  BY Blank DEF TypeOK, Typed, Others

LEMMA Finishing ==
    ASSUME TypeOK, NEW w \in Workers, NEW outcome \in Terminal, Finish(w, outcome)
    PROVE  /\ Typed /\ Others(w) /\ worker'[w].pc = "settle" /\ worker'[w].outcome = outcome
           /\ worker'[w].results = worker[w].results
<1> DEFINE rec == [worker[w] EXCEPT !.pc = "settle", !.outcome = outcome]
<1>1. /\ worker' = [worker EXCEPT ![w] = rec] /\ worker[w] \in Worker
      /\ "settle" \in Outside \cup InChain
  BY DEF Finish, TypeOK, Outside
<1>2. /\ rec \in Worker /\ rec.pc = "settle" /\ rec.outcome = outcome
      /\ rec.results = worker[w].results
  BY <1>1 DEF Worker
<1> HIDE DEF rec
<1> QED BY <1>1, <1>2 DEF TypeOK, Typed, Others

LEMMA Entering ==
    ASSUME TypeOK, NEW w \in Workers, NEW results \in Results, Enter(w, results)
    PROVE  /\ Typed /\ Others(w) /\ worker'[w].results = results
           /\ worker'[w].round = 1 /\ worker'[w].try = 0 /\ worker'[w].step \in Steps
           /\ worker'[w].pc = IF Pending(results) = {} THEN "finalize" ELSE "gate"
           /\ \A r \in 1 .. worker'[w].step - 1 : results[r].status = "ok"
<1> DEFINE pc == IF Pending(results) = {} THEN "finalize" ELSE "gate"
           step == IF Pending(results) = {} THEN worker[w].step ELSE Min(Pending(results))
<1>1. pc \in InChain /\ step \in Steps
  BY FirstPending, Fields DEF InChain
<1>2. \A r \in 1 .. step - 1 : results[r].status = "ok"
  <2>1. CASE Pending(results) = {}
    BY <1>1, <2>1, Numbers DEF Pending
  <2> QED BY <2>1, FirstPending
<1> DEFINE rec == [worker[w] EXCEPT
              !.results = results, !.round = 1, !.try = 0, !.pc = pc, !.step = step]
<1>3. worker' = [worker EXCEPT ![w] = rec]
  BY DEF Enter
<1> HIDE DEF pc, step
<1>4. /\ Typed /\ Others(w) /\ worker'[w].results = results
      /\ worker'[w].round = 1 /\ worker'[w].try = 0 /\ worker'[w].step = step /\ worker'[w].pc = pc
  <2>1. 1 \in 1 .. Tries /\ 0 \in 0 .. Tries
    BY Numbers
  <2>2. /\ rec \in Worker /\ rec.results = results /\ rec.round = 1 /\ rec.try = 0
        /\ rec.step = step /\ rec.pc = pc
    BY <1>1, <2>1, ZenonT(60) DEF TypeOK, Worker
  <2> HIDE DEF rec
  <2> QED BY <1>3, <2>2 DEF TypeOK, Typed, Others
<1>5. worker'[w].pc = IF Pending(results) = {} THEN "finalize" ELSE "gate"
  BY <1>4 DEF pc
<1>6. \A r \in 1 .. worker'[w].step - 1 : results[r].status = "ok"
  BY <1>2, <1>4
<1> QED BY <1>1, <1>4, <1>5, <1>6

-----------------------------------------------------------------------------
\* The shapes of the steps that are not of the worker in the chain, and of those
\* with which it leaves.

\* What the invariant says but for the types and the job.
Kept ==
    LockHeld /\ OkIsTrue /\ CommandsInOrder /\ FiredIsMarked /\ InTheChain /\ StepsInOrder

\* The worker w ends outside the chain.
Aside(w) ==
    /\ Others(w) /\ worker'[w].pc \in Outside
    /\ worker'[w].results \in {worker[w].results, NoResults}
    /\ lock' = IF lock = w THEN Nobody ELSE lock
    /\ run'.results = run.results
    /\ run'.status = "completed" => run.status = "completed" \/ \A s \in Steps : Succeeded(s)
    /\ command' = command /\ done' = done /\ loose' = loose
    /\ \A s \in Webhooks : /\ flight'[s] = {} <=> flight[s] = {}
                           /\ \A v \in Workers \ {w} : flight[s] \subseteq {v} => flight'[s] \subseteq {v}

\* No worker moves.
Still ==
    /\ \A v \in Workers : /\ worker'[v].pc = worker[v].pc /\ worker'[v].results = worker[v].results
                          /\ worker'[v].step = worker[v].step /\ worker'[v].round = worker[v].round
                          /\ worker'[v].try = worker[v].try
    /\ lock' = lock /\ run'.results = run.results
    /\ run'.status = "completed" => run.status = "completed"
    /\ done' = done /\ flight' = flight /\ loose' = loose
    /\ \A s \in Commands : \A t \in 1 .. Tries :
          command'[s][t] = command[s][t] \/ (command[s][t] = "live" /\ command'[s][t] # "none")

LEMMA AsideKeeps ==
    ASSUME IInv, NEW w \in Workers, Aside(w)
    PROVE  Kept'
<1>1. Nobody \notin Workers /\ \A s \in Steps : s \in Webhooks <=> s \notin Commands
  BY Numbers
<1>2. LockHeld'
  <2>1. worker'[w].pc \notin InChain
    BY DEF Aside, Outside, InChain
  <2> QED BY <1>1, <2>1 DEF IInv, LockHeld, Aside, Others
<1>3. \A s : (Succeeded(s)' <=> Succeeded(s))
  BY DEF Aside, Succeeded
<1>4. \A s \in Steps : (Started(s)' <=> Started(s))
  BY <1>1 DEF Aside, Started
<1>5. OkIsTrue'
  BY <1>3, Blank DEF IInv, OkIsTrue, Aside, Others
<1>6. CommandsInOrder' /\ FiredIsMarked'
  BY DEF IInv, CommandsInOrder, FiredIsMarked, Aside
<1>7. StepsInOrder'
  <2>1. \A s \in Steps : Started(s)' => \A r \in 1 .. s - 1 : Succeeded(r)'
    BY <1>3, <1>4 DEF IInv, StepsInOrder
  <2>2. run'.status = "completed" => \A s \in Steps : Succeeded(s)'
    BY <1>3 DEF IInv, StepsInOrder, Aside
  <2> QED BY <2>1, <2>2 DEF StepsInOrder
<1>8. ASSUME NEW v \in Workers, worker'[v].pc \in InChain
      PROVE  Chain(v)'
  <2>1. v # w /\ worker'[v] = worker[v] /\ worker[v].pc \in InChain
    BY <1>8 DEF Aside, Others, Outside, InChain
  <2>2. RoundsOf(v) /\ OrderOf(v) /\ SavedOf(v) /\ CommandsOfStep(v) /\ WebhookOfStep(v)
    BY <2>1 DEF IInv, InTheChain, Chain
  <2>3. RoundsOf(v)'
    BY <2>1, <2>2 DEF RoundsOf, At, Step, Mine
  <2>4. OrderOf(v)'
    BY <1>3, <2>1, <2>2 DEF OrderOf, At, Step
  <2>5. SavedOf(v)'
    BY <2>1, <2>2 DEF SavedOf, Step, Aside
  <2>6. CommandsOfStep(v)'
    BY <2>1, <2>2 DEF CommandsOfStep, Step, At, Aside
  <2>7. WebhookOfStep(v)'
    BY <2>1, <2>2 DEF WebhookOfStep, Step, At, Mine, Aside
  <2> QED BY <2>3, <2>4, <2>5, <2>6, <2>7 DEF Chain
<1>9. InTheChain'
  BY <1>8 DEF InTheChain
<1> QED BY <1>2, <1>5, <1>6, <1>7, <1>9 DEF Kept

LEMMA StillKeeps ==
    ASSUME IInv, Still
    PROVE  Kept'
<1>1. LockHeld' /\ FiredIsMarked'
  BY DEF IInv, LockHeld, FiredIsMarked, Still
<1>2. /\ \A s \in Commands : \A t \in 1 .. Tries :
            /\ command[s][t] \in {"completed", "failed"} => command'[s][t] = command[s][t]
            /\ command'[s][t] # "none" => command[s][t] # "none"
      /\ done' = done /\ flight' = flight
  BY DEF Still
<1>3. \A s : Succeeded(s) => Succeeded(s)'
  BY <1>2 DEF Succeeded
<1>4. \A s : Started(s)' => Started(s)
  BY <1>2 DEF Started
<1>5. OkIsTrue'
  BY <1>3 DEF IInv, OkIsTrue, Still
<1>6. CommandsInOrder'
  BY <1>2 DEF IInv, CommandsInOrder, Still
<1>7. StepsInOrder'
  <2>1. \A s \in Steps : Started(s)' => \A r \in 1 .. s - 1 : Succeeded(r)'
    BY <1>3, <1>4 DEF IInv, StepsInOrder
  <2>2. run'.status = "completed" => \A s \in Steps : Succeeded(s)'
    BY <1>3 DEF IInv, StepsInOrder, Still
  <2> QED BY <2>1, <2>2 DEF StepsInOrder
<1>8. ASSUME NEW v \in Workers, worker'[v].pc \in InChain
      PROVE  Chain(v)'
  <2>1. /\ worker'[v].pc = worker[v].pc /\ worker'[v].results = worker[v].results
        /\ worker'[v].step = worker[v].step /\ worker'[v].round = worker[v].round
        /\ worker'[v].try = worker[v].try
    BY DEF Still
  <2>2. RoundsOf(v) /\ OrderOf(v) /\ SavedOf(v) /\ CommandsOfStep(v) /\ WebhookOfStep(v)
    BY <1>8, <2>1 DEF IInv, InTheChain, Chain
  <2>3. RoundsOf(v)'
    BY <2>1, <2>2 DEF RoundsOf, At, Step, Mine
  <2>4. OrderOf(v)'
    BY <1>3, <2>1, <2>2 DEF OrderOf, At, Step
  <2>5. SavedOf(v)'
    BY <2>1, <2>2 DEF SavedOf, Step, Still
  <2>6. CommandsOfStep(v)'
    BY <1>2, <2>1, <2>2 DEF CommandsOfStep, Step, At, Still
  <2>7. WebhookOfStep(v)'
    BY <2>1, <2>2 DEF WebhookOfStep, Step, At, Mine, Still
  <2> QED BY <2>3, <2>4, <2>5, <2>6, <2>7 DEF Chain
<1>9. InTheChain'
  BY <1>8 DEF InTheChain
<1> QED BY <1>1, <1>5, <1>6, <1>7, <1>9 DEF Kept

\* A worker drops its work, without a trace in the run, the commands and the webhooks.
LEMMA Dropping ==
    ASSUME IInv, NEW w \in Workers, Others(w), worker'[w].pc \in Outside,
           worker'[w].results \in {worker[w].results, NoResults},
           run'.results = run.results, run'.status = "completed" => run.status = "completed",
           command' = command, done' = done, loose' = loose, flight' = flight,
           Unlock(w) \/ (lock' = lock /\ worker[w].pc \in Outside)
    PROVE  Aside(w)
<1>1. lock' = IF lock = w THEN Nobody ELSE lock
  <2>1. CASE lock' = lock /\ worker[w].pc \in Outside
    BY <2>1 DEF IInv, LockHeld, Outside, InChain
  <2> QED BY <2>1 DEF Unlock
<1> QED BY <1>1 DEF Aside

LEMMA LosingTheLease ==
    ASSUME IInv, NEW w \in Workers, LeaseLost(w), run' = run, execution' = execution
    PROVE  Typed /\ Aside(w) /\ worker'[w].pc = "idle"
<1>1. Typed /\ Others(w) /\ worker'[w] = IdleWorker /\ Unlock(w)
  BY Idling DEF LeaseLost, IInv
<1> QED BY <1>1, Dropping, Blank DEF execution, Outside

LEMMA LeavingSteps ==
    ASSUME IInv, NEW w \in Workers,
           \/ ClaimJob(w) \/ Open(w) \/ (Lock(w) /\ ~Claimable) \/ RecordLeaseLost(w)
           \/ Finalize(w) \/ Settle(w) \/ Throws(w) \/ Failed(w) \/ FailJob(w) \/ Crash(w)
    PROVE  Typed /\ Aside(w)
<1> USE DEF execution
<1>0. TypeOK
  BY DEF IInv
<1>1. CASE ClaimJob(w)
  <2> DEFINE rec == [IdleWorker EXCEPT !.pc = "open", !.attempts = job.attempts + 1]
  <2>1. job.attempts + 1 \in 0 .. MaxAttempts
    BY <1>1, Numbers DEF ClaimJob, IInv, AttemptLeft, TypeOK
  <2>2. rec \in Worker /\ rec.pc = "open" /\ rec.results = NoResults
    BY <2>1, Blank DEF Worker, Outside
  <2>3. worker' = [worker EXCEPT ![w] = rec] /\ worker[w].pc = "idle"
    BY <1>1 DEF ClaimJob
  <2> HIDE DEF rec
  <2>4. Typed /\ Others(w) /\ worker'[w] = rec
    BY <1>0, <2>2, <2>3 DEF TypeOK, Typed, Others
  <2> QED BY <1>1, <2>2, <2>3, <2>4, Dropping DEF ClaimJob, Outside
<1>2. CASE Open(w) \/ (Lock(w) /\ ~Claimable)
  <2>1. worker[w].pc \in Outside /\ lock' = lock
    BY <1>2 DEF Open, Lock, At, Outside
  <2>2. /\ Typed /\ Others(w) /\ worker'[w].pc \in {"lock", "settle"}
        /\ worker'[w].results = worker[w].results
    <3>1. CASE Finish(w, run.status) /\ ~Claimable
      BY <1>0, <3>1, Finishing DEF Claimable
    <3>2. CASE Finish(w, "failed")
      BY <1>0, <3>2, Finishing DEF Terminal
    <3>3. CASE Goto(w, "lock")
      BY <1>0, <3>3, Going DEF Outside
    <3> QED BY <1>2, <3>1, <3>2, <3>3 DEF Open, Lock
  <2>3. run'.results = run.results /\ (run'.status = "completed" => run.status = "completed")
    BY <1>0, <1>2, RunFields DEF Open, Lock, MarkRunning, Terminal
  <2> QED BY <1>2, <2>1, <2>2, <2>3, Dropping DEF Open, Lock, Outside
<1>3. CASE RecordLeaseLost(w)
  BY <1>3, LosingTheLease DEF RecordLeaseLost
<1>4. CASE Finalize(w)
  <2> DEFINE status == IF Pending(worker[w].results) = {} THEN "completed" ELSE "failed"
  <2>1. worker[w].pc \in InChain /\ At(w, "finalize")
    BY <1>4 DEF Finalize, At, InChain
  <2>2. SavedOf(w) /\ worker[w].results = run.results
    BY <2>1 DEF IInv, InTheChain, Chain, SavedOf, At
  <2>3. status \in Terminal /\ (~Claimable => run.status \in Terminal)
    BY DEF Terminal, Claimable
  <2>4. /\ Claimable => run' = [status |-> status, results |-> worker[w].results]
                        /\ Finish(w, status)
        /\ ~Claimable => run' = run /\ Finish(w, run.status)
    BY <1>4 DEF Finalize
  <2>5. status = "completed" => \A s \in Steps : Succeeded(s)
    BY DEF Pending, IInv, OkIsTrue
  <2> HIDE DEF status
  <2>6. /\ Typed /\ Others(w) /\ worker'[w].pc = "settle"
        /\ worker'[w].results = worker[w].results
    BY <1>0, <2>3, <2>4, Finishing
  <2>7. /\ run'.results = run.results
        /\ run'.status = "completed" => run.status = "completed" \/ \A s \in Steps : Succeeded(s)
    BY <2>2, <2>4, <2>5
  <2>8. Unlock(w) /\ execution' = execution
    BY <1>4 DEF Finalize
  <2> QED BY <2>6, <2>7, <2>8 DEF Aside, Unlock, Outside
<1>5. CASE Settle(w) \/ FailJob(w)
  <2>1. worker' = [worker EXCEPT ![w] = IdleWorker] /\ worker[w].pc \in Outside
    BY <1>5 DEF Settle, FailJob, At, Outside
  <2>2. Typed /\ Others(w) /\ worker'[w] = IdleWorker
    BY <1>0, <2>1, Idling
  <2> QED BY <1>5, <2>1, <2>2, Blank, Dropping DEF Settle, FailJob, Outside
<1>6. CASE Throws(w)
  <2>1. Goto(w, "error") /\ Unlock(w) /\ run' = run /\ execution' = execution
    BY <1>6 DEF Throws
  <2>2. Typed /\ Others(w) /\ worker'[w].pc = "error" /\ worker'[w].results = worker[w].results
    BY <1>0, <2>1, Going DEF Outside
  <2> QED BY <2>1, <2>2, Dropping DEF Outside
<1>7. CASE Failed(w)
  <2>1. Goto(w, "failJob") /\ worker[w].pc \in Outside /\ lock' = lock /\ execution' = execution
    BY <1>7 DEF Failed, At, Outside
  <2>2. Typed /\ Others(w) /\ worker'[w].pc = "failJob" /\ worker'[w].results = worker[w].results
    BY <1>0, <2>1, Going DEF Outside
  <2>3. run'.results = run.results /\ (run'.status = "completed" => run.status = "completed")
    BY <1>0, <1>7, RunFields DEF Failed, Terminal
  <2> QED BY <2>1, <2>2, <2>3, Dropping DEF Outside
<1>8. CASE Crash(w)
  <2>1. Typed /\ Others(w) /\ worker'[w] = IdleWorker
    BY <1>0, <1>8, Idling DEF Crash
  <2>2. ASSUME NEW s \in Webhooks
        PROVE  /\ flight'[s] = {} <=> flight[s] = {}
               /\ \A v \in Workers \ {w} : flight[s] \subseteq {v} => flight'[s] \subseteq {v}
    <3>1. flight'[s] = IF w \in flight[s] THEN (flight[s] \ {w}) \cup {"crashed"} ELSE flight[s]
      BY <1>8 DEF Crash
    <3> QED BY <3>1
  <2> QED BY <1>8, <2>1, <2>2, Blank DEF Crash, Aside, Unlock, Outside
<1> QED BY <1>1, <1>2, <1>3, <1>4, <1>5, <1>6, <1>7, <1>8

LEMMA StillSteps ==
    ASSUME IInv, Sweep \/ (\E s \in Commands : CommandEnds(s)) \/ (\E w \in Workers : Abort(w))
    PROVE  Typed /\ Still
<1> USE DEF execution
<1>0. TypeOK
  BY DEF IInv
<1>1. CASE Sweep
  <2>1. run'.results = run.results /\ (run'.status = "completed" => run.status = "completed")
    BY <1>0, <1>1, RunFields DEF Sweep, Terminal
  <2> QED BY <1>0, <1>1, <2>1 DEF Sweep, Still, Typed, TypeOK
<1>2. CASE \E s \in Commands : CommandEnds(s)
  <2>1. PICK s \in Commands, t \in 1 .. Tries, end \in {"completed", "failed", "unknown"} :
          /\ command[s][t] = "live"
          /\ command' = [command EXCEPT ![s] = [@ EXCEPT ![t] = end]]
    BY <1>2 DEF CommandEnds
  <2>2. \A r \in Commands : \A u \in 1 .. Tries :
          command'[r][u] = IF r = s /\ u = t THEN end ELSE command[r][u]
    BY <1>0, <2>1 DEF TypeOK
  <2> QED BY <1>0, <1>2, <2>1, <2>2 DEF CommandEnds, Still, Typed, TypeOK
<1>3. ASSUME NEW w \in Workers, Abort(w) PROVE Typed /\ Still
  <2>1. worker' = [worker EXCEPT ![w].aborted = TRUE]
    BY <1>3 DEF Abort
  <2>2. Typed /\ \A v \in Workers :
          /\ worker'[v].pc = worker[v].pc /\ worker'[v].results = worker[v].results
          /\ worker'[v].step = worker[v].step /\ worker'[v].round = worker[v].round
          /\ worker'[v].try = worker[v].try
    <3> DEFINE rec == [worker[w] EXCEPT !.aborted = TRUE]
    <3>1. /\ rec \in Worker /\ rec.pc = worker[w].pc /\ rec.results = worker[w].results
          /\ rec.step = worker[w].step /\ rec.round = worker[w].round /\ rec.try = worker[w].try
      BY <1>0, ZenonT(60) DEF TypeOK, Worker
    <3>2. worker' = [worker EXCEPT ![w] = rec]
      BY <2>1
    <3> HIDE DEF rec
    <3> QED BY <1>0, <3>1, <3>2 DEF TypeOK, Typed
  <2> QED BY <1>3, <2>2 DEF Abort, Still
<1> QED BY <1>1, <1>2, <1>3

-----------------------------------------------------------------------------
\* The steps of the worker in the chain.  Nobody else is there, so that it is
\* enough to look at what this worker knows.

LEMMA ChainKeeps ==
    ASSUME IInv, NEW w \in Workers, Others(w), worker'[w].pc \in InChain,
           lock' = w, lock \in {w, Nobody}, Chain(w)',
           \A s \in Steps : Succeeded(s) => Succeeded(s)',
           \A s \in Steps : run'.results[s].status = "ok" => Succeeded(s)',
           \A s \in Steps : worker'[w].results[s].status = "ok" => Succeeded(s)',
           \A s \in Steps : Started(s)' => Started(s) \/ \A r \in 1 .. s - 1 : Succeeded(r),
           run'.status = "completed" => run.status = "completed",
           CommandsInOrder', FiredIsMarked'
    PROVE  Kept'
<1>1. \A v \in Workers \ {w} : worker[v].pc \notin InChain
  BY Numbers DEF IInv, LockHeld
<1>2. LockHeld' /\ InTheChain'
  BY <1>1 DEF LockHeld, InTheChain, Others
<1>3. OkIsTrue'
  BY DEF IInv, OkIsTrue, Others
<1>4. StepsInOrder'
  <2>1. \A s \in Steps : Started(s)' => \A r \in 1 .. s - 1 : Succeeded(r)'
    <3>1. \A s \in Steps : \A r \in 1 .. s - 1 : r \in Steps
      BY Numbers
    <3> QED BY <3>1 DEF IInv, StepsInOrder
  <2>2. run'.status = "completed" => \A s \in Steps : Succeeded(s)'
    BY DEF IInv, StepsInOrder
  <2> QED BY <2>1, <2>2 DEF StepsInOrder
<1> QED BY <1>2, <1>3, <1>4 DEF Kept

\* Nothing happens but in the mind of the worker.
Along(w) ==
    /\ Others(w) /\ lock' = lock /\ run' = run
    /\ command' = command /\ flight' = flight /\ done' = done /\ loose' = loose
    /\ worker'[w].results = worker[w].results /\ worker'[w].step = worker[w].step
    /\ worker'[w].round = worker[w].round
    /\ worker[w].pc \in InChain \ {"finalize"}
    /\ \/ /\ worker[w].pc = "gate" /\ worker'[w].pc = "dispatch" /\ worker'[w].try = worker[w].try + 1
       \/ /\ worker'[w].try = worker[w].try
          /\ \/ worker'[w].pc \in {"retry", "fail"}
             \/ worker[w].pc = "confirm" /\ worker'[w].pc = "fire"
             \/ worker[w].pc = "dispatch" /\ Step(w) \in Commands /\ worker'[w].pc = "create"
             \/ /\ worker[w].pc = "dispatch" /\ Step(w) \in Commands /\ Mine(w).cmd # 0
                /\ worker'[w].pc = "wait"
             \/ Step(w) \in Commands /\ Succeeded(Step(w)) /\ worker'[w].pc = "succeed"

LEMMA AlongKeeps ==
    ASSUME IInv, NEW w \in Workers, Along(w)
    PROVE  Kept'
<1>0. TypeOK /\ worker[w].pc \in InChain /\ worker'[w].pc \in InChain \ {"gate", "finalize"}
  BY DEF IInv, Along, InChain
<1>1. Chain(w) /\ lock = w
  BY <1>0 DEF IInv, InTheChain, LockHeld
<1>2. \A s \in Steps : (Succeeded(s)' <=> Succeeded(s)) /\ (Started(s)' <=> Started(s))
  BY DEF Along, Succeeded, Started
<1>3. Step(w)' = Step(w) /\ Mine(w)' = Mine(w)
  BY DEF Along, Step, Mine
<1>a. /\ worker[w].try \in Nat /\ worker[w].round \in Nat /\ Step(w) \in Steps
      /\ Step(w) \in Webhooks <=> Step(w) \notin Commands
  BY <1>0, Fields, Numbers
<1>4. RoundsOf(w)'
  BY <1>0, <1>1, <1>3, <1>a DEF Chain, RoundsOf, Along, At
<1>5. OrderOf(w)'
  BY <1>1, <1>2, <1>3, <1>a DEF Chain, OrderOf, Along, At
<1>6. SavedOf(w)'
  BY <1>0, <1>1, <1>3 DEF Chain, SavedOf, Along
<1>7. CommandsOfStep(w)'
  BY <1>0, <1>1, <1>3, <1>a DEF Chain, CommandsOfStep, Along, At
<1>8. WebhookOfStep(w)'
  BY <1>0, <1>1, <1>3, <1>a DEF Chain, WebhookOfStep, Along, At
<1>9. CommandsInOrder' /\ FiredIsMarked'
  BY DEF IInv, CommandsInOrder, FiredIsMarked, Along
<1>10. Chain(w)'
  BY <1>4, <1>5, <1>6, <1>7, <1>8 DEF Chain
<1>11. /\ Others(w) /\ lock' = w /\ run' = run /\ worker'[w].results = worker[w].results
       /\ \A s \in Steps : worker[w].results[s].status = "ok" => Succeeded(s)
       /\ \A s \in Steps : run.results[s].status = "ok" => Succeeded(s)
  BY <1>1 DEF Along, IInv, OkIsTrue
<1> QED BY <1>0, <1>1, <1>2, <1>9, <1>10, <1>11, ChainKeeps

\* Whether a step of the chain keeps what the invariant says.
Good(w) == Typed /\ Kept' /\ Others(w) /\ worker'[w].pc # "settle"

\* A worker that only goes on to another place.
LEMMA Advancing ==
    ASSUME IInv, NEW w \in Workers, NEW pc \in InChain, Goto(w, pc),
           run' = run, lock' = lock, execution' = execution,
           worker[w].pc \in InChain \ {"finalize"},
           \/ pc \in {"retry", "fail"} \/ (At(w, "confirm") /\ pc = "fire")
           \/ At(w, "dispatch") /\ Step(w) \in Commands /\ pc = "create"
           \/ At(w, "dispatch") /\ Step(w) \in Commands /\ Mine(w).cmd # 0 /\ pc = "wait"
           \/ Step(w) \in Commands /\ Succeeded(Step(w)) /\ pc = "succeed"
    PROVE  Good(w)
<1>1. TypeOK
  BY DEF IInv
<1>2. /\ Typed /\ Others(w) /\ worker'[w].pc = pc
      /\ worker'[w].results = worker[w].results /\ worker'[w].step = worker[w].step
      /\ worker'[w].round = worker[w].round /\ worker'[w].try = worker[w].try
  BY <1>1, Going
<1>3. Along(w)
  BY <1>2 DEF Along, At, execution
<1> QED BY <1>2, <1>3, AlongKeeps DEF Good, InChain

LEMMA GateSteps ==
    ASSUME IInv, NEW w \in Workers, Gate(w) \/ GateThrows(w) \/ Confirm(w)
    PROVE  Good(w)
<1>0. TypeOK
  BY DEF IInv
<1>1. CASE LeaseLost(w) /\ run' = run /\ execution' = execution
  BY <1>1, LosingTheLease, AsideKeeps DEF Good, Aside
<1>2. CASE Gate(w) /\ ~LeaseLost(w)
  <2> DEFINE try == worker[w].try + 1
             rec == [worker[w] EXCEPT !.pc = "dispatch", !.try = try]
  <2>1. At(w, "gate") /\ worker' = [worker EXCEPT ![w] = rec] /\ lock' = lock
        /\ run' = run /\ execution' = execution
    BY <1>2 DEF Gate
  <2>2. worker[w].try < worker[w].round
    BY <2>1 DEF IInv, InTheChain, Chain, RoundsOf, At, InChain
  <2>3. try \in 0 .. Tries
    BY <1>0, <2>2, Fields, Numbers
  <2> HIDE DEF try
  <2>4. /\ rec \in Worker /\ rec.pc = "dispatch" /\ rec.try = try
        /\ rec.results = worker[w].results /\ rec.step = worker[w].step
        /\ rec.round = worker[w].round
    <3>1. worker[w] \in Worker /\ "dispatch" \in Outside \cup InChain
      BY <1>0, Fields DEF InChain
    <3> QED BY <2>3, <3>1 DEF Worker
  <2> HIDE DEF rec
  <2>5. Typed /\ Others(w) /\ worker'[w] = rec
    BY <1>0, <2>1, <2>4 DEF TypeOK, Typed, Others
  <2>6. Along(w)
    BY <2>1, <2>4, <2>5 DEF Along, At, execution, InChain, try
  <2> QED BY <2>4, <2>5, <2>6, AlongKeeps DEF Good
<1>3. CASE GateThrows(w)
  BY <1>3, Advancing DEF GateThrows, InChain
<1>4. CASE Confirm(w) /\ ~LeaseLost(w)
  BY <1>4, Advancing DEF Confirm, At, InChain
<1>5. Gate(w) \/ Confirm(w) => run' = run /\ execution' = execution
  BY DEF Gate, Confirm
<1> QED BY <1>1, <1>2, <1>3, <1>4, <1>5

\* The command of the saved results, or of this attempt, is followed up.
LEMMA FollowSteps ==
    ASSUME IInv, NEW w \in Workers,
           Resume(w) \/ ResumeThrows(w) \/ Wait(w) \/ WaitGivesUp(w) \/ RetryThrows(w)
    PROVE  Good(w)
<1>0. /\ TypeOK /\ run' = run /\ lock' = lock /\ execution' = execution
      /\ worker[w].pc \in InChain \ {"finalize"}
  BY DEF IInv, Resume, ResumeThrows, Wait, WaitGivesUp, RetryThrows, At, InChain
<1>1. CASE ResumeThrows(w) \/ WaitGivesUp(w) \/ RetryThrows(w)
  <2>1. \E pc \in {"fail", "retry"} : Goto(w, pc)
    BY <1>1 DEF ResumeThrows, WaitGivesUp, RetryThrows
  <2> QED BY <1>0, <2>1, Advancing DEF InChain
<1>2. ASSUME Step(w) \in Commands, Mine(w).cmd # 0, command[Step(w)][Mine(w).cmd] = "completed"
      PROVE  Succeeded(Step(w))
  BY <1>0, <1>2, Fields, Numbers DEF Succeeded
<1>3. CASE Resume(w)
  <2> DEFINE state == IF Mine(w).cmd = 0 THEN "none" ELSE command[Step(w)][Mine(w).cmd]
  <2>1. /\ At(w, "dispatch") /\ Step(w) \in Commands
        /\ \/ state = "completed" /\ Goto(w, "succeed")
           \/ state = "live" /\ Goto(w, "wait")
           \/ Goto(w, "fail")
           \/ Goto(w, "create")
    BY <1>3 DEF Resume
  <2>2. CASE state = "completed" /\ Goto(w, "succeed")
    BY <1>0, <1>2, <2>1, <2>2, Advancing DEF InChain
  <2>3. CASE state = "live" /\ Goto(w, "wait")
    BY <1>0, <2>1, <2>3, Advancing DEF InChain
  <2>4. CASE Goto(w, "fail") \/ Goto(w, "create")
    BY <1>0, <2>1, <2>4, Advancing DEF InChain
  <2> QED BY <2>1, <2>2, <2>3, <2>4
<1>4. CASE Wait(w)
  <2>1. Step(w) \in Commands /\ Mine(w).cmd # 0
    BY <1>4 DEF Wait, IInv, InTheChain, Chain, RoundsOf, At, InChain
  <2>2. \/ Goto(w, "retry") \/ Goto(w, "fail")
        \/ command[Step(w)][Mine(w).cmd] = "completed" /\ Goto(w, "succeed")
    BY <1>4 DEF Wait
  <2> QED BY <1>0, <1>2, <2>1, <2>2, Advancing DEF InChain
<1> QED BY <1>1, <1>3, <1>4

\* What is known of the worker in the chain, before it changes the entry of its step.
LEMMA Known ==
    ASSUME IInv, NEW w \in Workers, worker[w].pc \in InChain
    PROVE  /\ TypeOK /\ Chain(w) /\ lock = w
           /\ Step(w) \in Steps /\ (Step(w) \in Webhooks <=> Step(w) \notin Commands)
           /\ worker[w].try \in 0 .. Tries /\ worker[w].round \in 1 .. Tries /\ Tries \in Nat
           /\ worker[w].results \in Results /\ run.results \in Results
           /\ \A s \in Steps : run.results[s].status = "ok" => Succeeded(s)
           /\ \A s \in Steps : worker[w].results[s].status = "ok" => Succeeded(s)
<1>1. TypeOK /\ Chain(w) /\ lock = w
  BY DEF IInv, InTheChain, LockHeld
<1> QED BY <1>1, Fields, RunFields, Numbers DEF IInv, OkIsTrue

LEMMA CreatedCommand ==
    ASSUME TypeOK, NEW s \in Commands, NEW t \in 1 .. Tries
    PROVE  /\ Created(s, t) \in [Commands -> [1 .. Tries -> CommandStates]]
           /\ \A r \in Commands : \A u \in 1 .. Tries :
                 Created(s, t)[r][u] = IF r = s /\ u = t /\ command[s][t] = "none" THEN "live"
                                       ELSE command[r][u]
<1>1. CASE command[s][t] # "none"
  BY <1>1 DEF Created, TypeOK
<1>2. CASE command[s][t] = "none"
  <2> DEFINE row == [command[s] EXCEPT ![t] = "live"]
  <2>1. Created(s, t) = [command EXCEPT ![s] = row]
    BY <1>2 DEF Created
  <2>2. /\ command \in [Commands -> [1 .. Tries -> CommandStates]]
        /\ row \in [1 .. Tries -> CommandStates]
        /\ \A u \in 1 .. Tries : row[u] = IF u = t THEN "live" ELSE command[s][u]
    BY DEF TypeOK, CommandStates
  <2> HIDE DEF row
  <2> QED BY <1>2, <2>1, <2>2
<1> QED BY <1>1, <1>2

LEMMA CreateSteps ==
    ASSUME IInv, NEW w \in Workers, Create(w) \/ CreateThrows(w)
    PROVE  Good(w)
<1> DEFINE s == Step(w)
           t == worker[w].try
<1>0. At(w, "create") /\ worker[w].pc \in InChain
  BY DEF Create, CreateThrows, At, InChain
<1>1. /\ TypeOK /\ Chain(w) /\ lock = w /\ s \in Steps /\ t \in 0 .. Tries /\ Tries \in Nat
      /\ \A r \in Steps : run.results[r].status = "ok" => Succeeded(r)
      /\ \A r \in Steps : worker[w].results[r].status = "ok" => Succeeded(r)
  BY <1>0, Known
<1>2. s \in Commands /\ s \notin Webhooks /\ t \in 1 .. Tries
  BY <1>0, <1>1, Numbers DEF Chain, RoundsOf, At
<1>3. /\ command' \in [Commands -> [1 .. Tries -> CommandStates]]
      /\ \A r \in Commands : \A u \in 1 .. Tries :
            \/ command'[r][u] = command[r][u]
            \/ r = s /\ u = t /\ command[s][t] = "none" /\ command'[r][u] = "live"
  <2>1. command' \in {command, Created(s, t)}
    BY DEF Create, CreateThrows
  <2>2. CASE command' = command  BY <1>1, <2>2 DEF TypeOK
  <2>3. CASE command' = Created(s, t)  BY <1>1, <1>2, <2>3, CreatedCommand
  <2> QED BY <2>1, <2>2, <2>3
<1>4. run' = run /\ lock' = lock /\ flight' = flight /\ done' = done /\ loose' = loose
  BY DEF Create, CreateThrows
<1>5. RunningCommand(t) \in StepResult /\ RunningCommand(t).cmd = t /\ RunningCommand(t).status = "running"
  BY <1>1 DEF RunningCommand, StepResult
<1>6. /\ Typed /\ Others(w) /\ worker'[w].step = worker[w].step
      /\ worker'[w].round = worker[w].round /\ worker'[w].try = t
      /\ \/ worker'[w].pc = "persist" /\ worker'[w].results = Set(w, RunningCommand(t))
         \/ worker'[w].pc = "retry" /\ worker'[w].results = worker[w].results
  <2>1. CASE Keep(w, RunningCommand(t), "persist")
    <3>1. /\ Set(w, RunningCommand(t)) \in Results /\ "persist" \in Outside \cup InChain
          /\ worker' = [worker EXCEPT ![w] = [worker[w] EXCEPT !.results = Set(w, RunningCommand(t)),
                                                              !.pc = "persist"]]
      BY <1>1, <1>5, <2>1, Setting DEF Keep, InChain
    <3> QED BY <1>1, <3>1, Keeping
  <2>2. CASE Goto(w, "retry")
    BY <1>1, <2>2, Going DEF InChain
  <2> QED BY <2>1, <2>2 DEF Create, CreateThrows
<1>7. /\ \A r \in Steps \ {s} : worker'[w].results[r] = worker[w].results[r]
      /\ worker'[w].pc = "persist" => worker'[w].results[s].cmd = t
      /\ worker'[w].results[s].status = "ok" => worker[w].results[s].status = "ok"
  BY <1>1, <1>5, <1>6, Setting
<1>8. Step(w)' = s /\ Mine(w)' = worker'[w].results[s]
  BY <1>6 DEF Step, Mine
<1> HIDE DEF s, t
<1>9. \A r \in Steps : Succeeded(r) => Succeeded(r)'
  BY <1>3, <1>4 DEF Succeeded
<1>10. \A r \in Steps : Started(r)' => Started(r) \/ r = s
  BY <1>3, <1>4 DEF Started
<1>11. \A r \in 1 .. s - 1 : Succeeded(r)
  <2>1. \A r \in 1 .. s - 1 : r \in Steps
    BY <1>1, Numbers
  <2> QED BY <1>1, <2>1 DEF Chain, OrderOf, s
<1>12. CommandsInOrder'
  <2>1. s \notin loose => \A u \in 1 .. Tries : u < t => command[s][u] = "failed"
    BY <1>0, <1>1, <1>2 DEF Chain, CommandsOfStep, At, s, t
  <2> QED BY <1>2, <1>3, <1>4, <2>1 DEF IInv, CommandsInOrder
<1>13. FiredIsMarked'
  BY <1>4 DEF IInv, FiredIsMarked
<1>14. Chain(w)'
  <2>1. RoundsOf(w)'
    BY <1>1, <1>2, <1>6, <1>7, <1>8 DEF Chain, RoundsOf, At, t
  <2>2. OrderOf(w)'
    <3>1. \A r \in 1 .. s - 1 : r \in Steps \ {s}
      BY <1>1, Numbers
    <3>2. \A r \in 1 .. s - 1 : worker[w].results[r].status = "ok"
      BY <1>1 DEF Chain, OrderOf, s
    <3> QED BY <1>6, <1>7, <1>8, <3>1, <3>2 DEF OrderOf, At
  <2>3. SavedOf(w)'
    BY <1>1, <1>4, <1>6, <1>7, <1>8 DEF Chain, SavedOf, s
  <2>4. CommandsOfStep(w)'
    BY <1>0, <1>1, <1>2, <1>3, <1>4, <1>6, <1>8 DEF Chain, CommandsOfStep, At, s, t
  <2>5. WebhookOfStep(w)'
    BY <1>2, <1>8 DEF WebhookOfStep
  <2> QED BY <2>1, <2>2, <2>3, <2>4, <2>5 DEF Chain
<1>15. worker'[w].pc \in InChain
  BY <1>6 DEF InChain
<1>16. \A r \in Steps : worker'[w].results[r].status = "ok" => Succeeded(r)'
  BY <1>1, <1>7, <1>9
<1>17. Kept'
  BY <1>1, <1>4, <1>6, <1>9, <1>10, <1>11, <1>12, <1>13, <1>14, <1>15, <1>16, ChainKeeps
<1> QED BY <1>6, <1>17 DEF Good

\* A step of the worker at the step it is at, which changes no command.
LEMMA EntryKeeps ==
    ASSUME IInv, NEW w \in Workers, worker[w].pc \in InChain, worker'[w].pc \in InChain,
           Others(w), lock' = lock, command' = command,
           done \subseteq done', done' \subseteq done \cup {Step(w)}, loose \subseteq loose',
           \A s \in Webhooks \ {Step(w)} : flight'[s] = flight[s],
           worker'[w].step = worker[w].step,
           \A r \in Steps \ {Step(w)} : /\ worker'[w].results[r] = worker[w].results[r]
                                        /\ run'.results[r] = run.results[r],
           run'.results[Step(w)] \in {run.results[Step(w)], worker'[w].results[Step(w)]},
           worker'[w].results[Step(w)].status = "ok" => worker[w].results[Step(w)].status = "ok",
           run'.status = "completed" => run.status = "completed",
           worker'[w].pc \in {"confirm", "fire", "answer", "finalize"}
               => worker'[w].results = run'.results,
           worker'[w].pc = "succeed" => Succeeded(Step(w))',
           Step(w) \in Webhooks \ loose' /\ flight'[Step(w)] # {} => run'.results[Step(w)].fired,
           RoundsOf(w)', CommandsOfStep(w)', WebhookOfStep(w)'
    PROVE  Kept'
<1> DEFINE s == Step(w)
<1>1. /\ TypeOK /\ Chain(w) /\ lock = w /\ s \in Steps
      /\ \A r \in Steps : run.results[r].status = "ok" => Succeeded(r)
      /\ \A r \in Steps : worker[w].results[r].status = "ok" => Succeeded(r)
  BY Known
<1>2. Step(w)' = s
  BY DEF Step
<1>3. \A r \in Steps : Succeeded(r) => Succeeded(r)'
  BY DEF Succeeded
<1>4. \A r \in 1 .. s - 1 : r \in Steps \ {s} /\ worker[w].results[r].status = "ok"
  BY <1>1, Numbers DEF Chain, OrderOf
<1>5. \A r \in Steps : Started(r)' => Started(r) \/ \A q \in 1 .. r - 1 : Succeeded(q)
  <2>1. \A r \in Steps \ {s} : Started(r)' => Started(r)
    BY <1>1, Numbers DEF Started
  <2>2. \A q \in 1 .. s - 1 : Succeeded(q)
    BY <1>1, <1>4
  <2> QED BY <2>1, <2>2
<1>6. CommandsInOrder'
  BY DEF IInv, CommandsInOrder
<1>7. FiredIsMarked'
  BY DEF IInv, FiredIsMarked, Steps
<1>8. Chain(w)'
  <2>1. OrderOf(w)'
    BY <1>2, <1>4 DEF OrderOf, At
  <2>2. SavedOf(w)'
    BY <1>1, <1>2 DEF Chain, SavedOf
  <2> QED BY <2>1, <2>2 DEF Chain
<1>9. \A r \in Steps : worker'[w].results[r].status = "ok" => Succeeded(r)'
  BY <1>1, <1>3
<1>10. \A r \in Steps : run'.results[r].status = "ok" => Succeeded(r)'
  BY <1>1, <1>3, <1>9
<1> QED BY <1>1, <1>3, <1>5, <1>6, <1>7, <1>8, <1>9, <1>10, ChainKeeps

\* The entry of the step is replaced in memory.
LEMMA Entry ==
    ASSUME TypeOK, NEW w \in Workers, NEW result \in StepResult, NEW pc \in InChain,
           worker' = [worker EXCEPT ![w] = [worker[w] EXCEPT !.results = Set(w, result), !.pc = pc]]
    PROVE  /\ Typed /\ Others(w) /\ worker'[w].pc = pc /\ worker'[w].step = worker[w].step
           /\ worker'[w].round = worker[w].round /\ worker'[w].try = worker[w].try
           /\ worker'[w].results = Set(w, result) /\ Set(w, result) \in Results
           /\ Step(w)' = Step(w) /\ Mine(w)' = result /\ worker'[w].results[Step(w)] = result
           /\ \A r \in Steps \ {Step(w)} : worker'[w].results[r] = worker[w].results[r]
<1>1. /\ Set(w, result) \in Results /\ Set(w, result)[Step(w)] = result
      /\ \A r \in Steps \ {Step(w)} : Set(w, result)[r] = worker[w].results[r]
  BY Setting
<1>2. /\ Typed /\ Others(w) /\ worker'[w].pc = pc
      /\ worker'[w].results = Set(w, result) /\ worker'[w].step = worker[w].step
      /\ worker'[w].round = worker[w].round /\ worker'[w].try = worker[w].try
  BY <1>1, Keeping
<1> QED BY <1>1, <1>2 DEF Step, Mine

LEMMA SaveSteps ==
    ASSUME IInv, NEW w \in Workers, SaveCommand(w)
    PROVE  Good(w)
<1> DEFINE s == Step(w)
<1>0. At(w, "persist") /\ worker[w].pc \in InChain \ {"finalize"} /\ lock' = lock /\ execution' = execution
  BY DEF SaveCommand, At, InChain
<1>1. CASE run' = run /\ Goto(w, "retry")
  BY <1>0, <1>1, Advancing DEF InChain
<1>2. CASE Persist(w, worker[w].results, "wait")
  <2> DEFINE pc == IF run.status = "running" THEN "wait" ELSE "fail"
  <2>1. /\ TypeOK /\ Chain(w) /\ s \in Steps /\ worker[w].try \in 0 .. Tries
        /\ worker[w].results \in Results
    BY <1>0, Known
  <2>2. s \in Commands /\ s \notin Webhooks /\ Mine(w).cmd # 0 /\ worker[w].try >= 1
    BY <1>0, <2>1, Numbers DEF Chain, RoundsOf, At
  <2>3. pc \in Outside \cup InChain
        /\ worker' = [worker EXCEPT ![w] = [worker[w] EXCEPT !.results = worker[w].results, !.pc = pc]]
    BY <1>2 DEF Persist, InChain
  <2> HIDE DEF pc
  <2>4. /\ Typed /\ Others(w) /\ worker'[w].pc = pc
        /\ worker'[w].results = worker[w].results /\ worker'[w].step = worker[w].step
        /\ worker'[w].round = worker[w].round /\ worker'[w].try = worker[w].try
    BY <2>1, <2>3, Keeping
  <2>5. pc \in {"wait", "fail"} /\ pc \in InChain
    BY DEF pc, InChain
  <2>6. run'.results \in {run.results, worker[w].results} /\ run'.status = run.status
    BY <1>2, <2>1, RunFields DEF Persist
  <2>7. Step(w)' = s /\ Mine(w)' = Mine(w)
    BY <2>4 DEF Step, Mine
  <2>8. RoundsOf(w)'
    BY <2>1, <2>2, <2>4, <2>5, <2>7 DEF Chain, RoundsOf, At
  <2>9. CommandsOfStep(w)'
    BY <1>0, <2>1, <2>4, <2>5, <2>7 DEF Chain, CommandsOfStep, At, execution
  <2>10. WebhookOfStep(w)'
    BY <2>2, <2>7 DEF WebhookOfStep
  <2>11. \A r \in Steps \ {s} : worker[w].results[r] = run.results[r]
    BY <2>1 DEF Chain, SavedOf
  <2>12. /\ command' = command /\ done' = done /\ flight' = flight /\ loose' = loose
    BY <1>0 DEF execution
  <2> HIDE DEF s
  <2>13. /\ \A r \in Steps \ {s} : run'.results[r] = run.results[r]
         /\ run'.results[s] \in {run.results[s], worker[w].results[s]}
    BY <2>6, <2>11
  <2> QED BY <1>0, <2>1, <2>2, <2>4, <2>5, <2>6, <2>8, <2>9, <2>10, <2>12, <2>13, EntryKeeps DEF Good, s
<1> QED BY <1>1, <1>2 DEF SaveCommand

\* The mark of a webhook: it is set only when the webhook cannot have been fired.
LEMMA MarkSteps ==
    ASSUME IInv, NEW w \in Workers, Mark(w)
    PROVE  Good(w)
<1> DEFINE s == Step(w)
           refused == worker[w].try = 1 /\ Mine(w).fired
<1>0. /\ At(w, "dispatch") /\ worker[w].pc \in InChain \ {"finalize"} /\ s \in Webhooks
      /\ execution' = execution
  BY DEF Mark, At, InChain
<1>1. CASE LeaseLost(w) /\ run' = run
  BY <1>0, <1>1, LosingTheLease, AsideKeeps DEF Good, Aside
<1>2. CASE Goto(w, "fail") /\ UNCHANGED <<run, lock>>
  BY <1>0, <1>2, Advancing DEF InChain
<1>3. CASE /\ ~refused /\ lock' = lock
           /\ Persist(w, Set(w, Marked), "confirm") \/ (run' = run /\ Keep(w, Marked, "retry"))
  <2>1. /\ TypeOK /\ Chain(w) /\ s \in Steps /\ worker[w].try \in 0 .. Tries
        /\ worker[w].round \in 1 .. Tries /\ Tries \in Nat /\ s \notin Commands
    BY <1>0, Known
  <2>2. Marked \in StepResult /\ Marked.fired /\ Marked.status # "ok"
    BY Numbers DEF Marked, StepResult
  <2>3. s \notin loose => flight[s] = {}
    <3>1. worker[w].try <= worker[w].round /\ worker[w].try >= 1
      BY <1>0, <2>1 DEF Chain, RoundsOf, At
    <3>2. s \notin loose => /\ flight[s] # {} => Mine(w).fired
                            /\ worker[w].round > 1 => ~Mine(w).fired
      BY <1>0, <2>1 DEF Chain, WebhookOfStep, At
    <3> QED BY <1>3, <2>1, <3>1, <3>2
  <2>4. PICK pc \in {"confirm", "retry", "fail"} :
          /\ worker' = [worker EXCEPT ![w] = [worker[w] EXCEPT !.results = Set(w, Marked), !.pc = pc]]
          /\ \/ run' = run /\ pc # "confirm"
             \/ run' = [run EXCEPT !.results = Set(w, Marked)]
    BY <1>3 DEF Persist, Keep
  <2>5. pc \in InChain
    BY DEF InChain
  <2>6. /\ Typed /\ Others(w) /\ worker'[w].pc = pc /\ worker'[w].step = worker[w].step
        /\ worker'[w].round = worker[w].round /\ worker'[w].try = worker[w].try
        /\ worker'[w].results = Set(w, Marked) /\ Set(w, Marked) \in Results
        /\ Step(w)' = s /\ Mine(w)' = Marked /\ worker'[w].results[s] = Marked
        /\ \A r \in Steps \ {s} : worker'[w].results[r] = worker[w].results[r]
    BY <2>1, <2>2, <2>4, <2>5, Entry
  <2>7. /\ run'.status = run.status /\ run'.results \in {run.results, Set(w, Marked)}
        /\ pc = "confirm" => run'.results = Set(w, Marked)
    BY <2>1, <2>4, <2>6, RunFields
  <2>8. \A r \in Steps \ {s} : worker[w].results[r] = run.results[r]
    BY <2>1 DEF Chain, SavedOf
  <2>9. command' = command /\ done' = done /\ flight' = flight /\ loose' = loose
    BY <1>0 DEF execution
  <2>10. RoundsOf(w)'
    BY <1>0, <2>1, <2>4, <2>6 DEF Chain, RoundsOf, At
  <2>11. CommandsOfStep(w)'
    BY <2>1, <2>6 DEF CommandsOfStep
  <2>12. WebhookOfStep(w)'
    BY <2>2, <2>3, <2>4, <2>6, <2>9 DEF WebhookOfStep, At
  <2> HIDE DEF s
  <2>13. /\ \A r \in Steps \ {s} : run'.results[r] = run.results[r]
         /\ run'.results[s] \in {run.results[s], worker'[w].results[s]}
    BY <2>1, <2>6, <2>7, <2>8
  <2>14. worker'[w].pc \in {"confirm", "fire", "answer", "finalize"} => worker'[w].results = run'.results
    BY <2>4, <2>6, <2>7
  <2>15. worker'[w].pc # "succeed" /\ worker'[w].results[s].status # "ok"
    BY <2>2, <2>4, <2>6
  <2> QED BY <1>0, <1>3, <2>3, <2>5, <2>6, <2>7, <2>9, <2>10, <2>11, <2>12, <2>13, <2>14, <2>15,
             EntryKeeps DEF Good, s
<1> QED BY <1>1, <1>2, <1>3 DEF Mark

LEMMA FireSteps ==
    ASSUME IInv, NEW w \in Workers, Fire(w) \/ Answered(w)
    PROVE  Good(w)
<1> DEFINE s == Step(w)
<1>0. worker[w].pc \in {"fire", "answer"} /\ worker[w].pc \in InChain
  BY DEF Fire, Answered, At, InChain
<1>1. /\ TypeOK /\ Chain(w) /\ s \in Steps /\ worker[w].try \in 0 .. Tries
      /\ worker[w].round \in 1 .. Tries /\ Tries \in Nat
  BY <1>0, Known
<1>2. s \in Webhooks /\ s \notin Commands
  BY <1>0, <1>1, Numbers DEF Chain, RoundsOf
<1>3. worker[w].results = run.results /\ run' = run
  BY <1>0, <1>1 DEF Chain, SavedOf, Fire, Answered
<1>4. s \notin loose => /\ Mine(w).fired
                        /\ At(w, "fire") => flight[s] = {}
                        /\ At(w, "answer") => flight[s] \subseteq {w}
  BY <1>0, <1>1, <1>2 DEF Chain, WebhookOfStep, At
<1>5. PICK pc \in {"answer", "succeed", "retry"} :
         /\ Goto(w, pc)
         /\ pc = "answer" => At(w, "fire") /\ flight' = [flight EXCEPT ![s] = @ \cup {w}] /\ done' = done
         /\ pc = "succeed" => /\ At(w, "answer") /\ flight' = [flight EXCEPT ![s] = @ \ {w}]
                              /\ done' = done \cup {s}
         /\ pc = "retry" => /\ done' = done
                            /\ \/ flight' = [flight EXCEPT ![s] = @ \ {w}]
                               \/ flight' = [flight EXCEPT ![s] = (@ \ {w}) \cup {"aborted"}]
  BY DEF Fire, Answered
<1>6. lock' = lock /\ command' = command /\ loose' = loose
  BY DEF Fire, Answered
<1>7. pc \in InChain
  BY DEF InChain
<1>8. /\ Typed /\ Others(w) /\ worker'[w].pc = pc
      /\ worker'[w].results = worker[w].results /\ worker'[w].step = worker[w].step
      /\ worker'[w].round = worker[w].round /\ worker'[w].try = worker[w].try
  BY <1>1, <1>5, <1>7, Going
<1>9. Step(w)' = s /\ Mine(w)' = Mine(w)
  BY <1>8 DEF Step, Mine
<1> HIDE DEF s
<1>10. \A r \in Webhooks \ {s} : flight'[r] = flight[r]
  BY <1>1, <1>5 DEF TypeOK
<1>11. s \notin loose => /\ pc = "answer" => flight'[s] \subseteq {w}
                         /\ pc = "succeed" => flight'[s] = {}
  BY <1>1, <1>2, <1>4, <1>5 DEF TypeOK
<1>12. done \subseteq done' /\ done' \subseteq done \cup {s} /\ (pc = "succeed" => Succeeded(Step(w))')
  BY <1>2, <1>5, <1>9 DEF Succeeded
<1>13. RoundsOf(w)'
  BY <1>1, <1>2, <1>5, <1>8, <1>9 DEF Chain, RoundsOf, At
<1>14. CommandsOfStep(w)'
  BY <1>2, <1>9 DEF CommandsOfStep
<1>15. WebhookOfStep(w)'
  BY <1>4, <1>5, <1>6, <1>8, <1>9, <1>11 DEF WebhookOfStep, At
<1>16. s \in Webhooks \ loose' => run'.results[s].fired
  BY <1>3, <1>4, <1>6 DEF Mine, s
<1>17. Kept'
  BY <1>0, <1>1, <1>3, <1>5, <1>6, <1>7, <1>8, <1>10, <1>12, <1>13, <1>14, <1>15, <1>16, EntryKeeps
     DEF s
<1> QED BY <1>8, <1>17 DEF Good

\* A retry: of a command that has failed for certain, of a webhook whose outcome
\* is known, or else the step counts as let loose.
LEMMA RetrySteps ==
    ASSUME IInv, NEW w \in Workers, Retry(w)
    PROVE  Good(w)
<1> DEFINE s == Step(w)
<1>0. /\ At(w, "retry") /\ worker[w].pc \in InChain \ {"finalize"}
      /\ lock' = lock /\ command' = command /\ flight' = flight /\ done' = done
  BY DEF Retry, At, InChain
<1>1. /\ TypeOK /\ Chain(w) /\ s \in Steps /\ worker[w].try \in 0 .. Tries
      /\ worker[w].round \in 1 .. Tries /\ Tries \in Nat /\ (s \in Webhooks <=> s \notin Commands)
  BY <1>0, Known
<1>2. loose' = IF TooEarly(w) THEN loose \cup {s} ELSE loose
  BY DEF Retry, LetsGo
<1>3. \A r \in Steps \ {s} : worker[w].results[r] = run.results[r]
  BY <1>1 DEF Chain, SavedOf
<1>4. \A t \in 1 .. Tries : s \in Commands \ loose /\ t < worker[w].try => command[s][t] = "failed"
  BY <1>0, <1>1 DEF Chain, CommandsOfStep, At
<1>5. s \in Webhooks \ loose /\ flight[s] # {} => Mine(w).fired /\ run.results[s].fired
  BY <1>0, <1>1 DEF Chain, WebhookOfStep, At, IInv, FiredIsMarked
<1>6. CASE Goto(w, "fail") /\ run' = run
  <2>1. /\ Typed /\ Others(w) /\ worker'[w].pc = "fail"
        /\ worker'[w].results = worker[w].results /\ worker'[w].step = worker[w].step
        /\ worker'[w].round = worker[w].round /\ worker'[w].try = worker[w].try
    BY <1>1, <1>6, Going DEF InChain
  <2>2. Step(w)' = s /\ Mine(w)' = Mine(w)
    BY <2>1 DEF Step, Mine
  <2>3. RoundsOf(w)'
    BY <1>1, <2>1 DEF Chain, RoundsOf, At
  <2>4. CommandsOfStep(w)'
    BY <1>0, <1>2, <1>4, <2>1, <2>2 DEF CommandsOfStep, At
  <2>5. WebhookOfStep(w)'
    BY <1>0, <1>2, <1>5, <2>1, <2>2 DEF WebhookOfStep, At
  <2> HIDE DEF s
  <2>6. loose \subseteq loose' /\ worker'[w].pc \in InChain
    BY <1>2, <2>1 DEF InChain
  <2>7. s \in Webhooks \ loose' /\ flight'[s] # {} => run'.results[s].fired
    BY <1>0, <1>5, <1>6, <2>6
  <2> QED BY <1>0, <1>6, <2>1, <2>3, <2>4, <2>5, <2>6, <2>7, EntryKeeps DEF Good, s
<1>7. CASE ~(worker[w].round = Tries \/ ~Retryable(w)) /\ ~(Goto(w, "fail") /\ run' = run)
  <2>1. \/ NextRound(w) /\ (run' = run \/ run' = [run EXCEPT !.results = Set(w, NoResult)])
        \/ Keep(w, NoResult, "fail") /\ run' = run
    BY <1>7 DEF Retry
  <2>2. worker[w].round + 1 \in 1 .. Tries /\ NoResult \in StepResult
    BY <1>1, <1>7, Blank
  <2>3. /\ Set(w, NoResult) \in Results /\ Set(w, NoResult)[s] = NoResult
        /\ \A r \in Steps \ {s} : Set(w, NoResult)[r] = worker[w].results[r]
    BY <1>1, <2>2, Setting
  <2>4. /\ Typed /\ Others(w) /\ worker'[w].step = worker[w].step /\ worker'[w].try = worker[w].try
        /\ worker'[w].results = Set(w, NoResult)
        /\ \/ worker'[w].pc = "gate" /\ worker'[w].round = worker[w].round + 1
           \/ worker'[w].pc = "fail" /\ worker'[w].round = worker[w].round
    <3>1. CASE NextRound(w)
      <4> DEFINE n == worker[w].round + 1
                 rec == [worker[w] EXCEPT !.results = Set(w, NoResult), !.pc = "gate", !.round = n]
      <4>1. worker' = [worker EXCEPT ![w] = rec] /\ n \in 1 .. Tries
        BY <2>2, <3>1 DEF NextRound
      <4> HIDE DEF n
      <4>2. worker[w] \in Worker /\ "gate" \in Outside \cup InChain
        BY <1>1, Fields DEF InChain
      <4>3. /\ rec \in Worker /\ rec.pc = "gate" /\ rec.round = n /\ rec.step = worker[w].step
            /\ rec.try = worker[w].try /\ rec.results = Set(w, NoResult)
        BY <2>3, <4>1, <4>2 DEF Worker
      <4> HIDE DEF rec
      <4> QED BY <1>1, <4>1, <4>3 DEF TypeOK, Typed, Others, n
    <3>2. CASE Keep(w, NoResult, "fail")
      BY <1>1, <2>2, <3>2, Entry DEF Keep, InChain
    <3> QED BY <2>1, <3>1, <3>2
  <2>5. Step(w)' = s /\ Mine(w)' = NoResult
    BY <2>3, <2>4 DEF Step, Mine
  <2>6. s \in Commands \ loose' => \A t \in 1 .. Tries : t <= worker[w].try => command[s][t] = "failed"
    <3>1. ASSUME s \in Commands \ loose', worker[w].try \in 1 .. Tries
          PROVE  command[s][worker[w].try] = "failed"
      <4>1. ~TooEarly(w)
        BY <1>2, <3>1
      <4>2. command[s][worker[w].try] # "none"
        BY <3>1, <4>1 DEF TooEarly
      <4> QED BY <1>7, <3>1, <4>2 DEF Retryable, CommandsOf
    <3> QED BY <1>1, <1>2, <1>4, <3>1
  <2>7. s \in Webhooks \ loose' => flight[s] = {}
    BY <1>2, <1>5 DEF TooEarly
  <2>8. RoundsOf(w)'
    BY <1>1, <2>4 DEF Chain, RoundsOf, At
  <2>9. CommandsOfStep(w)'
    BY <1>0, <1>1, <2>4, <2>5, <2>6 DEF CommandsOfStep, At
  <2>10. WebhookOfStep(w)'
    BY <1>0, <2>4, <2>5, <2>7, Blank DEF WebhookOfStep, At
  <2>11. run'.status = run.status /\ run'.results \in {run.results, Set(w, NoResult)}
    BY <1>1, <2>1, <2>3, RunFields
  <2> HIDE DEF s
  <2>12. /\ \A r \in Steps \ {s} : run'.results[r] = run.results[r]
         /\ run'.results[s] \in {run.results[s], worker'[w].results[s]}
    BY <1>3, <2>3, <2>4, <2>11
  <2>13. /\ loose \subseteq loose' /\ worker'[w].pc \in InChain
         /\ worker'[w].pc \notin {"confirm", "fire", "answer", "finalize", "succeed"}
         /\ worker'[w].results[s].status # "ok"
         /\ \A r \in Steps \ {s} : worker'[w].results[r] = worker[w].results[r]
    BY <1>2, <2>3, <2>4, Blank DEF InChain
  <2>14. s \in Webhooks \ loose' /\ flight'[s] # {} => run'.results[s].fired
    BY <1>0, <2>7
  <2> QED BY <1>0, <2>4, <2>8, <2>9, <2>10, <2>11, <2>12, <2>13, <2>14, EntryKeeps DEF Good, s
<1> QED BY <1>6, <1>7 DEF Retry

\* The chain is entered at the step that comes first among those that have not succeeded.
LEMMA EnterKeeps ==
    ASSUME IInv, NEW w \in Workers, Enter(w, run'.results), run'.results \in Results,
           lock' = w, lock \in {w, Nobody}, execution' = execution,
           run'.status = "completed" => run.status = "completed",
           \A s \in Steps : run'.results[s].status = "ok" => Succeeded(s),
           FiredIsMarked'
    PROVE  Good(w)
<1>0. TypeOK /\ Tries \in Nat
  BY Numbers DEF IInv
<1>1. PICK results \in Results : run'.results = results /\ Enter(w, results)
  OBVIOUS
<1>2. /\ Typed /\ Others(w) /\ worker'[w].results = results
      /\ worker'[w].round = 1 /\ worker'[w].try = 0 /\ worker'[w].step \in Steps
      /\ worker'[w].pc \in {"finalize", "gate"}
      /\ \A r \in 1 .. worker'[w].step - 1 : results[r].status = "ok"
  BY <1>0, <1>1, Entering
<1>3. \A s \in Steps : (Succeeded(s)' <=> Succeeded(s)) /\ (Started(s)' <=> Started(s))
  BY DEF Succeeded, Started, execution
<1>4. RoundsOf(w)'
  BY <1>2 DEF RoundsOf, At
<1>5. OrderOf(w)' /\ SavedOf(w)'
  BY <1>1, <1>2 DEF OrderOf, SavedOf, At, Step
<1>6. CommandsOfStep(w)'
  BY <1>0, <1>2 DEF CommandsOfStep
<1>7. WebhookOfStep(w)'
  BY <1>1, <1>2 DEF WebhookOfStep, FiredIsMarked, Step, Mine, At
<1>8. Chain(w)'
  BY <1>4, <1>5, <1>6, <1>7 DEF Chain
<1>9. CommandsInOrder'
  BY DEF IInv, CommandsInOrder, execution
<1>10. worker'[w].pc \in InChain /\ worker'[w].results = run'.results
  BY <1>1, <1>2 DEF InChain
<1>11. Kept'
  BY <1>2, <1>3, <1>8, <1>9, <1>10, ChainKeeps
<1> QED BY <1>2, <1>11 DEF Good

LEMMA LockSteps ==
    ASSUME IInv, NEW w \in Workers, Lock(w), Claimable
    PROVE  Good(w)
<1>1. /\ lock = Nobody /\ lock' = w /\ Enter(w, run.results) /\ execution' = execution
      /\ run' = [run EXCEPT !.status = "running"]
  BY DEF Lock, MarkRunning
<1>2. run'.results = run.results /\ run'.status = "running" /\ run.results \in Results
  BY <1>1, RunFields DEF IInv
<1>3. FiredIsMarked'
  BY <1>1, <1>2 DEF IInv, FiredIsMarked, execution
<1>4. \A s \in Steps : run.results[s].status = "ok" => Succeeded(s)
  BY DEF IInv, OkIsTrue
<1> QED BY <1>1, <1>2, <1>3, <1>4, EnterKeeps

\* The result of the step is saved.
LEMMA RecordSteps ==
    ASSUME IInv, NEW w \in Workers, Record(w)
    PROVE  Good(w)
<1> DEFINE s == Step(w)
           ok == At(w, "succeed")
           result == [status |-> IF ok THEN "ok" ELSE "failed", cmd |-> Mine(w).cmd,
                      fired |-> Mine(w).fired /\ ~ok]
<1>0. /\ worker[w].pc \in {"succeed", "fail"} /\ worker[w].pc \in InChain /\ execution' = execution
  BY DEF Record, InChain
<1>1. /\ TypeOK /\ Chain(w) /\ lock = w /\ s \in Steps /\ worker[w].try \in 0 .. Tries
      /\ worker[w].round \in 1 .. Tries /\ Tries \in Nat /\ (s \in Webhooks <=> s \notin Commands)
      /\ \A r \in Steps : run.results[r].status = "ok" => Succeeded(r)
  BY <1>0, Known
<1>2. CASE run' = run /\ Goto(w, "error") /\ Unlock(w)
  <2>1. Typed /\ Others(w) /\ worker'[w].pc = "error" /\ worker'[w].results = worker[w].results
    BY <1>1, <1>2, Going DEF Outside
  <2>2. Aside(w)
    BY <1>0, <1>2, <2>1, Dropping DEF Outside, execution
  <2> QED BY <2>1, <2>2, AsideKeeps DEF Good
<1>3. CASE /\ run' = [run EXCEPT !.results = Set(w, result)] /\ lock' = lock
           /\ IF ok THEN Enter(w, Set(w, result))
              ELSE worker' = [worker EXCEPT ![w] = [worker[w] EXCEPT !.results = Set(w, result),
                                                                     !.pc = "finalize"]]
  <2>1. /\ result \in StepResult /\ (ok => result.status = "ok" /\ ~result.fired)
        /\ ~ok => result.status = "failed" /\ result.fired = Mine(w).fired
    <3>1. Mine(w).cmd \in 0 .. Tries /\ (Mine(w).fired /\ ~ok) \in BOOLEAN
      BY <1>1, Fields
    <3>2. result.status = (IF ok THEN "ok" ELSE "failed") /\ result.fired = (Mine(w).fired /\ ~ok)
      OBVIOUS
    <3>3. result \in StepResult
      BY <3>1 DEF StepResult
    <3>4. Mine(w).fired \in BOOLEAN
      BY <1>1, Fields
    <3> QED BY <3>2, <3>3, <3>4
  <2> HIDE DEF result
  <2>2. /\ Set(w, result) \in Results /\ Set(w, result)[s] = result
        /\ \A r \in Steps \ {s} : Set(w, result)[r] = worker[w].results[r]
    BY <1>1, <2>1, Setting
  <2>3. run'.results = Set(w, result) /\ run'.status = run.status
    BY <1>1, <1>3, <2>2, RunFields
  <2>4. \A r \in Steps \ {s} : worker[w].results[r] = run.results[r]
    BY <1>1 DEF Chain, SavedOf
  <2>5. s \in Webhooks \ loose => /\ ok => flight[s] = {}
                                  /\ flight[s] # {} => Mine(w).fired
    BY <1>0, <1>1 DEF Chain, WebhookOfStep, At
  <2>6. command' = command /\ flight' = flight /\ done' = done /\ loose' = loose
    BY <1>0 DEF execution
  <2>7. s \in Webhooks \ loose /\ flight[s] # {} => run'.results[s].fired
    BY <2>1, <2>2, <2>3, <2>5
  <2>8. \A r \in Steps \ {s} : run'.results[r] = run.results[r]
    BY <2>2, <2>3, <2>4
  <2>9. CASE ok
    <3>1. Succeeded(s)
      BY <1>1, <2>9 DEF Chain, OrderOf
    <3>2. \A r \in Steps : run'.results[r].status = "ok" => Succeeded(r)
      BY <1>1, <2>8, <3>1
    <3>3. FiredIsMarked'
      BY <2>6, <2>7, <2>8 DEF IInv, FiredIsMarked, Steps
    <3> QED BY <1>0, <1>1, <1>3, <2>2, <2>3, <2>9, <3>2, <3>3, EnterKeeps
  <2>10. CASE ~ok
    <3>1. worker' = [worker EXCEPT ![w] = [worker[w] EXCEPT !.results = Set(w, result),
                                                            !.pc = "finalize"]]
      BY <1>3, <2>10
    <3>2. /\ Typed /\ Others(w) /\ worker'[w].pc = "finalize" /\ worker'[w].step = worker[w].step
          /\ worker'[w].round = worker[w].round /\ worker'[w].try = worker[w].try
          /\ worker'[w].results = Set(w, result) /\ Step(w)' = s
      <4>1. "finalize" \in InChain
        BY DEF InChain
      <4> QED BY <1>1, <2>1, <3>1, <4>1, Entry, ZenonT(60)
    <3>3. RoundsOf(w)' /\ CommandsOfStep(w)' /\ WebhookOfStep(w)'
      BY <1>1, <3>2 DEF Chain, RoundsOf, CommandsOfStep, WebhookOfStep, At
    <3>4. /\ worker'[w].pc \in InChain /\ worker'[w].results = run'.results
          /\ worker'[w].results[s].status # "ok"
          /\ \A r \in Steps \ {s} : worker'[w].results[r] = worker[w].results[r]
      BY <2>1, <2>2, <2>3, <2>10, <3>2 DEF InChain
    <3> HIDE DEF s
    <3>5. Kept'
      BY <1>0, <1>3, <2>3, <2>6, <2>7, <2>8, <3>2, <3>3, <3>4, EntryKeeps DEF s
    <3> QED BY <3>2, <3>5 DEF Good
  <2> QED BY <2>9, <2>10
<1> QED BY <1>2, <1>3 DEF Record

LEMMA ChainSteps ==
    ASSUME IInv, NEW w \in Workers,
           \/ (Lock(w) /\ Claimable) \/ Gate(w) \/ Resume(w) \/ Create(w) \/ SaveCommand(w)
           \/ Wait(w) \/ Mark(w) \/ Confirm(w) \/ Fire(w) \/ Answered(w) \/ Retry(w) \/ Record(w)
           \/ GateThrows(w) \/ ResumeThrows(w) \/ CreateThrows(w) \/ WaitGivesUp(w)
           \/ RetryThrows(w)
    PROVE  Good(w)
  BY GateSteps, FollowSteps, CreateSteps, SaveSteps, MarkSteps, FireSteps, RetrySteps,
     RecordSteps, LockSteps

-----------------------------------------------------------------------------
\* The other variables, and the job.

RunType == [status : {"queued", "running"} \cup Terminal, results : Results]

LEMMA Saving ==
    ASSUME TypeOK, NEW x \in Results, run' = [run EXCEPT !.results = x]
    PROVE  run' \in RunType /\ run'.status = run.status
  BY DEF TypeOK, RunType

\* The run keeps its type, and its status once that is final.
LEMMA RunSteps ==
    ASSUME TypeOK, Next
    PROVE  run' \in RunType /\ (run.status \in Terminal => run'.status = run.status)
<1> USE DEF execution
<1> DEFINE Goal == run' \in RunType /\ (run.status \in Terminal => run'.status = run.status)
<1>0. /\ run \in RunType /\ \A x \in Results : [run EXCEPT !.results = x] \in RunType
      /\ \A x \in Results : [run EXCEPT !.results = x].status = run.status
      /\ \A x \in {"queued", "running"} \cup Terminal : [run EXCEPT !.status = x] \in RunType
  BY RunFields DEF RunType, TypeOK
<1>1. CASE Sweep
  BY <1>0, <1>1 DEF Sweep, Terminal
<1>2. CASE \E s \in Commands : CommandEnds(s)
  BY <1>0, <1>2 DEF CommandEnds
<1>3. ASSUME NEW w \in Workers, ClaimJob(w) \/ WorkerStep(w) \/ Fault(w) PROVE Goal
  <2>1. /\ worker[w].results \in Results /\ Mine(w).cmd \in 0 .. Tries
        /\ \A x \in StepResult : Set(w, x) \in Results
    BY Fields, Setting
  <2>2. CASE Open(w) \/ Lock(w) \/ Failed(w)
    BY <1>0, <2>2 DEF Open, Lock, Failed, MarkRunning, Claimable, Terminal
  <2>3. CASE SaveCommand(w) \/ Mark(w) \/ Retry(w)
    <3>1. Marked \in StepResult
      BY Numbers DEF Marked, StepResult
    <3>2. Set(w, Marked) \in Results /\ Set(w, NoResult) \in Results
      BY <2>1, <3>1, Blank
    <3>3. run' = run \/ \E x \in Results : run' = [run EXCEPT !.results = x]
      <4>1. CASE SaveCommand(w)
        BY <2>1, <4>1 DEF SaveCommand, Persist
      <4>2. CASE Mark(w)
        BY <3>2, <4>2 DEF Mark, Persist
      <4>3. CASE Retry(w)
        BY <3>2, <4>3 DEF Retry
      <4> QED BY <2>3, <4>1, <4>2, <4>3
    <3> QED BY <1>0, <3>3, Saving
  <2>4. CASE Record(w)
    <3> DEFINE ok == At(w, "succeed")
               result == [status |-> IF ok THEN "ok" ELSE "failed", cmd |-> Mine(w).cmd,
                          fired |-> Mine(w).fired /\ ~ok]
    <3>1. result \in StepResult
      <4>1. Mine(w).cmd \in 0 .. Tries /\ (Mine(w).fired /\ ~ok) \in BOOLEAN
        BY <2>1
      <4> QED BY <4>1 DEF StepResult
    <3>2. Set(w, result) \in Results
      BY <2>1, <3>1
    <3>3. run' = run \/ run' = [run EXCEPT !.results = Set(w, result)]
      BY <2>4 DEF Record
    <3> HIDE DEF result
    <3> QED BY <1>0, <3>2, <3>3, Saving
  <2>5. CASE Finalize(w)
    BY <1>0, <2>1, <2>5 DEF Finalize, Claimable, Terminal, RunType
  <2>6. CASE ~(\/ Open(w) \/ Lock(w) \/ Failed(w) \/ SaveCommand(w) \/ Mark(w) \/ Retry(w)
               \/ Record(w) \/ Finalize(w))
    <3>1. run' = run
      BY <1>3, <2>6 DEF ClaimJob, WorkerStep, Fault, Gate, Resume, Create, Wait, Confirm, Fire,
           Answered, RecordLeaseLost, Settle, FailJob, GateThrows, ResumeThrows, CreateThrows,
           WaitGivesUp, RetryThrows, Throws, Abort, Crash
    <3> QED BY <1>0, <3>1
  <2> QED BY <2>2, <2>3, <2>4, <2>5, <2>6
<1> QED BY <1>1, <1>2, <1>3 DEF Next

\* The job, the lock, the commands and the history keep their types.
LEMMA RestTyped ==
    ASSUME IInv, Next
    PROVE  /\ job' \in [status : {"PENDING", "RUNNING", "COMPLETED", "FAILED"},
                        owner : Workers \cup {Nobody}, attempts : 0 .. MaxAttempts]
           /\ lock' \in Workers \cup {Nobody}
           /\ command' \in [Commands -> [1 .. Tries -> CommandStates]]
           /\ flight' \in [Webhooks -> SUBSET (Workers \cup {"crashed", "aborted"})]
           /\ done' \subseteq Webhooks /\ loose' \subseteq Steps /\ unswept' \in BOOLEAN
<1> USE DEF execution
<1> DEFINE Goal ==
           /\ job' \in [status : {"PENDING", "RUNNING", "COMPLETED", "FAILED"},
                        owner : Workers \cup {Nobody}, attempts : 0 .. MaxAttempts]
           /\ lock' \in Workers \cup {Nobody}
           /\ command' \in [Commands -> [1 .. Tries -> CommandStates]]
           /\ flight' \in [Webhooks -> SUBSET (Workers \cup {"crashed", "aborted"})]
           /\ done' \subseteq Webhooks /\ loose' \subseteq Steps /\ unswept' \in BOOLEAN
<1>0. TypeOK
  BY DEF IInv
<1>1. CASE Sweep
  BY <1>0, <1>1 DEF Sweep, TypeOK
<1>2. ASSUME NEW s \in Commands, CommandEnds(s) PROVE Goal
  <2>1. command' \in [Commands -> [1 .. Tries -> CommandStates]]
    <3>1. PICK t \in 1 .. Tries, end \in {"completed", "failed", "unknown"} :
            command' = [command EXCEPT ![s] = [command[s] EXCEPT ![t] = end]]
      BY <1>2 DEF CommandEnds
    <3> DEFINE row == [command[s] EXCEPT ![t] = end]
    <3>2. command \in [Commands -> [1 .. Tries -> CommandStates]]
          /\ row \in [1 .. Tries -> CommandStates]
      BY <1>0 DEF TypeOK, CommandStates
    <3> HIDE DEF row
    <3> QED BY <3>1, <3>2 DEF row
  <2> QED BY <1>0, <1>2, <2>1 DEF CommandEnds, TypeOK
<1>3. ASSUME NEW w \in Workers, ClaimJob(w) \/ WorkerStep(w) \/ Fault(w) PROVE Goal
  <2>0. Step(w) \in Steps /\ worker[w].pc \in Outside \cup InChain
    BY <1>0, Fields
  <2>1. CASE ClaimJob(w)
    <3>1. job.attempts + 1 \in 0 .. MaxAttempts
      BY <1>0, <2>1, Numbers DEF ClaimJob, IInv, AttemptLeft, TypeOK
    <3> QED BY <1>0, <2>1, <3>1 DEF ClaimJob, TypeOK
  <2>2. CASE Create(w) \/ CreateThrows(w)
    <3>1. At(w, "create") /\ worker[w].pc \in InChain
      BY <2>2 DEF Create, CreateThrows, At, InChain
    <3>2. Step(w) \in Commands /\ worker[w].try \in 1 .. Tries
      BY <3>1, Known DEF Chain, RoundsOf, At
    <3>3. Created(Step(w), worker[w].try) \in [Commands -> [1 .. Tries -> CommandStates]]
      BY <1>0, <3>2, CreatedCommand
    <3> QED BY <1>0, <2>2, <3>3 DEF Create, CreateThrows, TypeOK
  <2>3. CASE Fire(w) \/ Answered(w)
    <3>1. worker[w].pc \in {"fire", "answer"} /\ worker[w].pc \in InChain
      BY <2>3 DEF Fire, Answered, At, InChain
    <3>2. Step(w) \in Webhooks
      BY <3>1, Known DEF Chain, RoundsOf
    <3> QED BY <1>0, <2>3, <3>2 DEF Fire, Answered, TypeOK
  <2>4. CASE Crash(w)
    <3>1. ASSUME NEW s \in Webhooks
          PROVE  (IF w \in flight[s] THEN (flight[s] \ {w}) \cup {"crashed"} ELSE flight[s])
                    \in SUBSET (Workers \cup {"crashed", "aborted"})
      BY <1>0 DEF TypeOK
    <3>2. flight' \in [Webhooks -> SUBSET (Workers \cup {"crashed", "aborted"})]
      BY <2>4, <3>1 DEF Crash
    <3> QED BY <1>0, <2>4, <3>2 DEF Crash, Unlock, TypeOK
  <2>5. CASE Retry(w)
    BY <1>0, <2>0, <2>5 DEF Retry, LetsGo, TypeOK
  <2>6. CASE Settle(w) \/ FailJob(w)
    <3>1. job' = job \/ \E st \in {"PENDING", "COMPLETED", "FAILED"} :
                              job' = [job EXCEPT !.owner = Nobody, !.status = st]
      BY <2>6 DEF Settle, FailJob
    <3> QED BY <1>0, <2>6, <3>1 DEF Settle, FailJob, TypeOK
  <2>7. CASE ~(\/ ClaimJob(w) \/ Create(w) \/ CreateThrows(w) \/ Fire(w) \/ Answered(w) \/ Crash(w)
               \/ Retry(w) \/ Settle(w) \/ FailJob(w))
    <3>1. UNCHANGED execution
      BY <1>3, <2>7 DEF WorkerStep, Fault, Open, Lock, Gate, Resume, SaveCommand, Wait, Mark, Confirm,
           Record, RecordLeaseLost, Finalize, Failed, GateThrows, ResumeThrows,
           WaitGivesUp, RetryThrows, Throws, Abort
    <3>2. lock' \in {lock, w, Nobody}
      BY <1>3, <2>7 DEF WorkerStep, Fault, Open, Lock, Gate, Resume, SaveCommand, Wait, Mark, Confirm,
           Record, RecordLeaseLost, Finalize, Failed, GateThrows, ResumeThrows,
           WaitGivesUp, RetryThrows, Throws, Abort, LeaseLost, Unlock
    <3> QED BY <1>0, <3>1, <3>2 DEF TypeOK
  <2> QED BY <2>1, <2>2, <2>3, <2>4, <2>5, <2>6, <2>7
<1> QED BY <1>1, <1>2, <1>3 DEF Next

\* A worker goes to settle the job with the outcome it has seen of the run.
Reports(w) ==
    worker'[w].pc = "settle" /\ worker'[w].outcome = "completed" => run'.status = "completed"

LEMMA LeavingReports ==
    ASSUME IInv, NEW w \in Workers,
           \/ ClaimJob(w) \/ Open(w) \/ (Lock(w) /\ ~Claimable) \/ RecordLeaseLost(w)
           \/ Finalize(w) \/ Settle(w) \/ Throws(w) \/ Failed(w) \/ FailJob(w) \/ Crash(w)
    PROVE  Reports(w)
<1>0. TypeOK
  BY DEF IInv
<1>1. CASE worker' = [worker EXCEPT ![w] = IdleWorker]
  BY <1>0, <1>1, Idling, Blank DEF Reports
<1>2. CASE ClaimJob(w)
  <2>1. worker'[w] = [IdleWorker EXCEPT !.pc = "open", !.attempts = job.attempts + 1]
    BY <1>0, <1>2 DEF ClaimJob, TypeOK
  <2>2. worker'[w].pc = "open"
    BY <2>1, Blank DEF Worker
  <2> QED BY <2>2 DEF Reports
<1>3. CASE \E pc \in {"lock", "error", "failJob"} : Goto(w, pc)
  <2>1. worker'[w].pc # "settle"
    BY <1>0, <1>3, Going DEF Outside
  <2> QED BY <2>1 DEF Reports
<1>4. CASE run' = run /\ run.status \in Terminal /\ Finish(w, run.status)
  BY <1>0, <1>4, Finishing DEF Reports
<1>5. CASE Finish(w, "failed")
  BY <1>0, <1>5, Finishing DEF Reports, Terminal
<1>6. CASE /\ run' = [status |-> "completed", results |-> worker[w].results]
           /\ Finish(w, "completed")
  BY <1>6 DEF Reports
<1> QED BY <1>1, <1>2, <1>3, <1>4, <1>5, <1>6
        DEF Open, Lock, RecordLeaseLost, LeaseLost, Finalize, Settle, Throws, Failed, FailJob, Crash,
            Claimable

LEMMA JobSteps ==
    ASSUME IInv, Next
    PROVE  AttemptLeft' /\ OutcomeIsTrue' /\ JobTellsRun'
<1> USE DEF execution
<1>0. TypeOK /\ JobTellsRun /\ AttemptLeft /\ OutcomeIsTrue
  BY DEF IInv
<1>1. run.status = "completed" => run'.status = "completed"
  BY <1>0, RunSteps DEF Terminal
<1>2. CASE Sweep
  <2>1. /\ worker' = worker
        /\ \/ job.attempts < MaxAttempts /\ job' = [job EXCEPT !.status = "PENDING", !.owner = Nobody]
           \/ job' = [job EXCEPT !.status = "FAILED", !.owner = Nobody]
    BY <1>2 DEF Sweep
  <2>2. job'.status = "FAILED" \/ (job'.status = "PENDING" /\ job'.attempts < MaxAttempts)
    BY <1>0, <2>1 DEF TypeOK
  <2> QED BY <1>0, <1>1, <2>1, <2>2 DEF OutcomeIsTrue, JobTellsRun, AttemptLeft, At
<1>3. CASE \E s \in Commands : CommandEnds(s)
  BY <1>0, <1>3 DEF CommandEnds, OutcomeIsTrue, JobTellsRun, AttemptLeft, At
<1>4. ASSUME NEW w \in Workers, Abort(w) PROVE AttemptLeft' /\ OutcomeIsTrue' /\ JobTellsRun'
  <2>1. worker' = [worker EXCEPT ![w].aborted = TRUE] /\ job' = job /\ run' = run
    BY <1>4 DEF Abort
  <2>2. \A v \in Workers : worker'[v].pc = worker[v].pc /\ worker'[v].outcome = worker[v].outcome
    BY <1>0, <2>1 DEF TypeOK, Worker
  <2> QED BY <1>0, <2>1, <2>2 DEF OutcomeIsTrue, JobTellsRun, AttemptLeft, At
<1>5. ASSUME NEW w \in Workers, ClaimJob(w) \/ WorkerStep(w) \/ Fault(w), ~Abort(w)
      PROVE  AttemptLeft' /\ OutcomeIsTrue' /\ JobTellsRun'
  <2>1. Others(w) /\ Reports(w)
    <3>1. CASE \/ ClaimJob(w) \/ Open(w) \/ (Lock(w) /\ ~Claimable) \/ RecordLeaseLost(w)
               \/ Finalize(w) \/ Settle(w) \/ Throws(w) \/ Failed(w) \/ FailJob(w) \/ Crash(w)
      BY <3>1, LeavingSteps, LeavingReports DEF Aside
    <3>2. Good(w) => Others(w) /\ Reports(w)
      BY DEF Good, Reports
    <3> QED BY <1>5, <3>1, <3>2, ChainSteps DEF WorkerStep, Fault
  <2>2. OutcomeIsTrue'
    BY <1>0, <1>1, <2>1 DEF OutcomeIsTrue, Others, Reports, At
  <2>3. CASE ClaimJob(w)
    <3>1. job'.status = "RUNNING"
      BY <2>3 DEF ClaimJob
    <3> QED BY <2>2, <3>1 DEF AttemptLeft, JobTellsRun
  <2>4. CASE Settle(w)
    <3>1. \/ job' = job
          \/ /\ worker[w].pc = "settle" /\ worker[w].outcome = "completed"
             /\ job' = [job EXCEPT !.owner = Nobody, !.status = "COMPLETED"]
          \/ job' = [job EXCEPT !.owner = Nobody, !.status = "FAILED"]
      BY <2>4 DEF Settle, At
    <3>2. \/ job' = job
          \/ job'.status = "COMPLETED" /\ run.status = "completed"
          \/ job'.status = "FAILED"
      BY <1>0, <3>1 DEF TypeOK, OutcomeIsTrue, At
    <3> QED BY <1>0, <1>1, <2>2, <3>2 DEF AttemptLeft, JobTellsRun
  <2>5. CASE FailJob(w)
    <3>1. \/ job' = job
          \/ job.attempts < MaxAttempts /\ job' = [job EXCEPT !.owner = Nobody, !.status = "PENDING"]
          \/ job' = [job EXCEPT !.owner = Nobody, !.status = "FAILED"]
      BY <2>5 DEF FailJob
    <3>2. \/ job' = job
          \/ job'.status = "PENDING" /\ job'.attempts < MaxAttempts
          \/ job'.status = "FAILED"
      BY <1>0, <3>1 DEF TypeOK
    <3> QED BY <1>0, <1>1, <2>2, <3>2 DEF AttemptLeft, JobTellsRun
  <2>6. CASE ~(ClaimJob(w) \/ Settle(w) \/ FailJob(w))
    <3>1. job' = job
      BY <1>5, <2>6 DEF WorkerStep, Fault, Open, Lock, Gate, Resume, Create, SaveCommand, Wait, Mark,
           Confirm, Fire, Answered, Retry, Record, RecordLeaseLost, Finalize, Failed, GateThrows,
           ResumeThrows, CreateThrows, WaitGivesUp, RetryThrows, Throws, Crash
    <3> QED BY <1>0, <1>1, <2>2, <3>1 DEF AttemptLeft, JobTellsRun
  <2> QED BY <2>3, <2>4, <2>5, <2>6
<1> QED BY <1>2, <1>3, <1>4, <1>5 DEF Next

-----------------------------------------------------------------------------
LEMMA InitHolds == Init => IInv
<1> SUFFICES ASSUME Init PROVE IInv
  OBVIOUS
<1>1. TypeOK
  <2>1. /\ run \in [status : {"queued", "running"} \cup Terminal, results : Results]
        /\ job \in [status : {"PENDING", "RUNNING", "COMPLETED", "FAILED"},
                    owner : Workers \cup {Nobody}, attempts : 0 .. MaxAttempts]
    BY Numbers, Blank DEF Init
  <2>2. command \in [Commands -> [1 .. Tries -> CommandStates]]
    BY DEF Init, CommandStates
  <2>3. worker \in [Workers -> Worker] /\ lock \in Workers \cup {Nobody}
    BY Blank DEF Init
  <2>4. /\ flight \in [Webhooks -> SUBSET (Workers \cup {"crashed", "aborted"})]
        /\ done \subseteq Webhooks /\ loose \subseteq Steps /\ unswept \in BOOLEAN
    BY DEF Init
  <2> QED BY <2>1, <2>2, <2>3, <2>4 DEF TypeOK
<1>2. \A w \in Workers : worker[w] = IdleWorker
  BY DEF Init
<1>3. AttemptLeft /\ OutcomeIsTrue /\ JobTellsRun
  BY <1>2, Numbers, Blank DEF Init, AttemptLeft, OutcomeIsTrue, JobTellsRun, At
<1>4. LockHeld /\ InTheChain
  BY <1>2, Numbers, Blank DEF Init, LockHeld, InTheChain, InChain
<1>5. OkIsTrue
  BY <1>2, Blank DEF Init, OkIsTrue
<1>6. CommandsInOrder /\ FiredIsMarked
  BY DEF Init, CommandsInOrder, FiredIsMarked
<1>7. StepsInOrder
  BY Numbers DEF Init, StepsInOrder, Started
<1> QED BY <1>1, <1>3, <1>4, <1>5, <1>6, <1>7 DEF IInv

LEMMA StepHolds == IInv /\ [Next]_vars => IInv'
<1> SUFFICES ASSUME IInv, [Next]_vars PROVE IInv'
  OBVIOUS
<1>1. CASE UNCHANGED vars
  BY <1>1 DEF vars, IInv, TypeOK, AttemptLeft, LockHeld, OkIsTrue, OutcomeIsTrue, CommandsInOrder,
       FiredIsMarked, InTheChain, Chain, RoundsOf, OrderOf, SavedOf, CommandsOfStep, WebhookOfStep,
       StepsInOrder, JobTellsRun, Succeeded, Started, At, Step, Mine
<1>2. CASE Next
  <2>1. Typed /\ Kept'
    <3>1. CASE Sweep \/ (\E s \in Commands : CommandEnds(s)) \/ (\E w \in Workers : Abort(w))
      BY <3>1, StillSteps, StillKeeps
    <3>2. ASSUME NEW w \in Workers, ClaimJob(w) \/ WorkerStep(w) \/ Fault(w), ~Abort(w)
          PROVE  Typed /\ Kept'
      <4>1. CASE \/ ClaimJob(w) \/ Open(w) \/ (Lock(w) /\ ~Claimable) \/ RecordLeaseLost(w)
                 \/ Finalize(w) \/ Settle(w) \/ Throws(w) \/ Failed(w) \/ FailJob(w) \/ Crash(w)
        BY <4>1, LeavingSteps, AsideKeeps
      <4>2. Good(w) => Typed /\ Kept'
        BY DEF Good
      <4> QED BY <3>2, <4>1, <4>2, ChainSteps DEF WorkerStep, Fault
    <3> QED BY <1>2, <3>1, <3>2 DEF Next
  <2>2. TypeOK'
    BY <1>2, <2>1, RunSteps, RestTyped DEF IInv, TypeOK, Typed, RunType
  <2>3. AttemptLeft' /\ OutcomeIsTrue' /\ JobTellsRun'
    BY <1>2, JobSteps
  <2> QED BY <2>1, <2>2, <2>3 DEF IInv, Kept
<1> QED BY <1>1, <1>2

-----------------------------------------------------------------------------
\* The conjunction of all the parts is an invariant of a playbook run.
THEOREM Inductive == Spec => []IInv
<1>1. Init => IInv
  BY InitHolds
<1>2. IInv /\ [Next]_vars => IInv'
  BY StepHolds
<1> QED BY <1>1, <1>2, PTL DEF Spec

\* Every variable keeps its type.
THEOREM TypeCorrect == Spec => []TypeOK
<1>1. IInv => TypeOK
  BY DEF IInv
<1> QED BY <1>1, Inductive, PTL

\* Of the commands of one step at most one is running, may be running or has
\* completed, if every attempt that was retried got as far as its command: the
\* attempts are made in order (CommandsInOrder), by whoever holds the lock.
THEOREM OneCommand == Spec => []OneCommandOfAttempts
<1>1. IInv => OneCommandOfAttempts
  <2> SUFFICES ASSUME IInv, NEW s \in Commands \ loose, NEW t \in 1 .. Tries, NEW u \in 1 .. Tries,
                      command[s][t] \in Unsettled, command[s][u] \in Unsettled, t # u
               PROVE  FALSE
    BY DEF OneCommandOfAttempts
  <2>1. Tries \in Nat
    BY Numbers
  <2>2. (t < u => command[s][t] = "failed") /\ (u < t => command[s][u] = "failed")
    BY DEF IInv, CommandsInOrder, Unsettled
  <2> QED BY <2>1, <2>2 DEF Unsettled
<1> QED BY <1>1, Inductive, PTL

\* No step starts before the steps before it have succeeded, and no run is
\* completed before all have, whatever a worker resumes from or overwrites.
THEOREM OrderIsKept == Spec => []StepsInOrder
<1>1. IInv => StepsInOrder
  BY DEF IInv
<1> QED BY <1>1, Inductive, PTL

\* The job is completed only when its run is.
THEOREM JobIsTrue == Spec => []JobTellsRun
<1>1. IInv => JobTellsRun
  BY DEF IInv
<1> QED BY <1>1, Inductive, PTL

\* A settled run keeps its outcome.
THEOREM SettledStays == Spec => RunSettledOnce
<1>1. TypeOK /\ [Next]_vars => [run.status \in Terminal => run'.status = run.status]_vars
  BY RunSteps DEF vars
<1> QED BY <1>1, TypeCorrect, PTL DEF Spec, RunSettledOnce

\* A webhook whose outcome is unknown is not fired again, unless a retry dropped
\* its mark: the worker that is about to fire has found no mark of another one
\* (WebhookOfStep), and every such webhook is marked (FiredIsMarked).
THEOREM MarkedStays == Spec => MarkPreventsReplay
<1>1. IInv /\ [Next]_vars =>
        [\A w \in Workers, s \in Webhooks \ loose : Fires(w, s) => flight[s] = {}]_vars
  <2> SUFFICES ASSUME IInv, NEW w \in Workers, NEW s \in Webhooks \ loose, Fires(w, s)
               PROVE  flight[s] = {}
    OBVIOUS
  <2>1. worker[w].pc = "fire" /\ Step(w) = s
    BY DEF Fires, At
  <2>2. WebhookOfStep(w)
    BY <2>1 DEF IInv, InTheChain, Chain, InChain
  <2> QED BY <2>1, <2>2 DEF WebhookOfStep, At
<1> QED BY <1>1, Inductive, PTL DEF Spec, MarkPreventsReplay
=============================================================================

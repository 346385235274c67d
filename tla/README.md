# VControlHub: a TLA+ model of its background work

VControlHub is a control panel for fleets of servers: a web application over
PostgreSQL, with worker processes that run commands over SSH or an Agent,
playbooks, backups, downloads and schedules. Its pages and API routes are thin;
what is hard is the background work. Several processes poll the same tables, every
handler is a chain of single statements with `await`s between them, processes die
and restart, leases run out, and operators cancel and edit in the middle. This
project models that core and checks what it promises.

## The system: inventory

Paths are below `src/src/lib`.

| part | state | operations | what is hard |
|---|---|---|---|
| `job` | rows of `jobs`: status, attempts, availableAt, leaseExpiresAt, workerId | enqueue, claim (with caps), heartbeat, complete, fail, cancel, stale sweep, orphan sweep, prune | two claims at once, late reports of a lost lease, late heartbeats, retries decided on a stale count, crashes |
| `command` | `command_requests`, `command_targets`, their `command.execution` job | create, review, queue, execute, finalize, cancel, recover stale, recover queued | five actors on two tables without a common transaction; compensation after a failed step |
| `scheduled-task` | `scheduled_tasks`, `scheduled_task_runs` | claim an occurrence, dispatch, link, roll back, record, edit, toggle, delete, retry, reconcile | a lease kept in the column that holds the schedule; edits during a claim; workers slower than the lease |
| `playbook` | `playbook_runs` with step results, their `playbook.run` job | trigger, run steps, retry, resume, finalize, sweep | resume after a crash or a lost lease: which step was already sent? |
| `server` (Agent) | `server_agent_jobs`, the Agent's own list of results | offer, poll, acknowledge, report, cancel, fall back to SSH | at most one of Agent and SSH may run a command; HTTP answers get lost |
| `upload`, `storage` | `media_upload_sessions`, chunk files, the file in the storage | append, finalize under a lease, cancel, recover, expire | a write to a remote whose outcome is unknown; appends beside a finalizer |
| `ssh-ws-proxy.ts` and the browser's terminal | shells with history and timer, WebSockets, windows | open, print, detach, claim and replay, end | the same shell claimed by two sockets, output while nobody reads |
| `concurrency` | advisory locks, limiter queue, in-flight map | acquire, try, release | sessions that die with a lock, wake-up order |
| `workers` | timers and `running` flags per process | start, tick, stop | ticks that overlap |
| `downloads`, `backup`, `sync`, `files`, `quick-service`, `itsm` | their own rows, each with a job | run as jobs of the queue | remote I/O; the claim and the fence are the queue's |
| `auth`, `team`, `api-token`, `audit`, `cost`, `health`, `monitoring`, `ai`, UI | configuration, measurements, reports | requests | no concurrent control of their own that these models need |

How they interact: a reviewer's or a schedule's request becomes a
`command_requests` row; `enqueueApprovedCommandExecution` claims it and adds a job;
the command worker claims the job (`claimNextJob`), runs the targets and settles
request and job. The maintenance worker recovers jobs (`recoverStaleRunningJobs`) and
requests (`recoverStaleRunningCommandRequests`, `recoverQueuedApprovedCommandRequests`).
A scheduled task creates a request through `createCommandRequest` with an
idempotency key made of task and occurrence, and links the request as a run. A
playbook run is a job whose steps create command requests. The executor of a command hands it
to the Agent of the server and falls back to SSH when the Agent has certainly not begun it.
Uploads and terminals stand apart: they have their own leases and timers. Worker processes
share nothing but the database.

`PROJECT.json` lists every part, the main hazards with the line where each bites, and
the source lines behind every definition.

## The modules

### `JobQueue`: the durable queue

State: `jobs` (the table), `slot` (one worker loop's place to run a job, with the job
and attempt it works on, its own deadline and whether it has lost its lease), `beats`
(heartbeat updates under way), `sweep` (progress of `recoverStaleRunningJobs`) and
`lock` (the transaction-level advisory lock of a claim under caps).

Each database statement is one action. `claimNextJob` is `ClaimBegin` (takes `now`),
`ClaimCount`/`ClaimCapped` (lock and count, only under caps) and
`ClaimTake`/`ClaimNone`; `failJob` is `FailRead` and `FailWrite`; the sweep is two
reads and two updates. `runWithLeaseHeartbeat` is the `Beat...` actions, the expiry
timer and the three ends of a run: `RunReturns`, `RunThrows`, `RunLost`. Any call may
fail (`ClaimFails`, `BeatFails`, `SettleFails`, `SweepFails`) and a process may die at
any point (`Crash`). A heartbeat may be delayed beyond the end of its run and beyond its
lease, and still lands (`BeatUnheard`).

Time is relative: availableAt and leaseExpiresAt are ticks to go, a call carries its
age, and a comparison with the `now` a call took at its start is a comparison with
minus its age. So the state space is finite without a bound on the clock. A call
older than `CallLag` fails, as Prisma's transaction timeout makes it.

The guard `{ id, status: RUNNING, workerId }` of every worker's update is the operator
`Fenced`. Slots may share a workerId (`WorkerOf`), as the three download slots of a
process do.

`AttemptedWork` is the abstract specification: a job waits, is in try n, or is done, and
every try is counted when it begins. `JobQueue` implements it (`ImplementsWork`) with
`phase` read from the row's status and `used` from its attempts; leases, slots,
heartbeats and the sweep disappear. One step of the queue may move several jobs (the sweep's
`updateMany`), so the abstract step does too.

`JobQueueCaps` adds a history variable to it, `revived`: the rows under a live lease that a heartbeat
gave them after the old one had run out. It is set beside `Next` (`CapsNext`) and no action reads
it. The caps are stated over the other rows (`Claimed`).

### `CommandRequest`: one request from review to result

State: the statuses of request, targets and jobs, the heartbeat of the request as fresh
or stale, and where each actor stands: two enqueuers (the call that created or approved
the request, and the maintenance sweep), one executor per job with one leg per target,
a reviewer, a canceller and the stale sweep. `sent`, `acked` and `unanswered` are history: which job
started a transport on which target, which transport reported its cancellation, and which jobs were
committed by an `enqueueJob` that threw.

The job is reduced to what this component sees of `JobQueue`: it has one attempt, so it is
claimed at most once (`JobClaimed`), and may be cancelled, abandoned or lose its lease
(`JobLost`) while its executor carries on, since the command worker does not stop on
a lost lease. `Look` to `Record` are `executeTarget`; `Start` to `Ack` are
`executeAndFinalizeCommand`; `Settle` to `FailJob` are `handleClaimedJob`. Authorization and
the checks of credentials are a choice (`Deny`). The constant `LostAnswers` says whether an
`enqueueJob` that throws may have committed.

Between the live re-read (`Look`) and the start of the transport (`Send`) lies the cancellation monitor.
Its first check is awaited (`service-execution.ts:164`), later ones come from a timer every second, and
the transport starts several `await`s after them: `Check` reads the statuses and clears or aborts the
leg, `Send` starts an unaborted one without reading anything, `Refuse` is the look at the signal in the
transport itself. So a cancellation may land after the check and before the start.

`ReviewedCommand` is the abstract specification, for whoever asks for a command, reviews it and
calls it off: each delivery of the command to a target is cleared before it starts, none is cleared
before the request is allowed, once it was called off or when the target has failed; a request that
was called off is not completed any more; and request and targets get one outcome each. It does not
promise that nothing starts after a request was called off, which the code does not keep: what
was cleared just before may still start. `CommandRequest` implements it (`ImplementsReviewed`): a
delivery is cleared while its leg is between check and transport; APPROVED and RUNNING are both "allowed",
so that a request may go back and forth between them, but CANCELLING is "stopping", from which there is
no way back. Jobs, enqueuers, heartbeats and sweeps disappear.

### `ScheduledTask`: one task and its occurrences

State: the clock, the task's row, the occurrences for which a request exists (by
idempotency key) and those with a run row, the progress of each worker, and two
histories: the times the schedule has ever named, and the workers that read the row
before the user's last edit. A cron schedule is due at the multiples of `Period`; a ONCE
task at its `runAt`. Two claims do not fall into the same tick, as leases are in
milliseconds and identify the claim. The user's operations are atomic: read and write
of one edit are a single step, since two users editing at once are not what the
properties are about.

### `AgentJob`: a command between the Agent and SSH

State: the row, its age against the caller's deadline, the caller (`executeCommandWithAgent`),
the poll requests the hub serves, the Agent with the result it still has to deliver, and
`ran`, what really happened on the server. Requests and answers are lost in either
direction (`Abandon`, `Unheard`, `PostFails`); statements the caller stopped waiting for still
land later (`late`). A caller that is told null goes on to run the command over SSH, and
that is a run of the command like the Agent's. The hub's poll handler is one action per
part of the route (`Complete`, `Acknowledge`, `Heartbeat`, `Claim`), `Swept` is what a claim
first does to rows whose lease ran out or that nobody waits for any more. There is no clock: a lease may run out at any time after it was written.

`DelegatedCommand` is the abstract specification: the server starts the command once at most, the
caller is answered once, and after an answer that settles the matter the server never starts it.
It has only what ran and what was told; `AgentJob` implements it (`ImplementsCommand`) with its
history `ran` and the caller's answer. A call that ends with "unknown" or with an error leaves
open what becomes of the command, as the code does.

### `PlaybookRun`: a run, its job and its steps

State: the `playbook_runs` row, the job (the part of `JobQueue` a run sees, without clock), the
playbook's advisory lock, the command requests by step and attempt, the workers, and
history: webhooks fired by a worker that has not heard how they ended (`flight`), answered ones (`done`),
steps whose retry let go of an earlier attempt too early (`loose`), and whether the sweep's update of the run failed
(`unswept`). A worker goes through `handleJob` and `processPlaybookRun` statement by statement;
any statement may throw, a lost lease is noticed late or not at all, and a second worker
resumes from the results saved.

### `UploadSession`: chunks and the finalization lease

State: the row, the chunk files, the appends, the finalizers with what each knows of its lease,
their database calls under way (the main one and the heartbeat), and the truth about the
storage (`wrote`, `inflight`, `landed`). An append holds the row lock from its validation to
its commit, unless the database ends its transaction. A write to the storage may succeed,
be refused, or fail with an unknown outcome and land later. A database call may commit
although the request sees it fail (`BeginUnanswered`, `FailUnanswered`). `Recover` is the sweep of
expired leases.

`ClaimedUpload` is the abstract specification: one request is given the upload for good and alone
begins to write; it settles as completed with its bytes in place, as failed with the target
untouched, or as to be reviewed; and what each request is told is true then and later.
`UploadSession` implements it (`ImplementsUpload`): leases, heartbeats, chunks, the row lock and the
recovery disappear, bytes still land late.

### `TerminalResume`: shells that survive their browser

State: the shells (attached socket, stretch of the history kept, paused, detached), the
gateway's handler of each socket, the messages on the way to a window, and the windows with the
shell they know and the byte they have. A step is what the process does between two `await`s:
`Claim` takes a detached shell before the authorization, `Attach` replays and goes live after it.
Output is a byte count, so a gap or a doubled stretch is a wrong number.

## What the runs check

| run | instance | result |
|---|---|---|
| `queue_lease` | 1 job, 2 attempts, 2 processes, lease 3, calls up to 1 tick late | attempts, fence, exclusive execution, settled rows hold; the queue implements `AttemptedWork` |
| `queue_caps` | 2 jobs, 2 processes, lease 2, calls up to 1 tick late, global cap 1 | the rows that a claim brought under a live lease keep the cap |
| `queue_budgets` | the same with 2 jobs of one creator on two nodes, cap 1 per creator and per node, 2 in all | so do they the budgets |
| `queue_settles` | 1 job, 1 process, global cap 1, calls up to 1 tick late, with fairness | every waiting job settles; a run that lost its job learns of it |
| `command_safety` | 2 targets, 1 job | the component implements `ReviewedCommand`, COMPLETED means every target ran, a COMPLETED job means a COMPLETED request |
| `command_once` | 1 target, 2 jobs, with fairness | no target is dispatched twice; an approved request is settled |
| `scheduled_safety` | 2 workers, period 2, lease 1, 3 ticks | only occurrences are dispatched, none is lost by a claim, claims yield to edits |
| `agent_safety` | 1 call, 2 polls at a time, with fairness | a command is never run twice, the component implements `DelegatedCommand`, no result is dropped, every caller is answered |
| `playbook_safety` | a command and a webhook step, 2 tries, 2 attempts of the job, 2 workers, with fairness | an attempt has one command, steps keep their order, a saved mark prevents a replay, run and job agree and settle |
| `upload_safety` | 1 chunk sent twice, 2 finalizers, lease 2, with fairness | the component implements `ClaimedUpload`, COMPLETED means landed, a plain failure means untouched, uncertainty keeps the chunks, one writer, under its lease, over frozen chunks; every finalization settles |
| `terminal_safety` | 1 window, 3 sockets, 3 bytes, history of 2, 1 detached shell allowed, with fairness | exact output, no orphan, no paused shell without reader, the cap, every shell ends |
| `terminal_detached` | the same | violated: see below |

Some properties are proved but have no run of their own, since one in the table contains them:
`NoStrandedPending` (queue) is contained in `ImplementsWork`, `SettledForGood` of commands and of uploads
in `ImplementsReviewed` and `ImplementsUpload`, except for the exact status, and what `ResultMeansOver` (Agent)
says of the answers in `ImplementsCommand`. The
type invariants of the other modules hold on the same instances (add `TypeOK` to the
configuration); they are not listed with the runs, which are about behaviour.

Each property of these runs has a mutant, a definition changed the way a slip in the code
would change it (`Variant:` in the modules), which makes TLC find a violation.

### Where the code departs from what it says

One run shows a disagreement between the code and a comment in it.

* `terminal_detached`: `ssh-ws-proxy.ts:544` says of detached shells "Of those, the ones no browser
  is attached to; they count against the caps." A socket whose window has left is claimed late
  and gives the shell back (lines 1179-1181: detached, timer armed) while a newer
  socket of the window is being authorized (line 1183). The newer one then attaches (line 1192) and
  leaves the timer running: the shell ends after the detach time although it is in use.
  `NoOrphan` and `ExactOutput` hold all the same.

Further departures, each stated as a definition in its module that fails when it is
added to, or checked with, the configuration named; they are not runs of their own:

* `SettlesOwnAttempt` (`JobQueueLease.cfg` with `WorkerOf <- OneWorker`): the fence does not tell
  two runs of one process apart. A download run that lost its lease and then throws
  fails the attempt another slot of the process has begun (`downloads/execution-worker.ts:505`).
* `DispatchedOnce` over all `Jobs` (`CommandOnce.cfg` with `LostAnswers = TRUE`): an `enqueueJob` whose
  answer is lost is taken for one that queued nothing (`service-execution.ts:720`), and the command is
  dispatched twice. `DispatchedOnce` excepts the jobs of `unanswered`, and `SentOnce` proves that
  nothing else leads to a second dispatch.
* A command starts although its request is CANCELLING already, or even CANCELLED, when the cancellation
  lands after the last check of the monitor (`service-execution.ts:164`) and before the transport
  starts (lines 176 and 236); the next check aborts the transport. `ReviewedCommand` allows exactly this.
* `RecordedMovesOn` (`ScheduledSafety.cfg`): a run linked by a worker that outlived its lease
  leaves the claim of the next worker standing for good (`scheduled-task/service.ts:416`).
* `FailureMeansOver` (`AgentSafety.cfg`): a database error while the caller polls
  (`agent-service.ts:345`) is a plain failure to the executor, which marks only
  `CommandCancellationUnconfirmedError` as an unknown outcome (`service-execution.ts:192`), although the
  Agent may be running the job.
* `NeverReplayed` (`PlaybookSafety.cfg`): `executor.ts:363` says "Never auto-replay a
  dispatched-but-unconfirmed webhook on reclaim." The gate throws as intended, but the throw is
  an attempt like any other: with a retry left, `onRetry` (`executor.ts:538-545`) drops the mark and
  the next attempt sends again. An abort through a lost lease has the same effect, since
  `fetchWebhookSafely` turns it into an ordinary answer. `MarkPreventsReplay` states what does hold.
* `OneCommandOfStep` (`PlaybookSafety.cfg`): the first attempt's create throws, the second
  creates its command, the process dies before it saves that, and the resumed run creates the
  first attempt's command: two commands of one step. `OneCommandOfAttempts` states what does hold.
* The sweep swallows a failed update of the run (`service-maintenance.ts:185-193`) after it
  failed the job; the run stays running. `EveryRunSettles` excepts exactly this.
* `upload/service.ts:306` says "A finalizer cannot claim FINALIZING between this validation and
  rename." It can when the database ends the append's transaction before the rename;
  `FrozenChunks` excepts exactly this.
* `DeadlineWithinLease` (`JobQueueLease.cfg`): until its first renewal a run believes in its
  lease for the duration of the claim too long (`heartbeat-runner.ts:43`).
  `ExclusiveExecution` is therefore stated with a margin of `CallLag`, and holds with it.
* `CapsRespected` over `Active(0)` instead of `Claimed` (`JobQueueCaps.cfg`): a heartbeat that
  lands after its lease has run out revives a row that no longer counted against the caps
  (`service-lifecycle.ts:28`), beside a row claimed in its place. `Claimed` excepts the
  rows of `revived`.
* `TerminalIsStamped` (`JobQueueLease.cfg`): the orphan sweep cancels rows without
  `completedAt` (`maintenance-worker.ts:178`), which `service-maintenance.ts:233` rules out.
* `CancelIsConfirmed` (`CommandOnce.cfg`): the second statement of the compensation
  (`service-execution.ts:727`) reaches targets another enqueuer has dispatched meanwhile, and a
  cancellation then calls them CANCELLED.
* `UntriedIsNotLost` (`CommandOnce.cfg`): a job claimed between the sweep's two reads
  (`service-recovery.ts:48`) hides from both; the request is failed untried.
* `TargetsSettleToo` (`CommandOnce.cfg` with `AliveSpec`, where every process lives and keeps
  working): a request is settled before its targets; if the second update fails nobody
  settles them (`service-execution.ts:616`). A cancellation between the two statements of
  the compensation has the same effect.
* `EditSticks` (`ScheduledSafety.cfg`): `recordTaskRun` overwrites a schedule saved since it
  was read (`scheduled-task/service.ts:570`).

### Bounds

`queue_lease` has the least in which the hard cases happen: two processes, so that one can
claim what the other lost; two attempts, so that a retry and an exhausted row both
occur; a lease longer than twice the delay of a call, so that late answers fall
before and after the deadline. A second job adds nothing there: jobs interact only
through the caps, which have their own runs with two jobs and calls up to a tick late, so that counts,
claims and heartbeats act on a `now` that is over; their jobs have one attempt, since a row that is
claimed again counts as any other. In the caps runs the jobs, and the processes with their slots, are
interchangeable, as the targets are in `command_safety`: the configurations say so (`SYMMETRY`), and check
no liveness. In `queue_settles` a row that a dead process left behind fills the cap until
its lease runs out, so that a claim has to wait for it.
`command_safety` needs two targets so that they can end differently;
`command_once` two jobs so that a second dispatch is possible. Both leave lost answers of
`enqueueJob` out, with which two jobs have too many states; `SentOnce` and
`Implements` are proved with them. In `scheduled_safety`
three ticks let a cron task come due, its lease run out and be claimed again by the
second worker. `agent_safety` has one call, since rows of one server interact only through the
Agent's list of results, but two polls at a time, so that a lost poll still runs in the hub
beside its repetition. `playbook_safety` has one step of each kind, in the order in which a wrong
resumption would skip or repeat one, and one more try than an attempt needs. In `upload_safety` two
appends carry the same chunk, the case in which one can replace what the other wrote.
`terminal_safety` needs three sockets, so that two claims overlap after a first
connection, and more output than history, so that it is cut. `MaxTime`, `MaxSockets` and `MaxOutput`
are the only bounds on counters.

Deadlock checking is off for the command, schedule and playbook runs: a settled request or run
and a deleted task really stop.

### Fairness

* Queue: the clock ticks, timers fire, and each call ends with an answer or an error
  (weak fairness): these are the runtime's and the driver's promises. A worker polls for
  ever (`createSingletonIntervalWorker`), and a run ends. Claims, and the later steps of the sweep,
  are strongly fair: each attempt may fail or its process may crash, but a loop
  that tries for ever succeeds at some time. Nothing makes users cancel or enqueue.
* `LostRunIsTold` needs only the clock, the expiry timer and an end of each heartbeat.
* Commands: weak fairness of each actor's next step. Transports end because executors
  bound them by `executionTimeoutMs`. Crashes and failed enqueues cease at some time; without that
  a request could be queued and lost for ever. Nobody has to approve, reject or cancel.
* Agent: only the caller's own steps and the passing of its deadlines are fair; the Agent may
  be gone for good, and still every caller is answered.
* Playbooks: workers go on, the queue hands out jobs and sweeps those of dead
  workers (`queue_settles`), and command requests end (`command_once`). Crashes are bounded by
  the attempts of the job.
* Uploads: handlers and heartbeats end, the clock ticks, and the maintenance worker runs
  for ever. Finalizers may die at any point.
* Terminals: authorization has a deadline of 5 s (`ssh-ws-proxy.ts:946`), the SSH handshake
  one of 15 s (line 212), the gateway's ping terminates dead sockets (lines 289-306), and the detach
  timer fires (line 615). Nobody has to type, print or come back.

## What is proved

Eight modules hold the proofs. Every safety invariant and every action property of
the passing runs is a theorem there, for all values of the constants; so are the four refinements.
The runs show them on one instance each, and are what found the right
invariants; only liveness is left to TLC alone.

| module | theorem | what it states |
|---|---|---|
| `JobQueueProofs` | `TypeCorrect`, `SettledStays` | `Spec => []TypeOK`, `Spec => SettledForGood` |
| | `NoStranded`, `Exclusive`, `OwnAttempt` | `FencedIds => (Spec => ...)` for `[]NoStrandedPending`, `[]ExclusiveExecution`, `SettlesOwnAttempt` |
| | `Implements` | `FencedIds => (Spec => ImplementsWork)` |
| `JobQueueCapsProofs` | `CapsKept` | `CapsSpec => []CapsRespected` |
| `CommandRequestProofs` | `TypeCorrect`, `CompletionIsTrue`, `JobsTellTheOutcome`, `SettledStays`, `SentOnce`, `Implements` | `Spec =>` `[]TypeOK`, `[]CompletedMeansRan`, `[]JobTellsOutcome`, `SettledForGood`, `[]DispatchedOnce`, `ImplementsReviewed` |
| `ScheduledTaskProofs` | `TypeCorrect`, `OccurrencesOnly`, `NothingLost`, `EditWins` | `Spec =>` `[]TypeOK`, `[]DispatchesOccurrences`, `NoOccurrenceLost`, `ClaimYieldsToEdit` |
| `AgentJobProofs` | `TypeCorrect`, `SshIsAlone`, `ResultIsTheEnd`, `ResultsAreKept`, `Implements` | `Spec =>` `[]TypeOK`, `[]NeverTwice`, `[]ResultMeansOver`, `ResultNotLost`, `ImplementsCommand` |
| `PlaybookRunProofs` | `TypeCorrect`, `OneCommand`, `OrderIsKept`, `JobIsTrue`, `SettledStays`, `MarkedStays` | `Spec =>` `[]TypeOK`, `[]OneCommandOfAttempts`, `[]StepsInOrder`, `[]JobTellsRun`, `RunSettledOnce`, `MarkPreventsReplay` |
| `UploadSessionProofs` | `TypeCorrect`, `CompletionIsTrue`, `PlainFailureIsTrue`, `ChunksAreKept`, `OneWriter`, `SettledStays`, `LeasedWrites`, `ChunksAreFrozen`, `Implements` | `Spec =>` `[]TypeOK`, `[]CompletedMeansLanded`, `[]PlainMeansUntouched`, `[]ReviewKeepsChunks`, `NoSecondWriter`, `SettledForGood`, `WritesUnderLease`, `FrozenChunks`, `ImplementsUpload` |
| `TerminalResumeProofs` | `TypeCorrect`, `OutputIsExact`, `ShellsAreHeld`, `PauseHasReader`, `CapHolds` | `Spec =>` `[]TypeOK`, `[]ExactOutput`, `[]NoOrphan`, `[]PausedHasReader`, `[]CapRespected` |

The assumptions are those the modules make of their constants, which TLC evaluates on every run: the
constants have their types and null is none of the other values, and

* `LagAssumption` (queue): a call fails sooner than a lease runs out, 5 s against at least 30 s;
* `PlaybookAssumption`: a playbook has at least one step (`playbook/schema.ts:119`), steps are
  numbered, a step and a job have at least one attempt;
* `CommandAssumption`: a request has a target; `ScheduleAssumption`: period and lease are not 0;
* `TableAssumption` (caps): the table of jobs is finite.

Some theorems of the queue have a hypothesis of their own, because they are false without it (see the
departures above): `FencedIds`, that slots which share a workerId run only jobs
with one attempt, as the command worker does and the download worker does not.

Every invariant is proved the same way: `IInv`, a conjunction of named parts, holds in `Init`, is kept
by each action, and implies what is claimed. TLC checked each `IInv` on the instance of its run before it
was proved. Action properties follow from `IInv` and the definition of one step. In the
larger modules the actions are first put into a few shapes (`RowMove`, `CallMove`, `Aside`,
`Parting`, ...), and each part of the invariant is then proved once per shape and not once per action.

**`JobQueue`.** `IInv` is `TypeOK` with `Consistent`, the
conjunction of: the property on attempts itself; an absent row has no attempts
(`AbsentIsFresh`); a slot's attempt is at most the row's count (`ClaimsCounted`); two
busy slots on one job are in different attempts (`ClaimsDistinct`); a slot whose
workerId is on the RUNNING row is in the row's own attempt (`FenceIsExact`, the heart of
the argument: this is what makes the workerId a fence); a retry that `failJob` decided
on is still justified when the fence holds (`RetryIsCurrent`); rows the sweep read as retryable
and that are still stale have attempts left (`SweepIsCurrent`); and a run that
believes in its lease by more than `CallLag` holds the row, under a lease at
least as long as its deadline less that delay (`BeliefIsSound`). `SweepIsCurrent` is
needed because the sweep's update does not look at the attempts: between its read and its
update a claim would have to come and its lease to run out, and the call fails before
that. `Exclusive` follows from
`BeliefIsSound` and `ClaimsDistinct`; `OwnAttempt` from `FenceIsExact`. `Implements` takes each action of the queue to an abstract step or a
stutter: a claim is a `Try` because its guard reads the attempts; the two writers that act on an
earlier read, `failJob`'s retry and the sweep's requeue, are a `GiveBack` only by `RetryIsCurrent` and
`SweepIsCurrent`.

**The caps.** `CapsInv` adds to `CapsRespected` that who has counted holds the advisory lock and that
there is still room among the claimed rows (`CountHolds`). A claim counts the rows whose lease was
alive at its `now`, which may be some ticks old: these are at least the rows alive at present
(`ClaimedCounts`), so a late claim counts too many rows but never too few. Every other step leaves a
row that runs after it in its attempt, without more lease than before, or a heartbeat has
landed on it (`RowKept`); then it was claimed before, or is revived now (`KeptIsClaimed`). So claims alone add to
the claimed rows, one at a time, under the lock, where there is room (`TakeFits`). No condition on
workerIds or on the delay of calls is needed.

**`CommandRequest`.** Before approval nobody works on the request (`Quiet`); a job that is not
claimed has sent nothing (`JobsRun`); a leg that reports success was sent (`LegsSent`), and a
target is COMPLETED by such a leg (`TargetsRan`); whoever has decided on COMPLETED, executor or
stale sweep, has found all targets COMPLETED, and they stay so (`Decided`); an executor settles
its job after its request (`Settling`, `JobTellsOutcome`). `SentOnce` needs `OneClaim` beside it: apart from
the jobs in `unanswered` there is one enqueuer with a claim, or one job, never two, and none while the request
can still be claimed.

`Implements` (`ReviewedCommand`) holds with lost answers too. That a delivery is cleared only while the
request is allowed follows from what `Check` reads, with `JobsRun` and
`Quiet` for the time before the approval, and `TargetsRan` for a second job after a first one
has completed the target; that it starts only when cleared, from where a leg stands at `Send`. That a request called off is neither completed nor given back needs `StopsFirst`:
an executor that will report COMPLETED does not do so over CANCELLING, and the stale sweep has not
decided on COMPLETED from CANCELLING.

**`ScheduledTask`.** The row names a scheduled time, in `claimedOccurrenceAt` while `nextRunAt` is a lease
(`RowNames`), and so does what a worker remembers (`WorkerNames`). The compare-and-set of a
claim compares `nextRunAt` only; `ReadIsCurrent` says why that is enough: a lease written later ends later than
anything that was due at the read. A run is linked once its request exists
(`LinkHasRequest`); an edit ends every claim (`EditEndsClaim`).

**`AgentJob`.** A job is handed out in one answer only, before it is started (`HandedOnce`), by a row
that is then no longer PENDING (`RowStarts`); the Agent runs what it knows of (`AgentKnows`) and
listens to one answer at a time (`OneLive`); how far the hub has come with a result
says what the row is (`ResultsServed`); a settled row is of a command that is over or will never
start (`DoneIsOver`), and an answer is based on such a row (`AnswerIsFinal`). `NeverTwice` and
`ResultMeansOver` follow, and so does the refinement of `DelegatedCommand`: a start is possible only
for a command some request of the Agent still carries (`RanMove`), and an answer that settles the
matter is given only about one that is over or that nobody carries any more (`Idle`).

**`PlaybookRun`.** A worker is in the chain of statements between lock and unlock exactly while it holds the
playbook's lock (`LockHeld`), so what it knows there is disturbed by its own steps only.
`InTheChain` is that knowledge: how far its rounds are (`RoundsOf`), that all earlier steps are ok
(`OrderOf`), which results are saved (`SavedOf`), that the commands of its earlier attempts have failed
(`CommandsOfStep`), and that a fired webhook is marked (`WebhookOfStep`). Outside the chain: a result "ok" is of a
step that succeeded (`OkIsTrue`), commands were created in order (`CommandsInOrder`), a webhook under
way is marked in the row (`FiredIsMarked`), an outcome to be reported is the run's (`OutcomeIsTrue`), a
job that can be claimed has an attempt left (`AttemptLeft`).

**`UploadSession`.** The row lock keeps the session open (`LockKeepsOpen`); an owner stays
(`OwnerStays`), has seen all chunks (`ClaimedIsComplete`), and they are on disk while they are of use
(`ReceivedIsOnDisk`); who removes the directory has settled the session before
(`RemovalIsSettled`); what a finalizer's place and flag say about its write (`WriteIsKnown`); the owner of a plain
failure has stopped (`PlainIsOver`); and an answer that is not too old proves a lease (`HitIsLease`), from
which `LeasedWrites` follows for late answers too. `Implements` (`ClaimedUpload`) puts each step into one shape per
abstract variable: what becomes of the row (`SessionMoves`), whose bytes arrive (`Lands`), and what is
answered (`Answered`). It needs one part more, `CleanIsOwn`: who removes the chunks before it answers
success is the owner.

**`TerminalResume`.** Who is attached is at work on that shell (`Attached`); a shell is known to nobody but its
first socket until it is open (`FirstSocket`); a window has no more of a shell than it has printed
(`WindowKnows`); a socket is one window's and asks for what that window has (`OneReader`); and what is on the way:
one greeting, first, then output of the socket's shell (`QueueShape`, `Greeted`). `ExactOutput` is about
the whole queue of messages; its proof goes over the places where a step changes one end of it.

Only model-checked: all liveness, since fairness and ENABLED are outside the prover
(`EveryJobSettles`, `LostRunIsTold`, `EveryRequestSettles`, `EveryCallAnswered`, `EveryRunSettles`,
`EveryFinalizationSettles`, `EveryShellEnds`), and the counterexample of `terminal_detached`.

A note on the form of the models: version 1.4.5 of the proof manager translates
`[f EXCEPT ![x].a = u, ![x].b = v]`, the same index twice, wrongly for its SMT backend, so that
anything can be proved from it. No module uses that form: a record with several
changed fields is written as `[f EXCEPT ![x] = [@ EXCEPT !.a = u, !.b = v]]` or out in full. The
proofs of each module were also run with the body of every `Variant:` that breaks one of its
safety properties in place of the definition it varies: each time some steps of the proof fail, and the rest
stand.

## What is not modelled

In the modelled parts: the order in which claims prefer jobs (priority, ageing, fair share;
any eligible row may be taken), pruning of settled rows, job events and execution logs,
RUNNING rows without a lease from older versions, chunks of five targets, `outcomeUnknown`, audit and notification, manual
retry and reconciliation of scheduled runs, run counters, and the queueing of tick
jobs. Agents: enrolment, tokens, self-update, metrics, and a job whose row has vanished while its caller
polls (`agent-service.ts:325`: null, as for a job that was never dispatched). Playbooks: templates, conditions and
schedules of triggers, a manual re-run, the loss of the advisory lock's session, and the
notification step, which is executed as a webhook is. Uploads: finalization slots, quota and
overwrite locks, retention, the administrator's acknowledgement of a reviewed
session, and a difference between the clocks of application and database; a statement that compares a
lease does so with the clock at which it lands, where the code computes `now` in the process just before
(`service.ts:431`, `finalization-lease.ts:61`). Terminals: the input
path, keep-alive switched off, clients that send no offset, the time between a socket's leaving the state OPEN and its close event
(`Close` is both; `ssh-ws-proxy.ts:1165` after 1180 would find the shell given back), several users, endpoints and duplicated
tabs. Other parts, with the reason, are in the components of `PROJECT.json`: they are
remote I/O, measurement or configuration, or are planned.

## Plan

1. Done: `JobQueue` with the refinement of `AttemptedWork`, `CommandRequest` with that of
   `ReviewedCommand`, `AgentJob` with that of `DelegatedCommand`, `UploadSession` with that of
   `ClaimedUpload`, `ScheduledTask`, `PlaybookRun`, `TerminalResume`, and proofs of all their safety
   properties and of the four refinements.
2. Proofs that would add most: what is true of the departures, as theorems that name the exact
   exception (a settled request whose targets are not, an edit that is overwritten); abstract
   specifications of a playbook's steps and of a resumable stream, and the refinement by `PlaybookRun`
   and `TerminalResume`.
3. Extensions: `AdvisoryLock` with the single-flight enqueue of tick jobs, `Limiter`, the order of
   claims with ageing (no job starves), prunes, reconciliation of scheduled runs.

------------------------------ MODULE AgentJob ------------------------------
(***************************************************************************)
(* A command handed to the Agent of a server (server/agent-service.ts).    *)
(* A caller, executeCommandWithAgent, creates a server_agent_jobs row and  *)
(* watches it; the Agent polls the hub over HTTP, is handed jobs, runs     *)
(* them, asks with heartbeats whether they are cancelled, and sends each   *)
(* result until the hub takes it.  Requests and answers are lost or late,  *)
(* the Agent stops, crashes and restarts, the hub's statements fail, and   *)
(* the caller gives up, is aborted or dies.  A caller that is told null    *)
(* runs the command over SSH instead.                                      *)
(*                                                                         *)
(* There is no clock: a lease may run out at any time after it was written *)
(* (an Agent can hang in a slow request), and a row grows old in two       *)
(* steps, at the caller's deadline and at the end of the pending grace.    *)
(***************************************************************************)
EXTENDS Naturals

CONSTANTS
    Jobs,       \* calls of executeCommandWithAgent for one server, and their rows
    Handlers,   \* poll requests the hub may be serving at the same time
    None        \* null

VARIABLES
    row,       \* server_agent_jobs
    age,       \* of a row: before the caller's deadline, after it, or stale
    call,      \* executeCommandWithAgent of each job
    late,      \* statements of a call that are still under way after it gave up on them
    agent,     \* the Agent process
    handler,   \* POST /api/agent/v1/poll
    ran        \* the command on the server: never started, running, over

vars == <<row, age, call, late, agent, handler, ran>>

Codes == {0, 1, 124, 130}   \* exit codes; 1 is any other failure
Row == [status : {"NONE", "PENDING", "CLAIMED", "COMPLETED", "FAILED", "CANCELLED"},
        done : BOOLEAN,                \* completedAt is set
        exit : Codes \cup {None},
        expired : BOOLEAN]             \* leaseExpiresAt has passed
NoRow == [status |-> "NONE", done |-> FALSE, exit |-> None, expired |-> FALSE]
Answers == {"completed", "failed", "cancelled",   \* a result
            "ssh",                                \* null
            "unknown",    \* CommandCancellationUnconfirmedError
            "error"}      \* any other error

Result == [job : Jobs, exit : Codes, rejected : BOOLEAN]

ASSUME NoneAssumption == None \notin Jobs \cup Answers \cup Result

Call == [pc : {"idle", "create", "poll", "deadline", "abort", "cancel", "await",
               "answered", "gone"},
         answer : Answers \cup {None}, aborted : BOOLEAN]
Agent == [pc : {"idle", "post", "run", "beat", "leave", "down"},
          job : Jobs \cup {None}, pending : Result \cup {None}]
Handler == [pc : {"free", "complete", "acknowledge", "serve", "reply"}, live : BOOLEAN,
            result : Result \cup {None}, beat : Jobs \cup {None}, stopping : BOOLEAN,
            job : Jobs \cup {None}, cancelled : BOOLEAN]

\* A settled row, completedAt included.
Settled(status, exit) ==
    [status |-> status, done |-> TRUE, exit |-> exit, expired |-> FALSE]
\* CANCELLED without completedAt: the Agent is asked to stop.
CancelRequested(exit) ==
    [status |-> "CANCELLED", done |-> FALSE, exit |-> exit, expired |-> FALSE]

\* POST has validated and authenticated the request, and starts with its result;
\* live, the Agent is waiting for the answer.
Request(result, beat, stopping) ==
    [pc |-> IF result # None THEN "complete" ELSE "serve", live |-> ~stopping,
     result |-> result, beat |-> beat, stopping |-> stopping,
     job |-> None, cancelled |-> FALSE]
FreeHandler == [pc |-> "free", live |-> FALSE, result |-> None, beat |-> None,
                stopping |-> FALSE, job |-> None, cancelled |-> FALSE]
IdleAgent == [pc |-> "idle", job |-> None, pending |-> None]

Init ==
    /\ row = [j \in Jobs |-> NoRow]
    /\ age = [j \in Jobs |-> "young"]
    /\ call = [j \in Jobs |-> [pc |-> "idle", answer |-> None, aborted |-> FALSE]]
    /\ late = {}
    /\ agent = IdleAgent
    /\ handler = [h \in Handlers |-> FreeHandler]
    /\ ran = [j \in Jobs |-> "never"]

-----------------------------------------------------------------------------
\* executeCommandWithAgent.

callVars == <<call, late, row, age>>
agentVars == <<agent, handler, ran>>

At(j, pc) == call[j].pc = pc
Goto(j, pc) == call' = [call EXCEPT ![j].pc = pc]
Answer(j, a) == call' = [call EXCEPT ![j] =
                           [pc |-> "answered", answer |-> a, aborted |-> @.aborted]]

\* A call that was aborted before is answered at once; a server whose Agent was
\* not seen lately is left to SSH.
Begin(j) ==
    /\ At(j, "idle")
    /\ IF call[j].aborted THEN Answer(j, "cancelled")
       ELSE Answer(j, "ssh") \/ Goto(j, "create")
    /\ UNCHANGED <<late, row, age, agentVars>>

Create(j) ==
    /\ At(j, "create")
    /\ IF call[j].aborted THEN Answer(j, "cancelled") /\ row' = row
       ELSE Goto(j, "poll") /\ row' = [row EXCEPT ![j].status = "PENDING"]
    /\ UNCHANGED <<late, age, agentVars>>

\* The insert fails, before its commit or after it.
CreateThrows(j) ==
    /\ At(j, "create") /\ ~call[j].aborted
    /\ row' \in {row, [row EXCEPT ![j].status = "PENDING"]}
    /\ Answer(j, "error")
    /\ UNCHANGED <<late, age, agentVars>>

\* What a settled row says; exit code 130 of a CANCELLED row is the
\* acknowledgement of a cancellation.
AnswerOf(r) == CASE r.status = "COMPLETED" -> "completed"
                 [] r.status = "CANCELLED" /\ r.exit = 130 -> "cancelled"
                 [] OTHER -> "failed"

\* The loop finds the row settled before its deadline.
Poll(j) ==
    /\ At(j, "poll") /\ age[j] = "young" /\ ~call[j].aborted
    /\ row[j].done
    /\ Answer(j, AnswerOf(row[j]))
    /\ UNCHANGED <<late, row, age, agentVars>>

\* The catch of executeCommandWithAgent: an abort, or an error that is passed on.
Caught(j) == IF call[j].aborted THEN Goto(j, "abort") ELSE Answer(j, "error")

PollThrows(j) ==
    /\ At(j, "poll") /\ Caught(j)
    /\ UNCHANGED <<late, row, age, agentVars>>

Deadline(j) ==
    /\ At(j, "poll") /\ age[j] # "young" /\ Goto(j, "deadline")
    /\ UNCHANGED <<late, row, age, agentVars>>

\* Variant: the row is cancelled in whatever state it is.
NeverDispatchedAnyStatus(j) ==
    /\ At(j, "deadline")
    /\ row' = [row EXCEPT ![j] = Settled("CANCELLED", 124)] /\ Answer(j, "ssh")
    /\ UNCHANGED <<late, age, agentVars>>

\* Only a job that is still PENDING is left to SSH.
NeverDispatched(j) ==
    /\ At(j, "deadline")
    /\ IF row[j].status = "PENDING"
       THEN row' = [row EXCEPT ![j] = Settled("CANCELLED", 124)] /\ Answer(j, "ssh")
       ELSE row' = row /\ Goto(j, "cancel")
    /\ UNCHANGED <<late, age, agentVars>>

NeverDispatchedThrows(j) ==
    /\ At(j, "deadline")
    /\ row' \in {row} \cup (IF row[j].status = "PENDING"
                            THEN {[row EXCEPT ![j] = Settled("CANCELLED", 124)]} ELSE {})
    /\ Caught(j)
    /\ UNCHANGED <<late, age, agentVars>>

\* A statement on the way to cancellation, applied in the status it expects.
CancelAs(status) == IF status = "PENDING" THEN Settled("CANCELLED", 130)
                                          ELSE CancelRequested(130)
Applied(j, status) ==
    row' = IF row[j].status = status THEN [row EXCEPT ![j] = CancelAs(status)] ELSE row

\* An aborted call takes back a job that no Agent has.
AbortPending(j) ==
    /\ At(j, "abort") /\ Applied(j, "PENDING")
    /\ IF row[j].status = "PENDING" THEN Answer(j, "cancelled") ELSE Goto(j, "cancel")
    /\ UNCHANGED <<late, age, agentVars>>

\* awaitAgentCancellation asks the Agent to stop, then waits for its report.
RequestCancel(j) ==
    /\ At(j, "cancel") /\ Applied(j, "CLAIMED") /\ Goto(j, "await")
    /\ UNCHANGED <<late, age, agentVars>>

\* withAgentCancellationDeadline: either statement fails, or is given up and
\* takes effect later.
GiveUp(j) ==
    /\ \/ At(j, "abort") /\ Goto(j, "cancel") /\ late' \in {late, late \cup {<<j, "PENDING">>}}
       \/ At(j, "cancel") /\ Answer(j, "unknown") /\ late' \in {late, late \cup {<<j, "CLAIMED">>}}
    /\ UNCHANGED <<row, age, agentVars>>

LateStatement(j) ==
    /\ \E status \in {"PENDING", "CLAIMED"} :
          /\ <<j, status>> \in late /\ late' = late \ {<<j, status>>}
          /\ Applied(j, status)
    /\ UNCHANGED <<call, age, agentVars>>

Await(j) ==
    /\ At(j, "await") /\ row[j].done /\ Answer(j, AnswerOf(row[j]))
    /\ UNCHANGED <<late, row, age, agentVars>>

\* Variant: the deadline is set again on every round of the loop.
AckDeadlineMoves(j) ==
    /\ At(j, "await") /\ ~row[j].done /\ UNCHANGED vars

\* AGENT_CANCEL_ACK_MS are over.
AckDeadline(j) ==
    /\ At(j, "await") /\ ~row[j].done /\ Answer(j, "unknown")
    /\ UNCHANGED <<late, row, age, agentVars>>

AwaitThrows(j) ==
    /\ At(j, "await") /\ Answer(j, "unknown")
    /\ UNCHANGED <<late, row, age, agentVars>>

\* input.signal: the loop and its delay throw; the row is cancelled from there.
AbortSeen(j) ==
    /\ At(j, "poll") /\ call[j].aborted /\ Goto(j, "abort")
    /\ UNCHANGED <<late, row, age, agentVars>>

\* Someone aborts the call; the process of the caller dies; time passes.
Abort(j) ==
    /\ ~call[j].aborted /\ call[j].pc \in {"idle", "create", "poll", "deadline"}
    /\ call' = [call EXCEPT ![j].aborted = TRUE]
    /\ UNCHANGED <<late, row, age, agentVars>>

CallerDies(j) ==
    /\ call[j].pc \notin {"idle", "answered", "gone"} /\ Goto(j, "gone")
    /\ UNCHANGED <<late, row, age, agentVars>>

Ages(j) ==
    /\ row[j].status # "NONE" /\ age[j] # "stale"
    /\ age' = [age EXCEPT ![j] = IF @ = "young" THEN "due" ELSE "stale"]
    /\ UNCHANGED <<call, late, row, agentVars>>

LeaseExpires(j) ==
    /\ row[j].status = "CLAIMED" /\ ~row[j].expired
    /\ row' = [row EXCEPT ![j].expired = TRUE]
    /\ UNCHANGED <<call, late, age, agentVars>>

-----------------------------------------------------------------------------
\* The hub: POST of /api/agent/v1/poll.

hubVars == <<call, late, age, ran>>

\* completeServerAgentJob, its first statement: the result of a claimed job...
Complete(h) ==
    LET r == handler[h].result
    IN /\ handler[h].pc = "complete"
       /\ row' = IF row[r.job].status = "CLAIMED"
                 THEN [row EXCEPT ![r.job] =
                         Settled(IF r.exit = 0 THEN "COMPLETED" ELSE "FAILED", r.exit)]
                 ELSE row
       /\ handler' = [handler EXCEPT ![h].pc = "acknowledge"]
       /\ UNCHANGED <<agent, hubVars>>

\* ... and its second: the answer to a cancellation request.
StatusOf(exit) == CASE exit = 130 -> "CANCELLED" [] exit = 0 -> "COMPLETED"
                    [] OTHER -> "FAILED"
Acknowledge(h) ==
    LET r == handler[h].result
    IN /\ handler[h].pc = "acknowledge"
       /\ row' = IF row[r.job].status = "CANCELLED" /\ ~row[r.job].done
                 THEN [row EXCEPT ![r.job] = Settled(StatusOf(r.exit), r.exit)]
                 ELSE row
       /\ handler' = [handler EXCEPT ![h].pc = "serve"]
       /\ UNCHANGED <<agent, hubVars>>

\* heartbeatServerAgentJob renews the lease, or says that the job is cancelled.
Heartbeat(h) ==
    LET j == handler[h].beat
    IN /\ handler[h].pc = "serve" /\ j # None
       /\ row' = IF row[j].status = "CLAIMED" THEN [row EXCEPT ![j].expired = FALSE] ELSE row
       /\ handler' = [handler EXCEPT ![h] =
                        [@ EXCEPT !.pc = "reply", !.cancelled = row[j].status = "CANCELLED"]]
       /\ UNCHANGED <<agent, hubVars>>

\* Variant: a lost lease settles the job.
SweptSettles(j) ==
    CASE row[j].status = "CLAIMED" /\ row[j].expired -> Settled("CANCELLED", 124)
      [] row[j].status = "PENDING" /\ age[j] = "stale" -> Settled("CANCELLED", 124)
      [] OTHER -> row[j]

\* claimNextServerAgentJob first asks for the jobs whose lease ran out to be
\* stopped, and cancels those that nobody waits for any more (twenty of them at
\* most in the code; stale jobs beyond those are passed over).
Swept(j) ==
    CASE row[j].status = "CLAIMED" /\ row[j].expired -> CancelRequested(124)
      [] row[j].status = "PENDING" /\ age[j] = "stale" -> Settled("CANCELLED", 124)
      [] OTHER -> row[j]

\* Then it claims a pending job that is not stale (the oldest; which one makes
\* no difference here).  A stopping Agent is given none.
Claim(h) ==
    LET swept == [j \in Jobs |-> Swept(j)]
        open == {j \in Jobs : swept[j].status = "PENDING"}
    IN /\ handler[h].pc = "serve" /\ handler[h].beat = None
       /\ \/ /\ handler[h].stopping /\ row' = row
             /\ handler' = [handler EXCEPT ![h].pc = "reply"]
          \/ /\ ~handler[h].stopping /\ open = {} /\ row' = swept
             /\ handler' = [handler EXCEPT ![h].pc = "reply"]
          \/ /\ ~handler[h].stopping
             /\ \E j \in open :
                   /\ row' = [swept EXCEPT ![j].status = "CLAIMED"]
                   /\ handler' = [handler EXCEPT ![h] = [@ EXCEPT !.pc = "reply", !.job = j]]
       /\ UNCHANGED <<agent, hubVars>>

\* The request to which the Agent no longer waits for an answer is through.
Unheard(h) ==
    /\ handler[h].pc = "reply" /\ ~handler[h].live
    /\ handler' = [handler EXCEPT ![h] = FreeHandler]
    /\ UNCHANGED <<row, agent, hubVars>>

-----------------------------------------------------------------------------
\* The Agent (buildAgentPython).

agentOnly == <<row, call, late, age>>

Serves(h, request) == /\ handler[h].pc = "free"
                      /\ handler' = [handler EXCEPT ![h] = request]
\* What becomes of a request the Agent stops waiting for: it never reached the
\* hub or fails there, or the hub goes on with it.
Abandon ==
    \E kept \in BOOLEAN :
        handler' = [h \in Handlers |->
                      IF handler[h].live
                      THEN IF kept THEN [handler[h] EXCEPT !.live = FALSE] ELSE FreeHandler
                      ELSE handler[h]]

\* The loop polls, with the result the hub has not taken yet.
Post(h) ==
    /\ agent.pc = "idle" /\ Serves(h, Request(agent.pending, None, FALSE))
    /\ agent' = [agent EXCEPT !.pc = "post"]
    /\ UNCHANGED <<ran, agentOnly>>

\* The answer comes: the result is taken, and a job starts or, if the shell
\* cannot be started, has failed.
Posted(h) ==
    LET j == handler[h].job
    IN /\ agent.pc = "post" /\ handler[h].live /\ handler[h].pc = "reply"
       /\ \/ j = None /\ agent' = IdleAgent /\ ran' = ran
          \/ /\ j # None /\ ran' = [ran EXCEPT ![j] = "running"]
             /\ agent' = [IdleAgent EXCEPT !.pc = "run", !.job = j]
          \/ /\ j # None /\ ran' = [ran EXCEPT ![j] = "over"]
             /\ agent' = [IdleAgent EXCEPT !.pending =
                            [job |-> j, exit |-> 1, rejected |-> FALSE]]
       /\ handler' = [handler EXCEPT ![h] = FreeHandler]
       /\ UNCHANGED agentOnly

\* Variant: the result is sent once.
PostFailsForgets ==
    /\ agent.pc = "post" /\ Abandon
    /\ agent' = IdleAgent
    /\ UNCHANGED <<ran, agentOnly>>

\* No answer, or one that is not 200: the result stays pending.
PostFails ==
    /\ agent.pc = "post" /\ Abandon
    /\ agent' = [agent EXCEPT !.pc = "idle"]
    /\ UNCHANGED <<ran, agentOnly>>

\* The hub refuses the payload (400): the result is replaced by a plain failure,
\* and that one is dropped if it is refused as well.
PostRefused(h) ==
    /\ agent.pc = "post" /\ handler[h].live /\ handler[h].pc = "complete"
    /\ agent' = [IdleAgent EXCEPT !.pending =
                   IF agent.pending.rejected THEN None
                   ELSE [agent.pending EXCEPT !.exit = 1, !.rejected = TRUE]]
    /\ handler' = [handler EXCEPT ![h] = FreeHandler]
    /\ UNCHANGED <<ran, agentOnly>>

\* The command ends by itself, in the hands of an Agent or left behind by one.
CommandEnds(j) ==
    /\ ran[j] = "running" /\ ran' = [ran EXCEPT ![j] = "over"]
    /\ UNCHANGED <<agent, handler, agentOnly>>

\* run returns with the exit code of the outcome; a running command is terminated.
Returns(pc, exit) ==
    /\ agent' = [pc |-> pc, job |-> None,
                 pending |-> [job |-> agent.job, exit |-> exit, rejected |-> FALSE]]
    /\ ran' = [ran EXCEPT ![agent.job] = "over"]

RunEnds ==
    /\ agent.pc = "run" /\ ran[agent.job] = "over"
    /\ \E exit \in Codes : Returns("idle", exit)
    /\ UNCHANGED <<handler, agentOnly>>

RunTimesOut ==
    /\ agent.pc = "run" /\ Returns("idle", 124)
    /\ UNCHANGED <<handler, agentOnly>>

\* The heartbeat of a running job, and its answer.
Beat(h) ==
    /\ agent.pc = "run" /\ Serves(h, Request(None, agent.job, FALSE))
    /\ agent' = [agent EXCEPT !.pc = "beat"]
    /\ UNCHANGED <<ran, agentOnly>>

Beaten(h) ==
    /\ agent.pc = "beat" /\ handler[h].live /\ handler[h].pc = "reply"
    /\ IF handler[h].cancelled THEN Returns("idle", 130)
       ELSE agent' = [agent EXCEPT !.pc = "run"] /\ ran' = ran
    /\ handler' = [handler EXCEPT ![h] = FreeHandler]
    /\ UNCHANGED agentOnly

BeatFails ==
    /\ agent.pc = "beat" /\ Abandon
    /\ agent' = [agent EXCEPT !.pc = "run"]
    /\ UNCHANGED <<ran, agentOnly>>

\* SIGTERM: a running job is stopped (exit code 143), and the Agent leaves.
Stop ==
    /\ agent.pc \in {"idle", "post", "run", "beat"} /\ Abandon
    /\ IF agent.job # None THEN Returns("leave", 1)
       ELSE agent' = [agent EXCEPT !.pc = "leave"] /\ ran' = ran
    /\ UNCHANGED agentOnly

\* shutdown: a result is handed in, if the request gets through, and no job taken.
Leave ==
    /\ agent.pc = "leave" /\ agent' = [IdleAgent EXCEPT !.pc = "down"]
    /\ \/ handler' = handler
       \/ /\ agent.pending # None
          /\ \E h \in Handlers :
                Serves(h, Request(agent.pending, None, TRUE))
    /\ UNCHANGED <<ran, agentOnly>>

\* A crash forgets the job and the pending result; the command may go on.
Crash ==
    /\ agent.pc # "down" /\ Abandon
    /\ agent' = [IdleAgent EXCEPT !.pc = "down"]
    /\ ran' \in {ran} \cup (IF agent.job # None THEN {[ran EXCEPT ![agent.job] = "over"]}
                                                ELSE {})
    /\ UNCHANGED agentOnly

Start ==
    /\ agent.pc = "down" /\ agent' = IdleAgent
    /\ UNCHANGED <<ran, handler, agentOnly>>

-----------------------------------------------------------------------------
\* What a call does by itself, as long as its process lives.
CallStep(j) ==
    \/ Begin(j) \/ Create(j) \/ Poll(j) \/ Deadline(j) \/ NeverDispatched(j)
    \/ AbortPending(j) \/ RequestCancel(j) \/ Await(j) \/ AckDeadline(j) \/ AbortSeen(j)

CallFails(j) ==
    \/ CreateThrows(j) \/ PollThrows(j) \/ NeverDispatchedThrows(j) \/ GiveUp(j)
    \/ AwaitThrows(j) \/ CallerDies(j)

HubStep(h) ==
    Complete(h) \/ Acknowledge(h) \/ Heartbeat(h) \/ Claim(h) \/ Unheard(h)

AgentStep ==
    \/ \E h \in Handlers : Post(h) \/ Posted(h) \/ PostRefused(h) \/ Beat(h) \/ Beaten(h)
    \/ PostFails \/ RunEnds \/ RunTimesOut \/ BeatFails \/ Stop \/ Leave \/ Crash \/ Start

Next ==
    \/ \E j \in Jobs : \/ CallStep(j) \/ CallFails(j) \/ LateStatement(j) \/ Abort(j)
                       \/ Ages(j) \/ LeaseExpires(j) \/ CommandEnds(j)
    \/ \E h \in Handlers : HubStep(h)
    \/ AgentStep

Spec == Init /\ [][Next]_vars

\* A call runs on as long as its process lives, and time passes.  Nothing is
\* asked of the Agent, the network or the hub's handlers.
FairSpec == Spec /\ \A j \in Jobs : WF_vars(CallStep(j)) /\ WF_vars(Ages(j))

-----------------------------------------------------------------------------
\* Properties.

\* Every variable has its type: a row has one of the five statuses of
\* server_agent_jobs, or does not exist yet.
TypeOK ==
    /\ row \in [Jobs -> Row]
    /\ age \in [Jobs -> {"young", "due", "stale"}]
    /\ call \in [Jobs -> Call] /\ late \subseteq Jobs \X {"PENDING", "CLAIMED"}
    /\ agent \in Agent /\ handler \in [Handlers -> Handler]
    /\ ran \in [Jobs -> {"never", "running", "over"}]

\* A command that is left to SSH was not started by the Agent and never will be:
\* no claim, however late its answer, runs it a second time.
NeverTwice == \A j \in Jobs : call[j].answer = "ssh" => ran[j] = "never"

\* A result is the end of the command: when executeCommandWithAgent says
\* completed, failed or cancelled, the command is not running on the server and
\* will not be; completed, it has run.
ResultMeansOver ==
    \A j \in Jobs :
        /\ call[j].answer \in {"completed", "failed", "cancelled"} => ran[j] # "running"
        /\ call[j].answer = "completed" => ran[j] = "over"

Command == INSTANCE DelegatedCommand WITH told <- [j \in Jobs |-> call[j].answer]

\* Polls, claims, late statements, cancellations, crashes and restarts together
\* never do more than DelegatedCommand allows: a command is started once at most,
\* a call is answered once, and what the answer says of the command stays true.
ImplementsCommand == Command!Spec

\* Dropped(r): an Agent that goes on has no result of r's job any more.
Dropped(r) == /\ agent.pending = r /\ agent'.pc \notin {"leave", "down"}
              /\ agent'.pending = None \/ agent'.pending.job # r.job

\* The Agent gives up a result only when the job's row is settled, by this result
\* or otherwise, or when the hub has refused the replacement too: a lost answer
\* or a failure in the hub costs no result.
ResultNotLost ==
    [][\A r \in Result : Dropped(r) => row[r.job].done \/ r.rejected]_vars

\* Every call that begins is answered unless its process dies, whatever becomes
\* of the Agent.
EveryCallAnswered ==
    \A j \in Jobs : call[j].pc = "create" ~> call[j].pc \in {"answered", "gone"}

\* A failure that does not say that the outcome is unknown means that the
\* command is not running.
FailureMeansOver == \A j \in Jobs : call[j].answer = "error" => ran[j] # "running"

=============================================================================

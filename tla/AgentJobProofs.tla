--------------------------- MODULE AgentJobProofs ---------------------------
(***************************************************************************)
(* Proofs about AgentJob for any number of jobs and of requests in flight. *)
(***************************************************************************)
EXTENDS AgentJob, TLAPS

\* No Agent has the job, and no answer is on its way to one.
Idle(j) == ran[j] = "never" /\ \A h \in Handlers : handler[h].job # j

\* A row starts with its call: nobody knows of it before, nor is the job handed
\* out before it is claimed.
RowStarts ==
    \A j \in Jobs :
        /\ call[j].pc \in {"idle", "create"} => row[j].status = "NONE"
        /\ row[j].status \in {"NONE", "PENDING"} => Idle(j)
        /\ row[j].status \in {"NONE", "PENDING", "CLAIMED"} => ~row[j].done

\* A job is handed out once: while the answer of its claim is on its way, and in
\* that answer only, the command has not been started.
HandedOnce ==
    /\ \A h \in Handlers : handler[h].job # None => ran[handler[h].job] = "never"
    /\ \A g, h \in Handlers : handler[g].job = handler[h].job /\ g # h => handler[h].job = None

\* The Agent knows what it runs and what it has yet to report.
AgentKnows ==
    /\ agent.job # None <=> agent.pc \in {"run", "beat"}
    /\ agent.job # None => ran[agent.job] # "never" /\ agent.pending = None
    /\ agent.pc = "down" => agent.pending = None
    /\ agent.pending # None => ran[agent.pending.job] = "over"

\* The Agent waits for one answer at a time, to what it sent last.
OneLive ==
    /\ \A g, h \in Handlers : handler[g].live /\ handler[h].live => g = h
    /\ \A h \in Handlers :
          handler[h].live => agent.pc \in {"post", "beat"} /\ handler[h].result = agent.pending

\* What the hub has done of a result, and what that says of the row.
ResultsServed ==
    \A h \in Handlers :
        LET r == handler[h].result
        IN /\ handler[h].pc \in {"complete", "acknowledge"} => r # None
           /\ r # None => ran[r.job] = "over"
           /\ r # None /\ handler[h].pc = "acknowledge" => row[r.job].status # "CLAIMED"
           /\ r # None /\ handler[h].pc \in {"serve", "reply"} => row[r.job].done

\* A settled row tells of a command that is over, or of one that will never start.
DoneIsOver ==
    \A j \in Jobs :
        /\ row[j].done => ran[j] = "over" \/ Idle(j)
        /\ row[j].status \in {"COMPLETED", "FAILED"} => row[j].done /\ ran[j] = "over"

\* An answer is the last thing a call does, and a final one is about a row that
\* nobody changes any more.
AnswerIsFinal ==
    \A j \in Jobs :
        /\ call[j].answer # None => call[j].pc = "answered"
        /\ call[j].answer = "ssh" =>
              Idle(j) /\ (row[j].status = "NONE" \/ row[j].done)
        /\ call[j].answer \in {"completed", "failed", "cancelled"} =>
              \/ ran[j] = "over"
              \/ Idle(j) /\ (row[j].status = "NONE" \/ row[j].done)
        /\ call[j].answer = "completed" => ran[j] = "over"

\* The inductive invariant.
IInv ==
    /\ TypeOK /\ RowStarts /\ HandedOnce /\ AgentKnows /\ OneLive /\ ResultsServed
    /\ DoneIsOver /\ AnswerIsFinal

\* What a step may do to a row: it is inserted, taken back before anybody has the
\* job, asked to stop, claimed, or settled by the result of a command that is over.
RowMove(k) ==
    \/ row'[k].status = row[k].status /\ row'[k].done = row[k].done
    \/ /\ row[k].status = "NONE" /\ call[k].pc = "create"
       /\ row'[k].status = "PENDING" /\ ~row'[k].done /\ call'[k].pc \notin {"idle", "create"}
    \/ row[k].status = "PENDING" /\ row'[k].status = "CANCELLED" /\ row'[k].done
    \/ row[k].status = "CLAIMED" /\ row'[k].status = "CANCELLED" /\ ~row'[k].done
    \/ row[k].status = "PENDING" /\ row'[k].status = "CLAIMED" /\ ~row'[k].done
    \/ /\ row[k].status \notin {"NONE", "PENDING"} /\ ran[k] = "over"
       /\ row'[k].done /\ row'[k].status \in {"COMPLETED", "FAILED", "CANCELLED"}

\* A command is started by the answer that hands it out, once, and ends once.
RanMove(k) ==
    \/ ran'[k] = ran[k]
    \/ ran[k] = "running" /\ ran'[k] = "over"
    \/ /\ ran[k] = "never"
       /\ \E h \in Handlers : handler[h].job = k /\ handler'[h].job = None

\* An answer gets the job of a row that is claimed with it.
HandMove(h) ==
    \/ handler'[h].job \in {handler[h].job, None}
    \/ /\ handler'[h].job \in Jobs
       /\ row[handler'[h].job].status = "PENDING" /\ row'[handler'[h].job].status = "CLAIMED"
       /\ \A g \in Handlers \ {h} : handler'[g] = handler[g]

\* A result is served in order, and a new one is the Agent's.
ServeMove(h) ==
    LET r == handler'[h].result
        from == handler[h].pc
        to == handler'[h].pc
    IN \/ r = None /\ to \notin {"complete", "acknowledge"}
       \/ r # None /\ r = agent.pending /\ to = "complete"
       \/ /\ r = handler[h].result
          /\ \/ to = from
             \/ /\ from = "complete" /\ to = "acknowledge"
                /\ r # None => row'[r.job].status # "CLAIMED"
             \/ /\ from = "acknowledge" /\ to = "serve"
                /\ r # None => row'[r.job].done
             \/ from = "serve" /\ to = "reply"

\* A call is answered once: before it has a row, on taking its row back, from a
\* settled row, or without a word on the command.
CallMove(k) ==
    \/ /\ call'[k].answer = call[k].answer
       /\ call[k].answer # None => call'[k].pc = call[k].pc
       /\ call'[k].pc \in {"idle", "create"} => call[k].pc \in {"idle", "create"}
    \/ /\ call'[k].pc = "answered" /\ call[k].pc # "answered"
       /\ \/ /\ call'[k].answer \in {"ssh", "cancelled"}
             /\ \/ row[k].status = "NONE" /\ row'[k].status = "NONE"
                \/ row[k].status = "PENDING" /\ row'[k].done
          \/ row[k].done /\ row'[k] = row[k] /\ call'[k].answer = AnswerOf(row[k])
          \/ call'[k].answer \in {"error", "unknown"}

-----------------------------------------------------------------------------
\* What the calls, the hub and the Agent leave alone.
LEMMA CallFrame ==
    ASSUME NEW j \in Jobs,
           \/ CallStep(j) \/ CallFails(j) \/ LateStatement(j) \/ Abort(j)
           \/ Ages(j) \/ LeaseExpires(j)
    PROVE  UNCHANGED <<agent, handler, ran>>
<1>1. CallStep(j) => UNCHANGED agentVars
  BY DEF CallStep, Begin, Create, Poll, Deadline, NeverDispatched, AbortPending, RequestCancel,
         Await, AckDeadline, AbortSeen
<1>2. CallFails(j) => UNCHANGED agentVars
  BY DEF CallFails, CreateThrows, PollThrows, NeverDispatchedThrows, GiveUp, AwaitThrows,
         CallerDies
<1>3. LateStatement(j) \/ Abort(j) \/ Ages(j) \/ LeaseExpires(j) => UNCHANGED agentVars
  BY DEF LateStatement, Abort, Ages, LeaseExpires
<1> QED BY <1>1, <1>2, <1>3 DEF agentVars

LEMMA HubFrame ==
    ASSUME NEW h \in Handlers, HubStep(h) PROVE UNCHANGED <<agent, call, late, age, ran>>
<1>1. CASE Complete(h)  BY <1>1 DEF hubVars, Complete
<1>2. CASE Acknowledge(h)  BY <1>2 DEF hubVars, Acknowledge
<1>3. CASE Heartbeat(h)  BY <1>3 DEF hubVars, Heartbeat
<1>4. CASE Claim(h)  BY <1>4 DEF hubVars, Claim
<1>5. CASE Unheard(h)  BY <1>5 DEF hubVars, Unheard
<1> QED BY <1>1, <1>2, <1>3, <1>4, <1>5 DEF HubStep

LEMMA AgentFrame ==
    ASSUME AgentStep PROVE UNCHANGED <<row, call, late, age>>
  BY DEF agentOnly, AgentStep, Post, Posted, PostRefused, Beat, Beaten, PostFails, RunEnds,
         RunTimesOut, BeatFails, Stop, Leave, Crash, Start

\* The three ways a claim goes, with the sweep it starts with.
LEMMA ClaimCases ==
    ASSUME NEW h \in Handlers, Claim(h)
    PROVE  /\ handler[h].pc = "serve" /\ handler[h].beat = None
           /\ UNCHANGED <<agent, call, late, age, ran>>
           /\ \/ /\ row' = row \/ row' = [j \in Jobs |-> Swept(j)]
                 /\ handler' = [handler EXCEPT ![h].pc = "reply"]
              \/ \E j \in Jobs :
                   /\ Swept(j).status = "PENDING"
                   /\ row' = [[i \in Jobs |-> Swept(i)] EXCEPT ![j].status = "CLAIMED"]
                   /\ handler' = [handler EXCEPT ![h] = [@ EXCEPT !.pc = "reply", !.job = j]]
  BY DEF Claim, hubVars

\* The sweep leaves a row alone, asks for it to be stopped or takes it back.
LEMMA SweptRow ==
    ASSUME TypeOK, NEW j \in Jobs
    PROVE  /\ Swept(j) \in Row
           /\ \/ Swept(j) = row[j]
              \/ row[j].status = "CLAIMED" /\ Swept(j) = CancelRequested(124)
              \/ row[j].status = "PENDING" /\ Swept(j) = Settled("CANCELLED", 124)
           /\ Swept(j).status = "PENDING" => Swept(j) = row[j]
  BY DEF Swept, TypeOK, Row, CancelRequested, Settled, Codes

\* What a claim does to a row: no more than the sweep, except for the one it takes.
LEMMA ClaimRow ==
    ASSUME TypeOK, NEW h \in Handlers, Claim(h), NEW k \in Jobs
    PROVE  \/ row'[k] = row[k]
           \/ row[k].status = "CLAIMED" /\ row'[k] = CancelRequested(124)
           \/ row[k].status = "PENDING" /\ row'[k] = Settled("CANCELLED", 124)
           \/ /\ row[k].status = "PENDING" /\ row'[k] = [row[k] EXCEPT !.status = "CLAIMED"]
              /\ handler'[h].job = k
<1>1. CASE row' = row
  BY <1>1
<1>2. CASE row' = [j \in Jobs |-> Swept(j)]
  BY <1>2, SweptRow
<1>3. CASE \E j \in Jobs :
             /\ Swept(j).status = "PENDING"
             /\ row' = [[i \in Jobs |-> Swept(i)] EXCEPT ![j].status = "CLAIMED"]
             /\ handler' = [handler EXCEPT ![h] = [@ EXCEPT !.pc = "reply", !.job = j]]
  <2>1. PICK j \in Jobs :
             /\ Swept(j).status = "PENDING"
             /\ row' = [[i \in Jobs |-> Swept(i)] EXCEPT ![j].status = "CLAIMED"]
             /\ handler' = [handler EXCEPT ![h] = [@ EXCEPT !.pc = "reply", !.job = j]]
    BY <1>3
  <2>2. CASE k # j
    <3>1. row'[k] = Swept(k)
      BY <2>1, <2>2
    <3> QED BY <3>1, SweptRow
  <2>3. CASE k = j
    <3>1. row'[k] = [Swept(k) EXCEPT !.status = "CLAIMED"]
      BY <2>1, <2>3
    <3>2. handler'[h].job = k
      BY <2>1, <2>3 DEF TypeOK, Handler
    <3> QED BY <2>1, <2>3, <3>1, <3>2, SweptRow
  <2> QED BY <2>2, <2>3
<1> QED BY <1>1, <1>2, <1>3, ClaimCases

\* What a claim does to the requests: its own is answered, with the job it took.
LEMMA ClaimHandler ==
    ASSUME TypeOK, NEW h \in Handlers, Claim(h)
    PROVE  /\ \A g \in Handlers \ {h} : handler'[g] = handler[g]
           /\ \/ handler'[h] = [handler[h] EXCEPT !.pc = "reply"]
              \/ \E j \in Jobs :
                    /\ row[j].status = "PENDING" /\ row'[j] = [row[j] EXCEPT !.status = "CLAIMED"]
                    /\ handler'[h] = [handler[h] EXCEPT !.pc = "reply", !.job = j]
<1>1. CASE handler' = [handler EXCEPT ![h].pc = "reply"]
  BY <1>1 DEF TypeOK
<1>2. CASE \E j \in Jobs :
             /\ Swept(j).status = "PENDING"
             /\ row' = [[i \in Jobs |-> Swept(i)] EXCEPT ![j].status = "CLAIMED"]
             /\ handler' = [handler EXCEPT ![h] = [@ EXCEPT !.pc = "reply", !.job = j]]
  <2>1. PICK j \in Jobs :
             /\ Swept(j).status = "PENDING"
             /\ row' = [[i \in Jobs |-> Swept(i)] EXCEPT ![j].status = "CLAIMED"]
             /\ handler' = [handler EXCEPT ![h] = [@ EXCEPT !.pc = "reply", !.job = j]]
    BY <1>2
  <2>2. row'[j] = [Swept(j) EXCEPT !.status = "CLAIMED"]
    BY <2>1
  <2>3. handler'[h] = [handler[h] EXCEPT !.pc = "reply", !.job = j]
    BY <2>1 DEF TypeOK
  <2> QED BY <2>1, <2>2, <2>3, SweptRow DEF TypeOK
<1> QED BY <1>1, <1>2, ClaimCases

\* What the hub writes into a row and what a request starts with.
LEMMA RowType ==
    ASSUME NEW status \in {"COMPLETED", "FAILED", "CANCELLED"}, NEW exit \in Codes
    PROVE  Settled(status, exit) \in Row /\ CancelRequested(exit) \in Row
  BY DEF Settled, CancelRequested, Row

LEMMA RequestType ==
    ASSUME NEW result \in Result \cup {None}, NEW beat \in Jobs \cup {None}, NEW stopping \in BOOLEAN
    PROVE  Request(result, beat, stopping) \in Handler /\ FreeHandler \in Handler
  BY DEF Request, FreeHandler, Handler

\* Every step keeps the rows in their type.
LEMMA RowTypeStep ==
    ASSUME TypeOK, ResultsServed, [Next]_vars PROVE row' \in [Jobs -> Row]
<1>0. row \in [Jobs -> Row] /\ \A h \in Handlers : handler[h] \in Handler
  BY DEF TypeOK
<1>1. ASSUME NEW j \in Jobs, NEW new \in Row, row' = [row EXCEPT ![j] = new]
      PROVE  row' \in [Jobs -> Row]
  BY <1>0, <1>1
<1>2. CASE UNCHANGED row
  BY <1>0, <1>2
<1>3. /\ Settled("CANCELLED", 124) \in Row /\ Settled("CANCELLED", 130) \in Row
      /\ CancelRequested(130) \in Row
  BY RowType DEF Codes
<1>4. ASSUME NEW j \in Jobs,
             \/ CallStep(j) \/ CallFails(j) \/ LateStatement(j) \/ Abort(j)
             \/ Ages(j) \/ LeaseExpires(j)
      PROVE  row' \in [Jobs -> Row]
  <2>1. CASE Create(j) \/ CreateThrows(j)
    BY <1>0, <2>1 DEF Create, CreateThrows, Row
  <2>2. CASE LeaseExpires(j)
    BY <1>0, <2>2 DEF LeaseExpires, Row
  <2>3. CASE NeverDispatched(j) \/ NeverDispatchedThrows(j)
    BY <1>1, <1>2, <1>3, <2>3 DEF NeverDispatched, NeverDispatchedThrows
  <2>4. CASE AbortPending(j) \/ RequestCancel(j) \/ LateStatement(j)
    BY <1>1, <1>2, <1>3, <2>4 DEF AbortPending, RequestCancel, LateStatement, Applied, CancelAs
  <2> QED
    BY <1>2, <1>4, <2>1, <2>2, <2>3, <2>4
    DEF CallStep, CallFails, Abort, Ages, Begin, Poll, Deadline, Await, AckDeadline, AbortSeen,
        PollThrows, GiveUp, AwaitThrows, CallerDies
<1>5. ASSUME NEW h \in Handlers, HubStep(h) PROVE row' \in [Jobs -> Row]
  <2>1. ASSUME handler[h].pc \in {"complete", "acknowledge"}
        PROVE  handler[h].result.job \in Jobs /\ handler[h].result.exit \in Codes
    BY <1>0, <2>1 DEF ResultsServed, Handler, Result
  <2>2. CASE Complete(h)
    BY <1>1, <1>2, <2>1, <2>2, RowType DEF Complete
  <2>3. CASE Acknowledge(h)
    <3>1. StatusOf(handler[h].result.exit) \in {"COMPLETED", "FAILED", "CANCELLED"}
      BY DEF StatusOf
    <3> QED BY <1>1, <1>2, <2>1, <2>3, <3>1, RowType DEF Acknowledge
  <2>4. CASE Heartbeat(h)
    BY <1>0, <2>4, ZenonT(60) DEF Heartbeat, Row
  <2>5. CASE Claim(h)
    <3>1. \A j \in Jobs : Swept(j) \in Row
      BY SweptRow
    <3>2. ASSUME NEW j \in Jobs, row' = [[i \in Jobs |-> Swept(i)] EXCEPT ![j].status = "CLAIMED"]
          PROVE  row' \in [Jobs -> Row]
      BY <3>1, <3>2 DEF Row
    <3>3. CASE row' = [j \in Jobs |-> Swept(j)]
      BY <3>1, <3>3
    <3> QED BY <1>2, <2>5, <3>2, <3>3, ClaimCases
  <2> QED BY <1>2, <1>5, <2>2, <2>3, <2>4, <2>5 DEF HubStep, Unheard
<1> QED BY <1>2, <1>4, <1>5, AgentFrame DEF Next, CommandEnds, agentOnly, vars

\* ... and the calls, their statements and the ages of the rows.
LEMMA CallTypeStep ==
    ASSUME TypeOK, [Next]_vars
    PROVE  /\ call' \in [Jobs -> Call] /\ late' \subseteq Jobs \X {"PENDING", "CLAIMED"}
           /\ age' \in [Jobs -> {"young", "due", "stale"}]
<1>0. /\ call \in [Jobs -> Call] /\ late \subseteq Jobs \X {"PENDING", "CLAIMED"}
      /\ age \in [Jobs -> {"young", "due", "stale"}]
  BY DEF TypeOK
<1>1. ASSUME NEW j \in Jobs,
             \/ CallStep(j) \/ CallFails(j) \/ LateStatement(j) \/ Abort(j)
             \/ Ages(j) \/ LeaseExpires(j)
      PROVE  /\ call' \in [Jobs -> Call] /\ late' \subseteq Jobs \X {"PENDING", "CLAIMED"}
             /\ age' \in [Jobs -> {"young", "due", "stale"}]
  <2>1. ASSUME NEW pc \in {"create", "poll", "deadline", "abort", "cancel", "await", "gone"},
               Goto(j, pc)
        PROVE  call' \in [Jobs -> Call]
    BY <1>0, <2>1 DEF Goto, Call
  <2>2. ASSUME NEW a \in Answers, Answer(j, a) PROVE call' \in [Jobs -> Call]
    BY <1>0, <2>2 DEF Answer, Call
  <2>3. AnswerOf(row[j]) \in Answers
    BY DEF AnswerOf, Answers
  <2>4. CASE Abort(j)
    BY <1>0, <2>4 DEF Abort, Call
  <2>5. {"completed", "failed", "cancelled", "ssh", "unknown", "error"} \subseteq Answers
    BY DEF Answers
  <2>6. call' \in [Jobs -> Call]
    <3>1. CASE Begin(j)  BY <2>1, <2>2, <2>5, <3>1 DEF Begin
    <3>2. CASE Create(j) \/ CreateThrows(j)  BY <2>1, <2>2, <2>5, <3>2 DEF Create, CreateThrows
    <3>3. CASE Poll(j) \/ Await(j)  BY <2>2, <2>3, <3>3 DEF Poll, Await
    <3>4. CASE NeverDispatched(j) \/ AbortPending(j)
      BY <2>1, <2>2, <2>5, <3>4 DEF NeverDispatched, AbortPending
    <3>5. CASE Deadline(j) \/ RequestCancel(j) \/ AbortSeen(j) \/ CallerDies(j)
      BY <2>1, <3>5 DEF Deadline, RequestCancel, AbortSeen, CallerDies
    <3>6. CASE AckDeadline(j) \/ AwaitThrows(j) \/ GiveUp(j)
      BY <2>1, <2>2, <2>5, <3>6 DEF AckDeadline, AwaitThrows, GiveUp
    <3>7. CASE PollThrows(j) \/ NeverDispatchedThrows(j)
      BY <2>1, <2>2, <2>5, <3>7 DEF PollThrows, NeverDispatchedThrows, Caught
    <3> QED
      BY <1>0, <1>1, <2>4, <3>1, <3>2, <3>3, <3>4, <3>5, <3>6, <3>7
      DEF CallStep, CallFails, LateStatement, Ages, LeaseExpires
  <2>7. age' \in [Jobs -> {"young", "due", "stale"}]
    <3>1. CASE Ages(j)  BY <1>0, <3>1 DEF Ages
    <3> QED
      BY <1>0, <1>1, <3>1
      DEF CallStep, CallFails, LateStatement, Abort, LeaseExpires, Begin, Create, Poll,
          Deadline, NeverDispatched, AbortPending, RequestCancel, Await, AckDeadline, AbortSeen,
          CreateThrows, PollThrows, NeverDispatchedThrows, GiveUp, AwaitThrows, CallerDies
  <2>8. late' \subseteq Jobs \X {"PENDING", "CLAIMED"}
    <3>1. CASE GiveUp(j)  BY <1>0, <3>1 DEF GiveUp
    <3>2. CASE LateStatement(j)  BY <1>0, <3>2 DEF LateStatement
    <3> QED
      BY <1>0, <1>1, <3>1, <3>2
      DEF CallStep, CallFails, Abort, Ages, LeaseExpires, Begin, Create, Poll, Deadline,
          NeverDispatched, AbortPending, RequestCancel, Await, AckDeadline, AbortSeen,
          CreateThrows, PollThrows, NeverDispatchedThrows, AwaitThrows, CallerDies
  <2> QED BY <2>6, <2>7, <2>8
<1> QED BY <1>0, <1>1, HubFrame, AgentFrame DEF Next, CommandEnds, agentOnly, vars

\* ... and the requests in the hub.
LEMMA HandlerTypeStep ==
    ASSUME TypeOK, [Next]_vars PROVE handler' \in [Handlers -> Handler]
<1>0. handler \in [Handlers -> Handler] /\ agent \in Agent /\ FreeHandler \in Handler
  BY RequestType DEF TypeOK
<1>1. ASSUME NEW h \in Handlers, NEW new \in Handler, handler' = [handler EXCEPT ![h] = new]
      PROVE  handler' \in [Handlers -> Handler]
  BY <1>0, <1>1
<1>2. CASE UNCHANGED handler
  BY <1>0, <1>2
<1>3. CASE Abandon
  <2>1. \A h \in Handlers : [handler[h] EXCEPT !.live = FALSE] \in Handler
    BY <1>0 DEF Handler
  <2> QED BY <1>0, <1>3, <2>1 DEF Abandon
<1>4. ASSUME NEW h \in Handlers, HubStep(h) PROVE handler' \in [Handlers -> Handler]
  <2>1. \A pc \in {"acknowledge", "serve", "reply"} :
           /\ [handler[h] EXCEPT !.pc = pc] \in Handler
           /\ \A c \in BOOLEAN : [handler[h] EXCEPT !.pc = pc, !.cancelled = c] \in Handler
           /\ \A j \in Jobs : [handler[h] EXCEPT !.pc = pc, !.job = j] \in Handler
    BY <1>0, ZenonT(60) DEF Handler
  <2>2. CASE Complete(h) \/ Acknowledge(h)
    BY <1>0, <2>1, <2>2 DEF Complete, Acknowledge
  <2>3. CASE Heartbeat(h)
    BY <1>0, <2>1, <2>3 DEF Heartbeat
  <2>4. CASE Claim(h)
    <3>1. CASE handler' = [handler EXCEPT ![h].pc = "reply"]
      BY <1>0, <2>1, <3>1
    <3>2. ASSUME NEW j \in Jobs,
                 handler' = [handler EXCEPT ![h] = [@ EXCEPT !.pc = "reply", !.job = j]]
          PROVE  handler' \in [Handlers -> Handler]
      BY <1>0, <2>1, <3>2
    <3> QED BY <2>4, <3>1, <3>2, ClaimCases
  <2> QED BY <1>0, <1>1, <1>4, <2>2, <2>3, <2>4 DEF HubStep, Unheard
<1>5. ASSUME AgentStep PROVE handler' \in [Handlers -> Handler]
  <2>0. agent.pending \in Result \cup {None} /\ agent.job \in Jobs \cup {None}
    BY <1>0 DEF Agent
  <2>1. ASSUME NEW h \in Handlers, Post(h) \/ Beat(h) PROVE handler' \in [Handlers -> Handler]
    BY <1>1, <2>0, <2>1, RequestType DEF Post, Beat, Serves
  <2>2. ASSUME NEW h \in Handlers, Posted(h) \/ PostRefused(h) \/ Beaten(h)
        PROVE  handler' \in [Handlers -> Handler]
    BY <1>0, <1>1, <2>2 DEF Posted, PostRefused, Beaten
  <2>3. CASE Leave
    BY <1>1, <1>2, <2>0, <2>3, RequestType DEF Leave, Serves
  <2> QED BY <1>2, <1>3, <1>5, <2>1, <2>2, <2>3
    DEF AgentStep, PostFails, RunEnds, RunTimesOut, BeatFails, Stop, Crash, Start
<1> QED BY <1>2, <1>4, <1>5, CallFrame DEF Next, CommandEnds, vars

\* ... and the Agent with the commands it runs.
LEMMA AgentTypeStep ==
    ASSUME TypeOK, AgentKnows, OneLive, ResultsServed, [Next]_vars
    PROVE  agent' \in Agent /\ ran' \in [Jobs -> {"never", "running", "over"}]
<1> USE NoneAssumption
<1>0. /\ agent \in Agent /\ ran \in [Jobs -> {"never", "running", "over"}]
      /\ \A h \in Handlers : handler[h] \in Handler
  BY DEF TypeOK
<1>1. CASE UNCHANGED <<agent, ran>>
  BY <1>0, <1>1
<1>2. ASSUME NEW j \in Jobs, CommandEnds(j)
      PROVE  agent' \in Agent /\ ran' \in [Jobs -> {"never", "running", "over"}]
  BY <1>0, <1>2 DEF CommandEnds
<1>3. ASSUME AgentStep
      PROVE  agent' \in Agent /\ ran' \in [Jobs -> {"never", "running", "over"}]
  <2>1. \A pc \in {"idle", "post", "run", "beat", "leave", "down"} :
           [agent EXCEPT !.pc = pc] \in Agent /\ [IdleAgent EXCEPT !.pc = pc] \in Agent
    BY <1>0 DEF Agent, IdleAgent
  <2>2. IdleAgent \in Agent
    BY DEF Agent, IdleAgent
  <2>3. agent.pc \in {"run", "beat"} => agent.job \in Jobs
    BY <1>0 DEF AgentKnows, Agent
  <2>4. ASSUME NEW pc \in {"idle", "leave"}, NEW exit \in Codes, agent.job \in Jobs, Returns(pc, exit)
        PROVE  agent' \in Agent /\ ran' \in [Jobs -> {"never", "running", "over"}]
    BY <1>0, <2>4 DEF Returns, Agent, Result
  <2>5. ASSUME NEW h \in Handlers, Posted(h)
        PROVE  agent' \in Agent /\ ran' \in [Jobs -> {"never", "running", "over"}]
    <3>1. handler[h].job # None => handler[h].job \in Jobs
      BY <1>0 DEF Handler
    <3>2. ASSUME NEW j \in Jobs
          PROVE  /\ [IdleAgent EXCEPT !.pc = "run", !.job = j] \in Agent
                 /\ [IdleAgent EXCEPT !.pending =
                       [job |-> j, exit |-> 1, rejected |-> FALSE]] \in Agent
      BY DEF Agent, IdleAgent, Result, Codes
    <3> QED BY <1>0, <2>2, <2>5, <3>1, <3>2 DEF Posted
  <2>6. ASSUME NEW h \in Handlers, PostRefused(h)
        PROVE  agent' \in Agent /\ ran' \in [Jobs -> {"never", "running", "over"}]
    <3>1. agent.pending \in Result
      BY <1>0, <2>6 DEF PostRefused, OneLive, ResultsServed, Agent
    <3>2. [agent.pending EXCEPT !.exit = 1, !.rejected = TRUE] \in Result
      BY <3>1 DEF Result, Codes
    <3>3. \A r \in Result \cup {None} : [IdleAgent EXCEPT !.pending = r] \in Agent
      BY DEF Agent, IdleAgent
    <3> QED BY <1>0, <2>6, <3>2, <3>3 DEF PostRefused, agentOnly
  <2>7. {1, 124, 130} \subseteq Codes
    BY DEF Codes
  <2>8. ASSUME NEW h \in Handlers, Beaten(h)
        PROVE  agent' \in Agent /\ ran' \in [Jobs -> {"never", "running", "over"}]
    BY <1>0, <2>1, <2>3, <2>4, <2>7, <2>8 DEF Beaten
  <2>9. CASE RunEnds \/ RunTimesOut
    BY <2>3, <2>4, <2>7, <2>9 DEF RunEnds, RunTimesOut
  <2>10. CASE Stop
    BY <1>0, <2>1, <2>4, <2>7, <2>10 DEF Stop, Agent
  <2>11. CASE Crash
    BY <1>0, <2>1, <2>11 DEF Crash, Agent
  <2>12. ASSUME NEW h \in Handlers, Post(h) \/ Beat(h)
         PROVE  agent' \in Agent /\ ran' \in [Jobs -> {"never", "running", "over"}]
    BY <1>0, <2>1, <2>12 DEF Post, Beat
  <2>13. CASE PostFails \/ BeatFails \/ Leave \/ Start
    BY <1>0, <2>1, <2>2, <2>13 DEF PostFails, BeatFails, Leave, Start
  <2> QED
    BY <1>3, <2>5, <2>6, <2>8, <2>9, <2>10, <2>11, <2>12, <2>13 DEF AgentStep
<1> QED BY <1>1, <1>2, <1>3, CallFrame, HubFrame DEF Next, vars

\* Together: every step keeps the variables in their types.
LEMMA TypeStep ==
    ASSUME TypeOK, AgentKnows, OneLive, ResultsServed, [Next]_vars PROVE TypeOK'
  BY RowTypeStep, CallTypeStep, HandlerTypeStep, AgentTypeStep DEF TypeOK

\* Every step moves a row in one of these ways.
LEMMA RowStep ==
    ASSUME TypeOK, RowStarts, ResultsServed, [Next]_vars, NEW k \in Jobs PROVE RowMove(k)
<1> USE DEF RowMove
<1>0. row[k] \in Row /\ call[k] \in Call /\ \A h \in Handlers : handler[h] \in Handler
  BY DEF TypeOK
<1>1. ASSUME NEW j \in Jobs,
             \/ CallStep(j) \/ CallFails(j) \/ LateStatement(j) \/ Abort(j)
             \/ Ages(j) \/ LeaseExpires(j)
      PROVE  RowMove(k)
  <2>1. CASE UNCHANGED row
    BY <2>1
  <2>2. CASE /\ call[j].pc = "create" /\ call'[j].pc \notin {"idle", "create"}
             /\ row' = [row EXCEPT ![j].status = "PENDING"]
    BY <1>0, <2>2 DEF TypeOK, RowStarts, Row
  <2>3. ASSUME NEW exit, row[j].status = "PENDING",
               row' = [row EXCEPT ![j] = Settled("CANCELLED", exit)]
        PROVE  RowMove(k)
    BY <1>0, <2>3 DEF TypeOK, Settled
  <2>4. CASE row[j].status = "CLAIMED" /\ row' = [row EXCEPT ![j] = CancelRequested(130)]
    BY <1>0, <2>4 DEF TypeOK, CancelRequested
  <2>5. CASE LeaseExpires(j)
    BY <1>0, <2>5 DEF LeaseExpires, TypeOK, Row
  <2>6. CASE Create(j) \/ CreateThrows(j)
    <3>1. /\ Goto(j, "poll") => call'[j].pc = "poll"
          /\ Answer(j, "error") => call'[j].pc = "answered"
      BY DEF Goto, Answer, TypeOK, Call
    <3> QED BY <2>1, <2>2, <2>6, <3>1 DEF Create, CreateThrows, At
  <2>7. CASE NeverDispatched(j) \/ NeverDispatchedThrows(j)
    BY <2>1, <2>3, <2>7 DEF NeverDispatched, NeverDispatchedThrows
  <2>8. CASE AbortPending(j) \/ RequestCancel(j) \/ LateStatement(j)
    BY <2>1, <2>3, <2>4, <2>8 DEF AbortPending, RequestCancel, LateStatement, Applied, CancelAs
  <2> QED
    BY <1>1, <2>1, <2>5, <2>6, <2>7, <2>8
    DEF CallStep, CallFails, Abort, Ages, Begin, Poll, Deadline, Await, AckDeadline, AbortSeen,
        PollThrows, GiveUp, AwaitThrows, CallerDies
<1>2. ASSUME NEW h \in Handlers, HubStep(h) PROVE RowMove(k)
  <2>1. CASE UNCHANGED row
    BY <2>1
  <2>2. ASSUME NEW r \in Result, ran[r.job] = "over", row[r.job].status \notin {"NONE", "PENDING"},
               NEW status \in {"COMPLETED", "FAILED", "CANCELLED"}, NEW exit,
               row' = [row EXCEPT ![r.job] = Settled(status, exit)]
        PROVE  RowMove(k)
    BY <1>0, <2>2 DEF TypeOK, Settled
  <2>3. CASE Complete(h)
    <3>1. handler[h].result \in Result /\ ran[handler[h].result.job] = "over"
      BY <1>0, <2>3 DEF Complete, ResultsServed, Handler
    <3>2. \/ UNCHANGED row
          \/ /\ row[handler[h].result.job].status = "CLAIMED"
             /\ \E status \in {"COMPLETED", "FAILED"}, exit \in Codes :
                   row' = [row EXCEPT ![handler[h].result.job] = Settled(status, exit)]
      BY <2>3, <3>1 DEF Complete, Result
    <3> QED BY <2>1, <2>2, <3>1, <3>2
  <2>4. CASE Acknowledge(h)
    <3>1. handler[h].result \in Result /\ ran[handler[h].result.job] = "over"
      BY <1>0, <2>4 DEF Acknowledge, ResultsServed, Handler
    <3>2. \/ UNCHANGED row
          \/ /\ row[handler[h].result.job].status = "CANCELLED"
             /\ \E status \in {"CANCELLED", "COMPLETED", "FAILED"}, exit \in Codes :
                   row' = [row EXCEPT ![handler[h].result.job] = Settled(status, exit)]
      <4>1. \A exit : StatusOf(exit) \in {"CANCELLED", "COMPLETED", "FAILED"}
        BY DEF StatusOf
      <4> QED BY <2>4, <3>1, <4>1 DEF Acknowledge, Result
    <3> QED BY <2>1, <2>2, <3>1, <3>2, ZenonT(60)
  <2>5. CASE Heartbeat(h)
    BY <1>0, <2>5 DEF Heartbeat, TypeOK, Row
  <2>6. CASE Claim(h)
    <3>1. CASE row'[k] = row[k]
      BY <3>1
    <3>2. CASE row[k].status = "CLAIMED" /\ row'[k] = CancelRequested(124)
      BY <3>2 DEF CancelRequested
    <3>3. CASE row[k].status = "PENDING" /\ row'[k] = Settled("CANCELLED", 124)
      BY <3>3 DEF Settled
    <3>4. CASE row[k].status = "PENDING" /\ row'[k] = [row[k] EXCEPT !.status = "CLAIMED"]
      BY <1>0, <3>4 DEF RowStarts, Row
    <3> QED BY <2>6, <3>1, <3>2, <3>3, <3>4, ClaimRow
  <2> QED BY <1>2, <2>1, <2>3, <2>4, <2>5, <2>6 DEF HubStep, Unheard
<1>3. CASE UNCHANGED row
  BY <1>3
<1> QED BY <1>1, <1>2, <1>3, AgentFrame DEF Next, CommandEnds, agentOnly, vars

\* Every step of a command is one of these.
LEMMA RanStep ==
    ASSUME TypeOK, HandedOnce, AgentKnows, [Next]_vars, NEW k \in Jobs PROVE RanMove(k)
<1> USE NoneAssumption
<1> USE DEF RanMove
<1>0. ran \in [Jobs -> {"never", "running", "over"}] /\ agent \in Agent
  BY DEF TypeOK
<1>1. CASE UNCHANGED ran
  BY <1>1
<1>2. ASSUME NEW j \in Jobs, CommandEnds(j) PROVE RanMove(k)
  BY <1>0, <1>2 DEF CommandEnds
<1>3. ASSUME agent.job \in Jobs, ran' = [ran EXCEPT ![agent.job] = "over"] PROVE RanMove(k)
  BY <1>0, <1>3 DEF AgentKnows
<1>4. ASSUME NEW h \in Handlers, Posted(h) PROVE RanMove(k)
  <2>1. handler[h] \in Handler /\ handler'[h].job = None
    BY <1>4 DEF Posted, TypeOK, FreeHandler
  <2>2. CASE handler[h].job = None
    BY <1>4, <2>2, <1>1 DEF Posted
  <2>3. CASE handler[h].job # None
    <3>1. handler[h].job \in Jobs /\ ran[handler[h].job] = "never"
      BY <2>1, <2>3 DEF HandedOnce, Handler
    <3>2. ran'[k] = ran[k] \/ k = handler[h].job
      BY <1>0, <1>4, <3>1 DEF Posted
    <3> QED BY <2>1, <3>1, <3>2
  <2> QED BY <2>2, <2>3
<1>5. AgentStep => \/ UNCHANGED ran \/ \E h \in Handlers : Posted(h)
                   \/ agent.job \in Jobs /\ ran' = [ran EXCEPT ![agent.job] = "over"]
  <2>1. agent.pc \in {"run", "beat"} => agent.job \in Jobs
    BY <1>0 DEF AgentKnows, Agent
  <2>2. agent.job # None => agent.job \in Jobs
    BY <1>0 DEF Agent
  <2> QED BY <2>1, <2>2
    DEF AgentStep, Post, PostRefused, Beat, Beaten, PostFails, RunEnds, RunTimesOut, BeatFails,
        Stop, Leave, Crash, Start, Returns
<1> QED BY <1>1, <1>2, <1>3, <1>4, <1>5, CallFrame, HubFrame DEF Next, vars

\* Only a claim puts a job into an answer.
LEMMA HandStep ==
    ASSUME TypeOK, [Next]_vars, NEW h \in Handlers PROVE HandMove(h)
<1> USE DEF HandMove
<1>0. \A g \in Handlers : handler[g] \in Handler
  BY DEF TypeOK
<1>1. CASE UNCHANGED handler
  BY <1>1
<1>2. ASSUME NEW g \in Handlers, Claim(g) PROVE HandMove(h)
  <2>1. CASE handler'[g] = [handler[g] EXCEPT !.pc = "reply"]
    <3>1. handler'[g].job = handler[g].job
      BY <1>0, <2>1 DEF Handler
    <3> QED BY <1>2, <3>1, ClaimHandler
  <2>2. ASSUME NEW j \in Jobs, row[j].status = "PENDING",
               row'[j] = [row[j] EXCEPT !.status = "CLAIMED"],
               handler'[g] = [handler[g] EXCEPT !.pc = "reply", !.job = j]
        PROVE  HandMove(h)
    <3>1. row'[j].status = "CLAIMED"
      BY <2>2 DEF TypeOK, Row
    <3>2. handler'[g].job = j
      BY <1>0, <2>2 DEF Handler
    <3> QED BY <1>2, <2>2, <3>1, <3>2, ClaimHandler, ZenonT(60)
  <2> QED BY <1>2, <2>1, <2>2, ClaimHandler
<1>3. ASSUME NEW g \in Handlers, Complete(g) \/ Acknowledge(g) \/ Heartbeat(g) PROVE HandMove(h)
  <2>1. CASE Complete(g)  BY <1>0, <2>1 DEF Complete, TypeOK, Handler
  <2>2. CASE Acknowledge(g)  BY <1>0, <2>2 DEF Acknowledge, TypeOK, Handler
  <2>3. CASE Heartbeat(g)  BY <1>0, <2>3 DEF Heartbeat, TypeOK, Handler
  <2> QED BY <1>3, <2>1, <2>2, <2>3
<1>4. ASSUME NEW g \in Handlers, NEW request, request.job = None,
             handler' = [handler EXCEPT ![g] = request]
      PROVE  HandMove(h)
  BY <1>4 DEF TypeOK
<1>5. CASE Abandon
  BY <1>0, <1>5 DEF Abandon, FreeHandler, Handler
<1>6. FreeHandler.job = None
  BY DEF FreeHandler
<1>7. ASSUME AgentStep PROVE HandMove(h)
  <2>1. ASSUME NEW g \in Handlers, Post(g) \/ Beat(g) PROVE HandMove(h)
    BY <1>4, <2>1 DEF Post, Beat, Serves, Request
  <2>2. ASSUME NEW g \in Handlers, Posted(g) \/ PostRefused(g) \/ Beaten(g) PROVE HandMove(h)
    BY <1>4, <1>6, <2>2 DEF Posted, PostRefused, Beaten
  <2>3. CASE Leave
    BY <1>1, <1>4, <2>3 DEF Leave, Serves, Request
  <2> QED BY <1>1, <1>5, <1>7, <2>1, <2>2, <2>3
    DEF AgentStep, PostFails, RunEnds, RunTimesOut, BeatFails, Stop, Crash, Start
<1>8. ASSUME NEW g \in Handlers, HubStep(g) PROVE HandMove(h)
  BY <1>2, <1>3, <1>4, <1>6, <1>8 DEF HubStep, Unheard
<1> QED BY <1>1, <1>7, <1>8, CallFrame DEF Next, CommandEnds, vars

\* A result goes through completeServerAgentJob in the order of its statements.
LEMMA ServeStep ==
    ASSUME TypeOK, RowStarts, ResultsServed, DoneIsOver, [Next]_vars, NEW h \in Handlers
    PROVE  ServeMove(h)
<1> USE DEF ServeMove
<1>0. \A g \in Handlers : handler[g] \in Handler
  BY DEF TypeOK
<1>1. CASE handler'[h] = handler[h]
  BY <1>1
<1>2. CASE handler'[h] = FreeHandler
  BY <1>2 DEF FreeHandler
<1>3. ASSUME NEW beat, NEW stopping, handler'[h] = Request(None, beat, stopping)
      PROVE  ServeMove(h)
  BY <1>3 DEF Request
<1>4. ASSUME NEW stopping, handler'[h] = Request(agent.pending, None, stopping)
      PROVE  ServeMove(h)
  BY <1>4 DEF Request
<1>5. CASE Complete(h)
  <2>1. /\ handler'[h].pc = "acknowledge" /\ handler[h].pc = "complete"
        /\ handler'[h].result = handler[h].result
    BY <1>0, <1>5 DEF Complete, TypeOK, Handler
  <2>2. handler[h].result \in Result
    BY <1>0, <2>1 DEF ResultsServed, Handler
  <2>3. row'[handler[h].result.job].status # "CLAIMED"
    BY <1>5, <2>2 DEF Complete, TypeOK, Result, Settled
  <2> QED BY <2>1, <2>2, <2>3
<1>6. CASE Acknowledge(h)
  <2>1. /\ handler'[h].pc = "serve" /\ handler[h].pc = "acknowledge"
        /\ handler'[h].result = handler[h].result
    BY <1>0, <1>6 DEF Acknowledge, TypeOK, Handler
  <2>2. handler[h].result \in Result
    BY <1>0, <2>1 DEF ResultsServed, Handler
  <2> DEFINE r == handler[h].result
  <2>3. r.job \in Jobs /\ row[r.job] \in Row
    BY <2>2 DEF TypeOK, Result
  <2>4. ran[r.job] = "over" /\ row[r.job].status # "CLAIMED"
    BY <2>1, <2>2 DEF ResultsServed
  <2>5. row[r.job].status \in {"COMPLETED", "FAILED", "CANCELLED"}
    BY <2>3, <2>4 DEF RowStarts, Idle, Row
  <2>6. row'[r.job].done
    BY <1>6, <2>3, <2>5 DEF Acknowledge, DoneIsOver, Settled, TypeOK
  <2> QED BY <2>1, <2>6
<1>7. CASE Heartbeat(h)
  BY <1>0, <1>7 DEF Heartbeat, TypeOK, Handler
<1>8. CASE Claim(h)
  <2>1. handler'[h].pc = "reply" /\ handler'[h].result = handler[h].result
    BY <1>0, <1>8, ClaimHandler, ZenonT(60) DEF Handler
  <2> QED BY <1>8, <2>1, ClaimCases
<1>9. ASSUME NEW g \in Handlers, HubStep(g) PROVE ServeMove(h)
  <2>1. CASE g = h
    BY <1>2, <1>5, <1>6, <1>7, <1>8, <1>9, <2>1 DEF HubStep, Unheard, TypeOK
  <2>2. CASE g # h
    <3>1. CASE Claim(g)
      BY <1>1, <2>2, <3>1, ClaimHandler
    <3>2. CASE Complete(g) \/ Acknowledge(g)
      BY <1>1, <2>2, <3>2 DEF Complete, Acknowledge, TypeOK
    <3>3. CASE Heartbeat(g) \/ Unheard(g)
      BY <1>1, <2>2, <3>3 DEF Heartbeat, Unheard, TypeOK
    <3> QED BY <1>9, <3>1, <3>2, <3>3 DEF HubStep
  <2> QED BY <2>1, <2>2
<1>10. CASE Abandon
  <2>1. \/ handler'[h] \in {handler[h], FreeHandler}
        \/ handler'[h] = [handler[h] EXCEPT !.live = FALSE]
    BY <1>10 DEF Abandon
  <2> QED BY <1>0, <1>1, <1>2, <2>1 DEF Handler
<1>11. ASSUME AgentStep PROVE ServeMove(h)
  <2>1. ASSUME NEW g \in Handlers, Post(g) PROVE ServeMove(h)
    BY <1>1, <1>4, <2>1 DEF Post, Serves, TypeOK
  <2>2. ASSUME NEW g \in Handlers, Beat(g) PROVE ServeMove(h)
    BY <1>1, <1>3, <2>2 DEF Beat, Serves, TypeOK
  <2>3. ASSUME NEW g \in Handlers, Posted(g) \/ PostRefused(g) \/ Beaten(g) PROVE ServeMove(h)
    BY <1>1, <1>2, <2>3 DEF Posted, PostRefused, Beaten, TypeOK
  <2>4. CASE Leave
    BY <1>1, <1>4, <2>4 DEF Leave, Serves, TypeOK
  <2> QED BY <1>1, <1>10, <1>11, <2>1, <2>2, <2>3, <2>4
    DEF AgentStep, PostFails, RunEnds, RunTimesOut, BeatFails, Stop, Crash, Start
<1> QED BY <1>1, <1>9, <1>11, CallFrame DEF Next, CommandEnds, vars

\* What a call does with a statement, an answer and the row it reads.
LEMMA CallMoves ==
    ASSUME TypeOK, RowStarts, AnswerIsFinal, [Next]_vars, NEW k \in Jobs PROVE CallMove(k)
<1> USE DEF CallMove
<1>0. call[k] \in Call /\ row[k] \in Row
  BY DEF TypeOK
<1>1. CASE call'[k] = call[k]
  BY <1>1
<1>2. ASSUME NEW pc, Goto(k, pc), call[k].pc # "answered",
             pc \in {"idle", "create"} => call[k].pc = "idle"
      PROVE  CallMove(k)
  BY <1>0, <1>2 DEF Goto, TypeOK, Call, AnswerIsFinal
<1>3. \A a : Answer(k, a) => call'[k].pc = "answered" /\ call'[k].answer = a
  BY DEF Answer, TypeOK
<1>4. CASE Abort(k)
  BY <1>0, <1>4 DEF Abort, TypeOK, Call
<1>5. CASE Begin(k)
  BY <1>2, <1>3, <1>5 DEF Begin, At, RowStarts
<1>6. CASE Create(k)
  BY <1>2, <1>3, <1>6 DEF Create, At, RowStarts
<1>7. CASE Poll(k) \/ Await(k)
  BY <1>3, <1>7 DEF Poll, Await, At
<1>8. CASE NeverDispatched(k)
  <2>1. CASE row[k].status = "PENDING"
    BY <1>3, <1>8, <2>1 DEF NeverDispatched, At, Settled, TypeOK
  <2>2. CASE row[k].status # "PENDING"
    BY <1>2, <1>8, <2>2 DEF NeverDispatched, At
  <2> QED BY <2>1, <2>2
<1>9. CASE AbortPending(k)
  <2>1. CASE row[k].status = "PENDING"
    BY <1>3, <1>9, <2>1 DEF AbortPending, Applied, CancelAs, At, Settled, TypeOK
  <2>2. CASE row[k].status # "PENDING"
    BY <1>2, <1>9, <2>2 DEF AbortPending, At
  <2> QED BY <2>1, <2>2
<1>10. CASE Deadline(k) \/ RequestCancel(k) \/ AbortSeen(k) \/ CallerDies(k)
  BY <1>2, <1>10 DEF Deadline, RequestCancel, AbortSeen, CallerDies, At
<1>11. CASE AckDeadline(k) \/ AwaitThrows(k) \/ CreateThrows(k)
  BY <1>3, <1>11 DEF AckDeadline, AwaitThrows, CreateThrows, At
<1>12. CASE PollThrows(k) \/ NeverDispatchedThrows(k)
  BY <1>2, <1>3, <1>12 DEF PollThrows, NeverDispatchedThrows, Caught, At
<1>13. CASE GiveUp(k)
  BY <1>2, <1>3, <1>13 DEF GiveUp, At
<1>14. ASSUME NEW j \in Jobs, CallStep(j) \/ CallFails(j) \/ Abort(j) PROVE CallMove(k)
  <2>1. CASE j = k
    BY <1>4, <1>5, <1>6, <1>7, <1>8, <1>9, <1>10, <1>11, <1>12, <1>13, <1>14, <2>1
    DEF CallStep, CallFails
  <2>2. CASE j # k
    <3>1. (\E pc : Goto(j, pc)) \/ (\E a : Answer(j, a)) \/ Abort(j)
      BY <1>14
      DEF CallStep, CallFails, Begin, Create, Poll, Deadline, NeverDispatched, AbortPending,
          RequestCancel, Await, AckDeadline, AbortSeen, CreateThrows, PollThrows,
          NeverDispatchedThrows, GiveUp, AwaitThrows, CallerDies, Caught
    <3> QED BY <1>1, <2>2, <3>1 DEF Goto, Answer, Abort, TypeOK
  <2> QED BY <2>1, <2>2
<1> QED BY <1>1, <1>14, HubFrame, AgentFrame
    DEF Next, CommandEnds, LateStatement, Ages, LeaseExpires, agentOnly, vars

\* A job nobody has stays so, unless its row is claimed.
LEMMA IdleStep ==
    ASSUME TypeOK, HandedOnce, AgentKnows, [Next]_vars, NEW k \in Jobs, Idle(k)
    PROVE  Idle(k)' \/ (row[k].status = "PENDING" /\ row'[k].status = "CLAIMED")
<1>1. ran'[k] = "never"
  BY RanStep DEF RanMove, Idle
<1>2. ASSUME NEW h \in Handlers, handler'[h].job = k
      PROVE  row[k].status = "PENDING" /\ row'[k].status = "CLAIMED"
  BY <1>2, HandStep, NoneAssumption DEF HandMove, Idle
<1> QED BY <1>1, <1>2 DEF Idle

\* A command that is over stays over.
LEMMA OverStep ==
    ASSUME TypeOK, HandedOnce, AgentKnows, [Next]_vars, NEW k \in Jobs, ran[k] = "over"
    PROVE  ran'[k] = "over"
  BY RanStep DEF RanMove

\* A row appears with its call and is known to nobody before it is claimed.
LEMMA RowStartsStep == ASSUME IInv, [Next]_vars PROVE RowStarts'
<1>1. SUFFICES ASSUME NEW k \in Jobs
               PROVE  /\ call'[k].pc \in {"idle", "create"} => row'[k].status = "NONE"
                      /\ row'[k].status \in {"NONE", "PENDING"} => Idle(k)'
                      /\ row'[k].status \in {"NONE", "PENDING", "CLAIMED"} => ~row'[k].done
  BY DEF RowStarts
<1>2. call'[k].pc \in {"idle", "create"} => call[k].pc \in {"idle", "create"}
  BY CallMoves DEF CallMove, IInv
<1>3. RowMove(k)
  BY RowStep DEF IInv
<1>4. Idle(k) => Idle(k)' \/ (row[k].status = "PENDING" /\ row'[k].status = "CLAIMED")
  BY IdleStep DEF IInv
<1> QED BY <1>2, <1>3, <1>4 DEF RowMove, IInv, RowStarts

\* A job that is claimed is in no other answer and was not run.
LEMMA HandedStep == ASSUME IInv, [Next]_vars PROVE HandedOnce'
<1>1. ASSUME NEW h \in Handlers, handler'[h].job # None
      PROVE  ran'[handler'[h].job] = "never"
  <2>1. CASE handler'[h].job = handler[h].job
    <3>1. handler[h].job \in Jobs /\ ran[handler[h].job] = "never"
      BY <1>1, <2>1 DEF IInv, TypeOK, Handler, HandedOnce
    <3>2. \A g \in Handlers : handler[g].job = handler[h].job => handler'[g].job # None
      BY <1>1, <2>1, <3>1 DEF IInv, HandedOnce
    <3> QED BY <2>1, <3>1, <3>2, RanStep DEF IInv, RanMove
  <2>2. CASE handler'[h].job # handler[h].job
    <3>1. handler'[h].job \in Jobs /\ row[handler'[h].job].status = "PENDING"
      BY <1>1, <2>2, HandStep DEF HandMove, IInv
    <3>2. Idle(handler'[h].job)
      BY <3>1 DEF IInv, RowStarts
    <3> QED BY <3>1, <3>2, RanStep DEF IInv, RanMove, Idle
  <2> QED BY <2>1, <2>2
<1>2. ASSUME NEW g \in Handlers, NEW h \in Handlers, g # h, handler'[g].job = handler'[h].job,
             handler'[h].job # None
      PROVE  FALSE
  <2>1. ASSUME NEW a \in Handlers, NEW b \in Handlers, a # b, handler'[a].job = handler'[b].job,
               handler'[b].job # None, handler'[b].job # handler[b].job
        PROVE  FALSE
    <3>1. /\ handler'[b].job \in Jobs /\ row[handler'[b].job].status = "PENDING"
          /\ handler'[a] = handler[a]
      BY <2>1, HandStep DEF HandMove, IInv
    <3> QED BY <2>1, <3>1 DEF IInv, RowStarts, Idle
  <2>2. handler'[h].job = handler[h].job /\ handler'[g].job = handler[g].job
    BY <1>2, <2>1
  <2> QED BY <1>2, <2>2 DEF IInv, HandedOnce
<1> QED BY <1>1, <1>2 DEF HandedOnce

\* A result was handed in after its command, and is recorded when it is served.
LEMMA ServedStep == ASSUME IInv, TypeOK', [Next]_vars PROVE ResultsServed'
<1>1. SUFFICES ASSUME NEW h \in Handlers, NEW r, r = handler'[h].result
               PROVE  /\ handler'[h].pc \in {"complete", "acknowledge"} => r # None
                      /\ r # None => ran'[r.job] = "over"
                      /\ r # None /\ handler'[h].pc = "acknowledge" => row'[r.job].status # "CLAIMED"
                      /\ r # None /\ handler'[h].pc \in {"serve", "reply"} => row'[r.job].done
  BY DEF ResultsServed
<1>2. ServeMove(h)
  BY ServeStep DEF IInv
<1>3. CASE r = None
  BY <1>1, <1>2, <1>3 DEF ServeMove, IInv, ResultsServed
<1>4. CASE r # None
  <2>1. r \in Result /\ r.job \in Jobs
    BY <1>1, <1>4 DEF TypeOK, Handler, Result
  <2>2. ran[r.job] = "over"
    BY <1>1, <1>2, <1>4 DEF ServeMove, IInv, ResultsServed, AgentKnows
  <2>3. ran'[r.job] = "over"
    BY <2>1, <2>2, OverStep DEF IInv
  <2>4. RowMove(r.job)
    BY <2>1, RowStep DEF IInv
  <2>5. row[r.job].status \notin {"NONE", "PENDING"}
    BY <2>1, <2>2 DEF IInv, RowStarts, Idle
  <2>6. row[r.job].status # "CLAIMED" => row'[r.job].status # "CLAIMED"
    BY <2>4, <2>5 DEF RowMove
  <2>7. row[r.job].done => row'[r.job].done
    BY <2>1, <2>4, <2>5 DEF RowMove, IInv, RowStarts
  <2>8. handler'[h].pc = "acknowledge" => row'[r.job].status # "CLAIMED"
    BY <1>1, <1>2, <1>4, <2>6 DEF ServeMove, IInv, ResultsServed
  <2>9. handler'[h].pc \in {"serve", "reply"} => row'[r.job].done
    BY <1>1, <1>2, <1>4, <2>7 DEF ServeMove, IInv, ResultsServed
  <2> QED BY <1>4, <2>3, <2>8, <2>9
<1> QED BY <1>3, <1>4

\* A row is settled by a result, or before anybody has the job.
LEMMA DoneStep == ASSUME IInv, [Next]_vars PROVE DoneIsOver'
<1>1. SUFFICES ASSUME NEW k \in Jobs
               PROVE  /\ row'[k].done => ran'[k] = "over" \/ Idle(k)'
                      /\ row'[k].status \in {"COMPLETED", "FAILED"}
                            => row'[k].done /\ ran'[k] = "over"
  BY DEF DoneIsOver
<1>2. RowMove(k)
  BY RowStep DEF IInv
<1>3. Idle(k) => Idle(k)' \/ (row[k].status = "PENDING" /\ row'[k].status = "CLAIMED")
  BY IdleStep DEF IInv
<1>4. ran[k] = "over" => ran'[k] = "over"
  BY OverStep DEF IInv
<1> QED BY <1>2, <1>3, <1>4 DEF RowMove, IInv, RowStarts, DoneIsOver

\* A call answers from what can no longer change.
LEMMA AnswerStep == ASSUME IInv, [Next]_vars PROVE AnswerIsFinal'
<1>1. SUFFICES ASSUME NEW k \in Jobs
               PROVE  /\ call'[k].answer # None => call'[k].pc = "answered"
                      /\ call'[k].answer = "ssh" =>
                            Idle(k)' /\ (row'[k].status = "NONE" \/ row'[k].done)
                      /\ call'[k].answer \in {"completed", "failed", "cancelled"} =>
                            \/ ran'[k] = "over"
                            \/ Idle(k)' /\ (row'[k].status = "NONE" \/ row'[k].done)
                      /\ call'[k].answer = "completed" => ran'[k] = "over"
  BY DEF AnswerIsFinal
<1>2. RowMove(k) /\ CallMove(k)
  BY RowStep, CallMoves DEF IInv
<1>3. Idle(k) => Idle(k)' \/ (row[k].status = "PENDING" /\ row'[k].status = "CLAIMED")
  BY IdleStep DEF IInv
<1>4. ran[k] = "over" => ran'[k] = "over"
  BY OverStep DEF IInv
<1>5. CASE /\ call'[k].answer = call[k].answer
           /\ call[k].answer # None => call'[k].pc = call[k].pc
  BY <1>2, <1>3, <1>4, <1>5, NoneAssumption
  DEF RowMove, IInv, RowStarts, AnswerIsFinal, Answers
<1>6. CASE /\ call'[k].pc = "answered" /\ call'[k].answer \in {"ssh", "cancelled"}
           /\ \/ row[k].status = "NONE" /\ row'[k].status = "NONE"
              \/ row[k].status = "PENDING" /\ row'[k].done
  BY <1>2, <1>3, <1>6 DEF RowMove, IInv, RowStarts
<1>7. CASE /\ call'[k].pc = "answered" /\ row[k].done /\ row'[k] = row[k]
           /\ call'[k].answer = AnswerOf(row[k])
  BY <1>3, <1>4, <1>7 DEF IInv, RowStarts, DoneIsOver, AnswerOf
<1>8. CASE call'[k].pc = "answered" /\ call'[k].answer \in {"error", "unknown"}
  BY <1>8
<1> QED BY <1>2, <1>5, <1>6, <1>7, <1>8 DEF CallMove

\* What the Agent knows changes with its own steps only, and a command that is
\* left behind ends.
LEMMA KnowsStep == ASSUME IInv, TypeOK', [Next]_vars PROVE AgentKnows'
<1> USE NoneAssumption
<1> USE DEF IInv, TypeOK, AgentKnows
<1>1. CASE UNCHANGED <<agent, ran>>
  BY <1>1
<1>2. ASSUME NEW j \in Jobs, CommandEnds(j) PROVE AgentKnows'
  BY <1>2 DEF CommandEnds, Agent, Result
<1>3. ASSUME NEW h \in Handlers, Posted(h) PROVE AgentKnows'
  <2> DEFINE j == handler[h].job
  <2>1. CASE agent' = IdleAgent
    BY <2>1 DEF IdleAgent
  <2>2. ASSUME j # None, ran' = [ran EXCEPT ![j] = "running"],
               agent' = [IdleAgent EXCEPT !.pc = "run", !.job = j]
        PROVE  AgentKnows'
    <3>1. j \in Jobs
      BY <2>2 DEF Handler
    <3>2. agent'.pc = "run" /\ agent'.job = j /\ agent'.pending = None
      BY <2>2 DEF IdleAgent
    <3> QED BY <2>2, <3>1, <3>2
  <2>3. ASSUME j # None, ran' = [ran EXCEPT ![j] = "over"],
               agent' = [IdleAgent EXCEPT !.pending = [job |-> j, exit |-> 1, rejected |-> FALSE]]
        PROVE  AgentKnows'
    <3>1. j \in Jobs
      BY <2>3 DEF Handler
    <3>2. agent'.pc = "idle" /\ agent'.job = None /\ agent'.pending.job = j
      BY <2>3 DEF IdleAgent
    <3> QED BY <2>3, <3>1, <3>2
  <2> QED BY <1>3, <2>1, <2>2, <2>3 DEF Posted
<1>4. ASSUME NEW h \in Handlers, PostRefused(h) PROVE AgentKnows'
  BY <1>4 DEF PostRefused, OneLive, ResultsServed, IdleAgent, Agent, Result
<1>5. ASSUME NEW pc \in {"idle", "leave"}, NEW exit, agent.job # None, Returns(pc, exit)
      PROVE  AgentKnows'
  BY <1>5 DEF Returns, Agent
<1>6. ASSUME NEW h \in Handlers, Beaten(h) PROVE AgentKnows'
  BY <1>5, <1>6 DEF Beaten, Agent
<1>7. ASSUME NEW h \in Handlers, Post(h) \/ Beat(h) PROVE AgentKnows'
  BY <1>7, ZenonT(60) DEF Post, Beat, Agent
<1>8. CASE RunEnds \/ RunTimesOut
  BY <1>5, <1>8 DEF RunEnds, RunTimesOut
<1>9. CASE Stop
  BY <1>5, <1>9 DEF Stop, Agent
<1>10. CASE PostFails \/ BeatFails \/ Start
  BY <1>10 DEF PostFails, BeatFails, Start, IdleAgent, Agent
<1>11. CASE Leave \/ Crash
  BY <1>11, ZenonT(60) DEF Leave, Crash, IdleAgent, Agent
<1>12. CASE AgentStep
  BY <1>3, <1>4, <1>6, <1>7, <1>8, <1>9, <1>10, <1>11, <1>12 DEF AgentStep
<1> QED BY <1>1, <1>2, <1>12, CallFrame, HubFrame DEF Next, vars

\* The Agent sends a request only when it waits for no other, and forgets one
\* with its own turn to something else.
LEMMA LiveStep == ASSUME IInv, TypeOK', [Next]_vars PROVE OneLive'
<1> USE NoneAssumption
<1>0. OneLive /\ agent \in Agent /\ handler \in [Handlers -> Handler]
  BY DEF IInv, TypeOK
<1>1. CASE UNCHANGED <<agent, handler>>
  BY <1>0, <1>1 DEF OneLive
<1>2. ASSUME NEW h \in Handlers, HubStep(h) PROVE OneLive'
  <2>1. ASSUME NEW g \in Handlers
        PROVE  handler'[g].live => handler[g].live /\ handler'[g].result = handler[g].result
    <3>1. CASE Complete(h) \/ Acknowledge(h)
      BY <1>0, <3>1 DEF Complete, Acknowledge, Handler
    <3>2. CASE Heartbeat(h)
      BY <1>0, <3>2 DEF Heartbeat, Handler
    <3>3. CASE Unheard(h)
      BY <1>0, <3>3 DEF Unheard, FreeHandler
    <3>4. CASE Claim(h)
      <4>1. CASE g # h
        BY <3>4, <4>1, ClaimHandler DEF IInv
      <4>2. CASE g = h
        <5>1. CASE handler'[h] = [handler[h] EXCEPT !.pc = "reply"]
          BY <1>0, <4>2, <5>1 DEF Handler
        <5>2. CASE \E j \in Jobs : handler'[h] = [handler[h] EXCEPT !.pc = "reply", !.job = j]
          BY <1>0, <4>2, <5>2 DEF Handler
        <5> QED BY <3>4, <5>1, <5>2, ClaimHandler DEF IInv
      <4> QED BY <4>1, <4>2
    <3> QED BY <1>2, <3>1, <3>2, <3>3, <3>4 DEF HubStep
  <2> QED BY <1>0, <1>2, <2>1, HubFrame DEF OneLive
<1>3. ASSUME NEW h \in Handlers, Post(h) \/ Beat(h) PROVE OneLive'
  <2>1. /\ agent.pc \in {"idle", "run"} /\ agent'.pc \in {"post", "beat"}
        /\ agent'.pending = agent.pending
    BY <1>0, <1>3 DEF Post, Beat, Agent
  <2>2. \A g \in Handlers : ~handler[g].live
    BY <1>0, <2>1 DEF OneLive
  <2>3. \A g \in Handlers \ {h} : handler'[g] = handler[g]
    BY <1>0, <1>3 DEF Post, Beat, Serves
  <2>4. handler'[h].result = agent.pending
    <3>1. CASE Post(h)
      BY <1>0, <3>1 DEF Post, Serves, Request
    <3>2. CASE Beat(h)
      <4>1. agent.pending = None
        BY <1>0, <3>2 DEF Beat, IInv, AgentKnows
      <4> QED BY <1>0, <3>2, <4>1 DEF Beat, Serves, Request
    <3> QED BY <1>3, <3>1, <3>2
  <2> QED BY <2>1, <2>2, <2>3, <2>4 DEF OneLive
<1>4. ASSUME NEW h \in Handlers, Posted(h) \/ PostRefused(h) \/ Beaten(h) PROVE OneLive'
  <2>1. handler[h].live /\ handler' = [handler EXCEPT ![h] = FreeHandler]
    BY <1>4 DEF Posted, PostRefused, Beaten
  <2>2. \A g \in Handlers : ~handler'[g].live
    BY <1>0, <2>1 DEF OneLive, FreeHandler
  <2> QED BY <2>2 DEF OneLive
<1>5. CASE Abandon
  <2>1. \A g \in Handlers : ~handler'[g].live
    BY <1>0, <1>5 DEF Abandon, FreeHandler, Handler
  <2> QED BY <2>1 DEF OneLive
<1>6. CASE RunEnds \/ RunTimesOut \/ Start
  <2>1. \A g \in Handlers : ~handler[g].live
    BY <1>0, <1>6 DEF RunEnds, RunTimesOut, Start, OneLive
  <2> QED BY <1>6, <2>1 DEF RunEnds, RunTimesOut, Start, OneLive
<1>7. CASE Leave
  <2>1. \A g \in Handlers : ~handler[g].live
    BY <1>0, <1>7 DEF Leave, OneLive
  <2>2. \A g \in Handlers : ~handler'[g].live
    <3>1. ASSUME NEW h \in Handlers, Serves(h, Request(agent.pending, None, TRUE))
          PROVE  \A g \in Handlers : ~handler'[g].live
      BY <1>0, <2>1, <3>1 DEF Serves, Request
    <3> QED BY <1>7, <2>1, <3>1 DEF Leave
  <2> QED BY <2>2 DEF OneLive
<1>8. CASE AgentStep
  BY <1>3, <1>4, <1>5, <1>6, <1>7, <1>8 DEF AgentStep, PostFails, BeatFails, Stop, Crash
<1> QED BY <1>1, <1>2, <1>8, CallFrame DEF Next, CommandEnds, vars

-----------------------------------------------------------------------------
\* It holds initially ...
LEMMA InitIInv == Init => IInv
<1> SUFFICES ASSUME Init PROVE IInv
  OBVIOUS
<1> USE NoneAssumption
<1>1. TypeOK
  <2>1. NoRow \in Row
    BY DEF NoRow, Row
  <2>2. [pc |-> "idle", answer |-> None, aborted |-> FALSE] \in Call
    BY DEF Call
  <2>3. IdleAgent \in Agent
    BY DEF IdleAgent, Agent
  <2>4. FreeHandler \in Handler
    BY DEF FreeHandler, Handler
  <2> QED BY <2>1, <2>2, <2>3, <2>4 DEF Init, TypeOK
<1>2. RowStarts /\ DoneIsOver
  BY DEF Init, NoRow, FreeHandler, RowStarts, DoneIsOver, Idle
<1>3. HandedOnce /\ OneLive /\ ResultsServed
  BY DEF Init, FreeHandler, HandedOnce, OneLive, ResultsServed
<1>4. AgentKnows
  BY DEF Init, IdleAgent, AgentKnows
<1>5. AnswerIsFinal
  BY DEF Init, AnswerIsFinal, Answers
<1> QED BY <1>1, <1>2, <1>3, <1>4, <1>5 DEF IInv

\* ... and every step keeps it.
LEMMA NextIInv == IInv /\ [Next]_vars => IInv'
<1> SUFFICES ASSUME IInv, [Next]_vars PROVE IInv'
  OBVIOUS
<1>1. TypeOK'
  BY TypeStep DEF IInv
<1> QED BY <1>1, RowStartsStep, HandedStep, KnowsStep, LiveStep, ServedStep, DoneStep, AnswerStep
        DEF IInv

\* The inductive invariant holds in every reachable state.
THEOREM Inductive == Spec => []IInv
  BY InitIInv, NextIInv, PTL DEF Spec

\* Every variable keeps its type.
THEOREM TypeCorrect == Spec => []TypeOK
<1>1. IInv => TypeOK
  BY DEF IInv
<1> QED BY <1>1, Inductive, PTL

\* A call that is told null runs the command over SSH: whatever becomes of the
\* claim, its answer and the Agent, the Agent has not run it and never will.
THEOREM SshIsAlone == Spec => []NeverTwice
<1>1. IInv => NeverTwice
  BY DEF IInv, AnswerIsFinal, Idle, NeverTwice
<1> QED BY <1>1, Inductive, PTL

\* When executeCommandWithAgent returns a result the command is not running, and
\* after "completed" it has run.
THEOREM ResultIsTheEnd == Spec => []ResultMeansOver
<1>1. IInv => ResultMeansOver
  BY DEF IInv, AnswerIsFinal, Idle, ResultMeansOver
<1> QED BY <1>1, Inductive, PTL

\* What a step may do to the result the Agent has yet to hand in.
KeepsResult == \A r \in Result : Dropped(r) => row[r.job].done \/ r.rejected

\* Only an answer of the hub to the request with the result, which is past
\* completeServerAgentJob, and a second refusal let the Agent go on without it.
LEMMA KeepStep == ASSUME IInv, [Next]_vars PROVE KeepsResult
<1> USE NoneAssumption
<1>0. SUFFICES ASSUME NEW r \in Result, Dropped(r) PROVE row[r.job].done \/ r.rejected
  BY DEF KeepsResult
<1>1. agent \in Agent /\ AgentKnows /\ OneLive /\ ResultsServed /\ r # None
  <2>1. r # None
    OBVIOUS
  <2> QED BY <2>1 DEF IInv, TypeOK
<1>2. agent.pending = r /\ agent.job = None /\ agent'.pc \notin {"leave", "down"} /\ agent'.pending # r
  BY <1>0, <1>1 DEF Dropped, AgentKnows
<1>3. ASSUME NEW h \in Handlers, Posted(h) PROVE row[r.job].done
  BY <1>1, <1>2, <1>3 DEF Posted, OneLive, ResultsServed
<1>4. ASSUME NEW h \in Handlers, PostRefused(h) PROVE r.rejected
  <2>1. SUFFICES ASSUME ~r.rejected PROVE FALSE
    OBVIOUS
  <2>2. agent'.pending = [r EXCEPT !.exit = 1, !.rejected = TRUE]
    BY <1>2, <1>4, <2>1 DEF PostRefused, IdleAgent
  <2>3. agent'.pending \in Result /\ agent'.pending.job = r.job
    BY <2>2, ZenonT(60) DEF Result, Codes
  <2> QED BY <1>0, <2>3 DEF Dropped
<1>5. ~UNCHANGED agent
  BY <1>2
<1>6. agent.pc \notin {"run", "beat", "down"}
  BY <1>1, <1>2 DEF AgentKnows
<1>7. ~(\E h \in Handlers : Post(h)) /\ ~PostFails
  BY <1>1, <1>2 DEF Post, PostFails, Agent
<1>8. ~Leave /\ ~Crash
  BY <1>2 DEF Leave, Crash, IdleAgent
<1>9. ~Stop
  BY <1>1, <1>2 DEF Stop, Agent
<1>10. CASE AgentStep
  BY <1>3, <1>4, <1>6, <1>7, <1>8, <1>9, <1>10
  DEF AgentStep, Beat, Beaten, RunEnds, RunTimesOut, BeatFails, Start
<1> QED BY <1>5, <1>10, CallFrame, HubFrame DEF Next, CommandEnds, vars

\* The Agent gives up a result only when the row is settled or the hub has
\* refused its replacement as well, whatever is lost on the way.
THEOREM ResultsAreKept == Spec => ResultNotLost
<1>1. IInv /\ [Next]_vars => [KeepsResult]_vars
  BY KeepStep
<1> QED BY <1>1, Inductive, PTL DEF Spec, ResultNotLost, KeepsResult

\* The Agent, the hub and the calls implement DelegatedCommand: each of their
\* steps starts or ends a command or answers a call as it allows, or does nothing
\* that a caller can see.
THEOREM Implements == Spec => ImplementsCommand
<1>1. Init => Command!Init
  BY DEF Init, Command!Init
<1>2. ASSUME IInv, IInv', [Next]_vars PROVE [Command!Next]_(Command!vars)
  <2>1. /\ ran \in [Jobs -> {"never", "running", "over"}]
        /\ ran' \in [Jobs -> {"never", "running", "over"}]
    BY <1>2 DEF IInv, TypeOK
  <2>2. ASSUME NEW k \in Jobs
        PROVE  Command!Start(k) \/ Command!End(k) \/ ran'[k] = ran[k]
    <3>1. RanMove(k)
      BY <1>2, RanStep DEF IInv
    <3>2. ran[k] = "never" /\ ~Idle(k) => call[k].answer \notin Command!Settling
      BY <1>2 DEF IInv, AnswerIsFinal, Command!Settling
    <3> QED BY <2>1, <3>1, <3>2 DEF RanMove, Idle, Command!Start, Command!End
  <2>3. ASSUME NEW k \in Jobs
        PROVE  Command!Tell(k) \/ call'[k].answer = call[k].answer
    <3>1. CallMove(k)
      BY <1>2, CallMoves DEF IInv
    <3>2. call'[k].answer \in Answers \cup {None}
      BY <1>2 DEF IInv, TypeOK, Call
    <3>3. call'[k].answer = call[k].answer \/ (call[k].answer = None /\ call'[k].pc = "answered")
      BY <1>2, <3>1 DEF IInv, CallMove, AnswerIsFinal
    <3>4. CASE call'[k].answer \in {"ssh", "completed", "failed", "cancelled"}
      <4>1. /\ call'[k].answer = "ssh" => ran'[k] = "never"
            /\ call'[k].answer = "completed" => ran'[k] = "over"
            /\ call'[k].answer \in {"failed", "cancelled"} => ran'[k] \in {"over", "never"}
        BY <1>2 DEF IInv, AnswerIsFinal, Idle
      <4> QED BY <3>3, <3>4, <4>1 DEF Command!Tell
    <3>5. CASE call'[k].answer \in {"unknown", "error"}
      BY <3>3, <3>5 DEF Command!Tell
    <3>6. CASE call'[k].answer = None
      BY <3>1, <3>3, <3>6, NoneAssumption, <1>2 DEF IInv, CallMove, AnswerOf, AnswerIsFinal, Answers
    <3> QED BY <3>2, <3>4, <3>5, <3>6 DEF Answers
  <2> QED BY <2>1, <2>2, <2>3, Zenon DEF Command!Next
<1> QED BY <1>1, <1>2, Inductive, PTL DEF Spec, ImplementsCommand, Command!Spec

=============================================================================

------------------------- MODULE UploadSessionProofs -------------------------
(***************************************************************************)
(* Proofs about UploadSession for any number of finalizers, appends and    *)
(* chunks and any length of the lease.                                     *)
(***************************************************************************)
EXTENDS UploadSession, TLAPS

\* Statuses of a session that has, or had, an owner.
Owned == {"FINALIZING", "COMPLETED", "FAILED"}

\* A finalizer that has not come to its write, and one that is past its start.
BeforeWrite == {"idle", "begin", "claimed", "assert1", "note", "assert2"}
Asserting == {"assert1", "assert2", "assert3"}

\* The row lock keeps the status: only an append has it, in its transaction.
LockKeepsOpen ==
    lock # None => row.status \in Open /\ app[lock] \in {"locked", "renamed"}

\* A session gets one owner, and has one from then on.
OwnerStays == row.token # None <=> row.status \in Owned

\* Who may claim has seen all chunks, and none is taken back.
ClaimedIsComplete ==
    /\ row.status \in Owned => row.received = Chunks
    /\ \A f \in Finalizers : fin[f].pc # "idle" /\ ~Stopped(f) => row.received = Chunks

\* The chunks the row knows are on disk while the session is of any use.
InUse == \/ row.status \in Open \/ row.status = "FINALIZING"
         \/ row.status = "FAILED" /\ row.review
ReceivedIsOnDisk ==
    /\ InUse => \A c \in row.received : disk[c] # None
    /\ lock # None /\ app[lock] = "renamed" => disk[ChunkOf[lock]] # None

\* Whoever is about to remove the directory has settled the session before.
RemovalIsSettled ==
    /\ doomed => row.status = "CANCELLED"
    /\ \A f \in Finalizers :
          /\ fin[f].pc = "clean" => row.status = "COMPLETED"
          /\ fin[f].pc = "cleanFailed" => row.status = "FAILED" /\ ~row.review

\* Who answers with success has completed the session himself.
CleanIsOwn == \A f \in Finalizers : fin[f].pc = "clean" => row.token = f

\* What a finalizer knows of its own write.
WriteIsKnown ==
    \A f \in Finalizers :
        /\ fin[f].pc \in BeforeWrite => f \notin wrote
        /\ fin[f].pc = "writing" => f \in wrote \ (landed \cup inflight)
        /\ fin[f].pc \in {"writing", "assert3", "commit", "clean"} => fin[f].writing
        /\ fin[f].pc = "cleanFailed" => ~fin[f].writing
        /\ fin[f].pc \in {"assert3", "commit"} => f \in landed
        /\ ~fin[f].writing /\ ~Stopped(f) => f \notin landed \cup inflight
        /\ ~Stopped(f) => fin[f].answer = "none"

\* The owner of a plainly failed session has stopped writing.
PlainIsOver ==
    row.status = "FAILED" /\ ~row.review
        => fin[row.token].pc \in {"cleanFailed", "done", "dead"}

\* An update that renewed the lease is the proof of it until its answer is too old.
HitOf(f) ==
    /\ main[f].at # "none" => fin[f].pc \in {"begin"} \cup Asserting
    /\ main[f].at = "hit" /\ main[f].lag < LeaseLen
          => Holder(f) /\ row.lease >= LeaseLen - main[f].lag
HitIsLease == \A f \in Finalizers : HitOf(f)

\* The inductive invariant.
IInv ==
    /\ TypeOK /\ LockKeepsOpen /\ OwnerStays /\ ClaimedIsComplete /\ ReceivedIsOnDisk
    /\ RemovalIsSettled /\ CleanIsOwn /\ WriteIsKnown /\ PlainIsOver /\ HitIsLease
    /\ CompletedMeansLanded /\ PlainMeansUntouched

\* What a step may do to the row, to the target and to the chunks.
RowSettles ==
    /\ row.status \in Owned => row'.token = row.token /\ row'.status \in Owned
    /\ row.status \in Settled => row'.status = row.status /\ row'.review = row.review
LeaseWrites == \A f \in Finalizers : f \in wrote' \ wrote => Holder(f) /\ row.lease > 0
Frozen ==
    row.status = "FINALIZING" /\ disk' # disk
        => \E a \in Appends : app[a] = "locked" /\ lock # a /\ disk'[ChunkOf[a]] = a

\* What a step may do to the session, to the target and to the answers, as
\* ClaimedUpload sees them.
SessionMoves ==
    \/ /\ row'.token = row.token /\ row'.review = row.review
       /\ row'.status = row.status \/ (row.status \in Open /\ row'.status \in Open)
    \/ row.status \in Open /\ row'.status = "FINALIZING" /\ row'.token \in Finalizers
    \/ row.status \in Open /\ row'.status = "CANCELLED" /\ row'.token = row.token
    \/ row.status = "FINALIZING" /\ row'.status \in {"COMPLETED", "FAILED"} /\ row'.token = row.token
Lands ==
    /\ wrote \subseteq wrote' /\ landed \subseteq landed'
    /\ \A f \in landed' \ landed : f \in inflight \/ fin[f].pc = "writing"
Answered ==
    \A f \in Finalizers :
        /\ \/ fin'[f].answer = fin[f].answer
           \/ fin[f].answer = "none" /\ (fin'[f].answer = "ok" => fin[f].pc = "clean")
        /\ fin'[f].pc = "clean" => fin[f].pc = "clean" \/ Holder(f)

-----------------------------------------------------------------------------
\* A call is under way, or none is.
LEMMA CallType == Sent \in Call /\ NoCall \in Call
<1>1. 0 \in 0 .. LeaseLen
  BY ConstantsAssumption
<1> QED BY <1>1, Zenon DEF Sent, NoCall, Call

\* What a step changes of what a finalizer knows.
LEMMA FinUpdate ==
    ASSUME NEW r \in Fin
    PROVE  /\ [r EXCEPT !.lost = TRUE] \in Fin
           /\ \A d \in 0 .. LeaseLen : [r EXCEPT !.deadline = d] \in Fin
           /\ \A pc \in FinPcs :
                 /\ [r EXCEPT !.pc = pc] \in Fin
                 /\ [r EXCEPT !.lost = TRUE, !.pc = pc] \in Fin
                 /\ \A w \in BOOLEAN : [r EXCEPT !.pc = pc, !.writing = w] \in Fin
                 /\ \A d \in 0 .. LeaseLen : [r EXCEPT !.pc = pc, !.deadline = d] \in Fin
                 /\ \A d \in 0 .. LeaseLen, w \in BOOLEAN :
                       [r EXCEPT !.deadline = d, !.writing = w, !.pc = pc] \in Fin
  BY DEF Fin

\* What is left of a request that is over.
LEMMA OverType == \A pc \in FinPcs, answer \in Answers : Over(pc, answer) \in Fin
  BY ConstantsAssumption DEF Over, Fin

\* An update that reached the row is answered as it found it.
LEMMA LandType == \A call \in Call, f \in Finalizers : Land(call, f) \in Call
  BY DEF Land, Call

\* The age of a call stops at the length of the lease.
LEMMA OlderType == \A call \in Call : Older(call) \in Call
  BY ConstantsAssumption DEF Older, Call

\* Every step keeps the variables in their types.
LEMMA TypeStep == ASSUME TypeOK, WriteIsKnown, [Next]_vars PROVE TypeOK'
<1> USE ConstantsAssumption
<1> USE DEF TypeOK, appendVars, writeVars
<1>1. ASSUME NEW a \in Appends, AppendStep(a) PROVE TypeOK'
  <2>1. CASE AppendStage(a)  BY <2>1 DEF AppendStage, AppendPcs
  <2>2. CASE AppendLock(a)  BY <2>2 DEF AppendLock, AppendPcs
  <2>3. CASE AppendRefused(a)  BY <2>3 DEF AppendRefused, AppendPcs
  <2>4. CASE AppendRename(a)  BY <2>4 DEF AppendRename, AppendPcs
  <2>5. CASE AppendCommit(a)
    BY <2>5
    DEF AppendCommit, AppendPcs, Unlock, Row, Open
  <2>6. CASE AppendFails(a)  BY <2>6 DEF AppendFails, AppendPcs, Unlock
  <2>7. CASE AppendTransactionLost(a)  BY <2>7 DEF AppendTransactionLost
  <2> QED BY <1>1, <2>1, <2>2, <2>3, <2>4, <2>5, <2>6, <2>7 DEF AppendStep
<1>2. ASSUME NEW f \in Finalizers,
             Start(f) \/ FinStep(f) \/ BeatSend(f) \/ BeatStep(f) \/ LandsLate(f) \/ Crash(f)
      PROVE  TypeOK'
  <2>0. /\ fin[f] \in Fin /\ LeaseLen \in 0 .. LeaseLen
        /\ LeaseLen - main[f].lag \in 0 .. LeaseLen /\ LeaseLen - beat[f].lag \in 0 .. LeaseLen
    BY DEF Call
  <2>1. CASE Start(f)
    <3>1. fin' \in [Finalizers -> Fin]
      BY <2>1, <2>0, FinUpdate, Zenon DEF Start, FinPcs
    <3>2. main' \in [Finalizers -> Call]
      BY <2>1, CallType DEF Start
    <3> QED BY <2>1, <3>1, <3>2, Zenon DEF Start
  <2>2. CASE Begin(f)
    <3>1. fin' \in [Finalizers -> Fin]
      BY <2>2, <2>0, FinUpdate, Zenon DEF Begin, FinPcs
    <3>2. row' \in Row
      BY <2>2, <2>0 DEF Begin, ClaimedRow, Row
    <3>3. main' \in [Finalizers -> Call]
      BY <2>2, CallType DEF Begin
    <3> QED BY <2>2, <3>1, <3>2, <3>3, Zenon DEF Begin
  <2>3. CASE BeginFails(f)
    <3>1. fin' \in [Finalizers -> Fin]
      BY <2>3, OverType DEF BeginFails, FinPcs, Answers
    <3>2. main' \in [Finalizers -> Call]
      BY <2>3, CallType DEF BeginFails
    <3> QED BY <2>3, <3>1, <3>2 DEF BeginFails
  <2>4. CASE BeginUnanswered(f)
    <3>1. fin' \in [Finalizers -> Fin]
      BY <2>4, OverType DEF BeginUnanswered, FinPcs, Answers
    <3>2. row' \in Row
      BY <2>4, <2>0, Zenon DEF BeginUnanswered, ClaimedRow, Row
    <3>3. main' \in [Finalizers -> Call]
      BY <2>4, CallType DEF BeginUnanswered
    <3> QED BY <2>4, <3>1, <3>2, <3>3 DEF BeginUnanswered
  <2>5. CASE Assemble(f)
    <3>1. [fin[f] EXCEPT !.pc = "assert1"] \in Fin /\ [fin[f] EXCEPT !.pc = "failing"] \in Fin
      BY <2>0, FinUpdate, Zenon DEF FinPcs
    <3>2. fin' \in [Finalizers -> Fin]
      BY <2>5, <3>1 DEF Assemble
    <3> QED BY <2>5, <3>1, <3>2 DEF Assemble
  <2>6. CASE AssertSend(f)
    <3>1. [fin[f] EXCEPT !.lost = TRUE, !.pc = "failing"] \in Fin
      BY <2>0, FinUpdate, Zenon DEF FinPcs
    <3>2. fin' \in [Finalizers -> Fin]
      BY <2>6, <3>1 DEF AssertSend
    <3>3. main' \in [Finalizers -> Call]
      BY <2>6, CallType DEF AssertSend
    <3> QED BY <2>6, <3>1, <3>2, <3>3, Zenon DEF AssertSend
  <2>7. CASE AssertLands(f)
    <3>1. row' \in Row
      BY <2>7 DEF AssertLands, Renewed, Row
    <3>2. main' \in [Finalizers -> Call]
      BY <2>7, LandType DEF AssertLands
    <3> QED BY <2>7, <3>1, <3>2 DEF AssertLands
  <2>8. CASE AssertHolds(f)
    <3>1. fin' \in [Finalizers -> Fin]
      BY <2>8, <2>0, FinUpdate, Zenon DEF AssertHolds, FinPcs
    <3>2. main' \in [Finalizers -> Call]
      BY <2>8, CallType DEF AssertHolds
    <3>3. wrote' \subseteq Finalizers /\ inflight' \subseteq wrote' /\ landed' \subseteq wrote'
      BY <2>8 DEF AssertHolds
    <3> QED BY <2>8, <3>1, <3>2, <3>3, Zenon DEF AssertHolds
  <2>9. CASE AssertLoses(f)
    <3>1. fin' \in [Finalizers -> Fin]
      BY <2>9, <2>0, FinUpdate, Zenon DEF AssertLoses, FinPcs
    <3>2. main' \in [Finalizers -> Call]
      BY <2>9, CallType DEF AssertLoses
    <3> QED BY <2>9, <3>1, <3>2 DEF AssertLoses
  <2>10. CASE AssertThrows(f)
    <3>1. fin' \in [Finalizers -> Fin]
      BY <2>10, <2>0, FinUpdate, Zenon DEF AssertThrows, FinPcs
    <3>2. main' \in [Finalizers -> Call]
      BY <2>10, CallType DEF AssertThrows
    <3> QED BY <2>10, <3>1, <3>2 DEF AssertThrows
  <2>11. CASE Note(f)
    <3>1. [fin[f] EXCEPT !.pc = "assert2"] \in Fin /\ [fin[f] EXCEPT !.lost = TRUE, !.pc = "failing"] \in Fin /\ [fin[f] EXCEPT !.pc = "failing"] \in Fin
      BY <2>0, FinUpdate, Zenon DEF FinPcs
    <3>2. fin' \in [Finalizers -> Fin]
      BY <2>11, <3>1 DEF Note
    <3> QED BY <2>11, <3>1, <3>2 DEF Note
  <2>12. CASE WriteDone(f)
    <3>1. fin' \in [Finalizers -> Fin]
      BY <2>12, <2>0, FinUpdate, Zenon DEF WriteDone, FinPcs
    <3>2. wrote' \subseteq Finalizers /\ inflight' \subseteq wrote' /\ landed' \subseteq wrote'
      BY <2>12 DEF WriteDone, WriteIsKnown
    <3> QED BY <2>12, <3>1, <3>2 DEF WriteDone
  <2>13. CASE WriteRefused(f)
    <3>1. [fin[f] EXCEPT !.pc = "failing", !.writing = fin[f].lost] \in Fin
      BY <2>0, Zenon DEF Fin, FinPcs
    <3>2. fin' \in [Finalizers -> Fin]
      BY <2>13, <3>1 DEF WriteRefused
    <3> QED BY <2>13, <3>1, <3>2 DEF WriteRefused
  <2>14. CASE WriteErrors(f)
    <3>1. fin' \in [Finalizers -> Fin]
      BY <2>14, <2>0, FinUpdate, Zenon DEF WriteErrors, FinPcs
    <3>2. wrote' \subseteq Finalizers /\ inflight' \subseteq wrote' /\ landed' \subseteq wrote'
      BY <2>14 DEF WriteErrors, WriteIsKnown
    <3> QED BY <2>14, <3>1, <3>2 DEF WriteErrors
  <2>15. CASE Commit(f)
    <3>1. [fin[f] EXCEPT !.pc = "clean"] \in Fin /\ [fin[f] EXCEPT !.pc = "failing"] \in Fin
      BY <2>0, FinUpdate, Zenon DEF FinPcs
    <3>2. fin' \in [Finalizers -> Fin]
      BY <2>15, <3>1 DEF Commit
    <3>3. row' \in Row
      BY <2>15 DEF Commit, Row, Settled
    <3> QED BY <2>15, <3>1, <3>2, <3>3, Zenon DEF Commit
  <2>16. CASE CommitFails(f)
    <3>1. fin' \in [Finalizers -> Fin]
      BY <2>16, <2>0, FinUpdate, Zenon DEF CommitFails, FinPcs
    <3> QED BY <2>16, <3>1, Zenon DEF CommitFails
  <2>17. CASE Clean(f)
    <3>1. fin' \in [Finalizers -> Fin]
      BY <2>17, OverType DEF Clean, FinPcs, Answers
    <3>2. disk' \in [Chunks -> Appends \cup {None}] /\ files' \subseteq Appends
      BY <2>17 DEF Clean, RemoveDir
    <3> QED BY <2>17, <3>1, <3>2 DEF Clean
  <2>18. CASE Fail(f)
    <3>1. fin' \in [Finalizers -> Fin]
      BY <2>18, <2>0, FinUpdate, OverType, Zenon DEF Fail, FinPcs, Answers
    <3>2. row' \in Row
      BY <2>18, <2>0 DEF Fail, FailedRow, NeedsReview, Row, Fin, Settled
    <3> QED BY <2>18, <3>1, <3>2, Zenon DEF Fail
  <2>19. CASE FailThrows(f)
    <3>1. fin' \in [Finalizers -> Fin]
      BY <2>19, OverType DEF FailThrows, FinPcs, Answers
    <3> QED BY <2>19, <3>1 DEF FailThrows
  <2>20. CASE FailUnanswered(f)
    <3>1. fin' \in [Finalizers -> Fin]
      BY <2>20, OverType DEF FailUnanswered, FinPcs, Answers
    <3>2. row' \in Row
      BY <2>20, <2>0 DEF FailUnanswered, FailedRow, NeedsReview, Row, Fin, Settled
    <3> QED BY <2>20, <3>1, <3>2 DEF FailUnanswered
  <2>21. CASE BeatSend(f)
    <3>1. [fin[f] EXCEPT !.lost = TRUE] \in Fin
      BY <2>0, FinUpdate
    <3>2. fin' \in [Finalizers -> Fin]
      BY <2>21, <3>1 DEF BeatSend
    <3>3. beat' \in [Finalizers -> Call]
      BY <2>21, CallType DEF BeatSend
    <3> QED BY <2>21, <3>1, <3>2, <3>3 DEF BeatSend
  <2>22. CASE BeatLands(f)
    <3>1. row' \in Row
      BY <2>22 DEF BeatLands, Renewed, Row
    <3>2. beat' \in [Finalizers -> Call]
      BY <2>22, LandType DEF BeatLands
    <3> QED BY <2>22, <3>1, <3>2 DEF BeatLands
  <2>23. CASE BeatAnswered(f)
    <3>1. [fin[f] EXCEPT !.deadline = LeaseLen - beat[f].lag] \in Fin /\ [fin[f] EXCEPT !.lost = TRUE] \in Fin
      BY <2>0, FinUpdate
    <3>2. fin' \in [Finalizers -> Fin]
      <4>1. CASE fin' = [fin EXCEPT ![f].deadline = LeaseLen - beat[f].lag]  BY <3>1, <4>1
      <4>2. CASE fin' = [fin EXCEPT ![f].lost = TRUE]  BY <3>1, <4>2
      <4>3. CASE fin' = fin  BY <4>3
      <4> QED BY <2>23, <4>1, <4>2, <4>3 DEF BeatAnswered
    <3>3. beat' \in [Finalizers -> Call]
      BY <2>23, CallType DEF BeatAnswered
    <3> QED BY <2>23, <3>1, <3>2, <3>3 DEF BeatAnswered
  <2>24. CASE LandsLate(f)
    BY <2>24 DEF LandsLate
  <2>25. CASE Crash(f)
    <3>1. fin' \in [Finalizers -> Fin]
      BY <2>25, OverType DEF Crash, FinPcs, Answers
    <3>2. main' \in [Finalizers -> Call]
      BY <2>25, CallType DEF Crash
    <3>3. beat' \in [Finalizers -> Call]
      BY <2>25, CallType DEF Crash
    <3>4. wrote' \subseteq Finalizers /\ inflight' \subseteq wrote' /\ landed' \subseteq wrote'
      BY <2>25 DEF Crash, WriteIsKnown
    <3> QED BY <2>25, <3>1, <3>2, <3>3, <3>4 DEF Crash
  <2> QED BY <1>2, <2>1, <2>2, <2>3, <2>4, <2>5, <2>6, <2>7, <2>8, <2>9, <2>10, <2>11,
             <2>12, <2>13, <2>14, <2>15, <2>16, <2>17, <2>18, <2>19, <2>20, <2>21, <2>22, <2>23,
             <2>24, <2>25
          DEF FinStep, BeatStep
<1>3. CASE Cancel  BY <1>3 DEF Cancel, Row, Settled
<1>4. CASE CancelCleans  BY <1>4 DEF CancelCleans, RemoveDir
<1>5. CASE Recover  BY <1>5 DEF Recover, Row, Settled
<1>6. CASE Expire  BY <1>6 DEF Expire, Row
<1>7. CASE Tick
  <2>1. fin' \in [Finalizers -> Fin]
    <3>1. \A f \in Finalizers : fin[f] \in Fin /\ fin[f].deadline \in 0 .. LeaseLen
      BY DEF Fin
    <3>2. \A d \in 0 .. LeaseLen : Down(d) \in 0 .. LeaseLen
      BY DEF Down
    <3> QED BY <1>7, <3>1, <3>2, FinUpdate DEF Tick
  <2>2. row.lease \in 0 .. LeaseLen /\ Down(row.lease) \in 0 .. LeaseLen
    BY DEF Row, Down
  <2>3. row' \in Row
    BY <1>7, <2>2 DEF Tick, Row
  <2> QED BY <1>7, <2>1, <2>3, OlderType DEF Tick
<1>8. CASE UNCHANGED vars  BY <1>8 DEF vars
<1> QED BY <1>1, <1>2, <1>3, <1>4, <1>5, <1>6, <1>7, <1>8 DEF Next

-----------------------------------------------------------------------------
\* Who updates the row waits for the lock, and an append that has it keeps the
\* session open.
LEMMA LockStep == ASSUME IInv, TypeOK', [Next]_vars PROVE LockKeepsOpen'
<1> USE ConstantsAssumption
<1> USE DEF IInv, TypeOK, appendVars, writeVars, CanCommit, LockKeepsOpen, Open,
            Unlock, AcceptsChunks
<1>1. ASSUME NEW a \in Appends, AppendStep(a) PROVE LockKeepsOpen'
  <2>1. CASE AppendStage(a) \/ AppendLock(a) \/ AppendRefused(a) \/ AppendRename(a)
             \/ AppendCommit(a) \/ AppendFails(a) \/ AppendTransactionLost(a)
    BY <2>1 DEF AppendStage, AppendLock, AppendRefused, AppendRename,
        AppendCommit, AppendFails, AppendTransactionLost
  <2> QED BY <1>1, <2>1 DEF AppendStep
<1>2. ASSUME NEW f \in Finalizers,
             Start(f) \/ FinStep(f) \/ BeatSend(f) \/ BeatStep(f) \/ LandsLate(f) \/ Crash(f)
      PROVE  LockKeepsOpen'
  <2>1. CASE Start(f) \/ Begin(f) \/ BeginFails(f) \/ BeginUnanswered(f)
             \/ Assemble(f) \/ AssertSend(f) \/ AssertLands(f) \/ AssertHolds(f)
    BY <2>1 DEF Start, Begin, BeginFails, BeginUnanswered, Assemble, AssertSend,
        AssertLands, AssertHolds
  <2>2. CASE AssertLoses(f) \/ AssertThrows(f) \/ Note(f) \/ WriteDone(f)
             \/ WriteRefused(f) \/ WriteErrors(f) \/ Commit(f) \/ CommitFails(f)
    BY <2>2 DEF AssertLoses, AssertThrows, Note, WriteDone, WriteRefused,
        WriteErrors, Commit, CommitFails
  <2>3. CASE Clean(f) \/ Fail(f) \/ FailThrows(f) \/ FailUnanswered(f) \/ BeatSend(f)
             \/ BeatLands(f) \/ BeatAnswered(f) \/ LandsLate(f) \/ Crash(f)
    BY <2>3 DEF Clean, Fail, FailThrows, FailUnanswered, BeatSend, BeatLands,
        BeatAnswered, LandsLate, Crash
  <2> QED BY <1>2, <2>1, <2>2, <2>3
          DEF FinStep, BeatStep
<1>3. CASE Cancel \/ CancelCleans
  BY <1>3 DEF Cancel, CancelCleans
<1>4. CASE Recover
  BY <1>4 DEF Recover
<1>5. CASE Expire
  BY <1>5 DEF Expire
<1>6. CASE Tick
  BY <1>6 DEF Tick
<1>7. CASE UNCHANGED vars
  BY <1>7 DEF vars
<1> QED BY <1>1, <1>2, <1>3, <1>4, <1>5, <1>6, <1>7 DEF Next

\* Begin makes an owner of an open session; afterwards the row only settles.
LEMMA OwnerStep == ASSUME IInv, TypeOK', [Next]_vars PROVE OwnerStays'
<1> USE ConstantsAssumption
<1> USE DEF IInv, TypeOK, appendVars, writeVars, OwnerStays, Owned, Open, Settled,
            AcceptsChunks, Holder, FailFenced, FailedRow, ClaimedRow,
            LockKeepsOpen, Renewed, Row, CanCommit
<1>1. ASSUME NEW a \in Appends, AppendStep(a) PROVE OwnerStays'
  <2>1. CASE AppendStage(a) \/ AppendLock(a) \/ AppendRefused(a)
    BY <2>1 DEF AppendStage, AppendLock, AppendRefused
  <2>2. CASE AppendRename(a)
    BY <2>2 DEF AppendRename
  <2>3. CASE AppendCommit(a)
    BY <2>3 DEF AppendCommit
  <2>4. CASE AppendFails(a) \/ AppendTransactionLost(a)
    BY <2>4 DEF AppendFails, AppendTransactionLost
  <2> QED BY <1>1, <2>1, <2>2, <2>3, <2>4 DEF AppendStep
<1>2. ASSUME NEW f \in Finalizers,
             Start(f) \/ FinStep(f) \/ BeatSend(f) \/ BeatStep(f) \/ LandsLate(f) \/ Crash(f)
      PROVE  OwnerStays'
  <2>1. CASE Start(f)
    BY <2>1 DEF Start
  <2>2. CASE Begin(f)
    BY <2>2 DEF Begin
  <2>3. CASE BeginFails(f)
    BY <2>3 DEF BeginFails
  <2>4. CASE BeginUnanswered(f)
    BY <2>4 DEF BeginUnanswered
  <2>5. CASE Assemble(f) \/ AssertSend(f) \/ AssertLands(f) \/ AssertHolds(f)
    BY <2>5 DEF Assemble, AssertSend, AssertLands, AssertHolds
  <2>6. CASE AssertLoses(f) \/ AssertThrows(f) \/ Note(f) \/ WriteDone(f)
             \/ WriteRefused(f) \/ WriteErrors(f) \/ Commit(f) \/ CommitFails(f)
    BY <2>6 DEF AssertLoses, AssertThrows, Note, WriteDone, WriteRefused,
        WriteErrors, Commit, CommitFails
  <2>7. CASE Clean(f)
    BY <2>7 DEF Clean
  <2>8. CASE Fail(f)
    BY <2>8 DEF Fail
  <2>9. CASE FailThrows(f)
    BY <2>9 DEF FailThrows
  <2>10. CASE FailUnanswered(f)
    BY <2>10 DEF FailUnanswered
  <2>11. CASE BeatSend(f) \/ BeatLands(f) \/ BeatAnswered(f)
              \/ LandsLate(f) \/ Crash(f)
    BY <2>11 DEF BeatSend, BeatLands, BeatAnswered, LandsLate, Crash
  <2> QED BY <1>2, <2>1, <2>2, <2>3, <2>4, <2>5, <2>6, <2>7, <2>8, <2>9, <2>10,
             <2>11
          DEF FinStep, BeatStep
<1>3. CASE Cancel \/ CancelCleans
  BY <1>3 DEF Cancel, CancelCleans
<1>4. CASE Recover
  BY <1>4 DEF Recover
<1>5. CASE Expire
  BY <1>5 DEF Expire
<1>6. CASE Tick
  BY <1>6 DEF Tick
<1>7. CASE UNCHANGED vars
  BY <1>7 DEF vars
<1> QED BY <1>1, <1>2, <1>3, <1>4, <1>5, <1>6, <1>7 DEF Next

\* Start has seen every chunk, and an append only adds to what was received.
LEMMA ClaimedStep == ASSUME IInv, TypeOK', [Next]_vars PROVE ClaimedIsComplete'
<1> USE ConstantsAssumption
<1> USE DEF IInv, TypeOK, appendVars, writeVars, ClaimedIsComplete, OwnerStays,
            Owned, Open, Settled, AcceptsChunks, Holder, FailFenced, FailedRow,
            ClaimedRow, LockKeepsOpen, Renewed, Row, CanCommit, Stopped, Over, Fin
<1>1. ASSUME NEW a \in Appends, AppendStep(a) PROVE ClaimedIsComplete'
  <2>1. CASE AppendStage(a) \/ AppendLock(a) \/ AppendRefused(a)
    BY <2>1 DEF AppendStage, AppendLock, AppendRefused
  <2>2. CASE AppendRename(a)
    BY <2>2 DEF AppendRename
  <2>3. CASE AppendCommit(a)
    <3>1. ChunkOf[a] \in Chunks
      OBVIOUS
    <3>2. row.received = Chunks => row'.received = Chunks
      BY <2>3, <3>1 DEF AppendCommit
    <3>3. row'.status \in Owned => row.status \in Owned
      BY <2>3 DEF AppendCommit
    <3> QED BY <2>3, <3>2, <3>3 DEF AppendCommit
  <2>4. CASE AppendFails(a) \/ AppendTransactionLost(a)
    BY <2>4 DEF AppendFails, AppendTransactionLost
  <2> QED BY <1>1, <2>1, <2>2, <2>3, <2>4 DEF AppendStep
<1>2. ASSUME NEW f \in Finalizers,
             Start(f) \/ FinStep(f) \/ BeatSend(f) \/ BeatStep(f) \/ LandsLate(f) \/ Crash(f)
      PROVE  ClaimedIsComplete'
  <2>1. CASE Start(f)
    BY <2>1 DEF Start
  <2>2. CASE Begin(f)
    BY <2>2 DEF Begin
  <2>3. CASE BeginFails(f)
    BY <2>3 DEF BeginFails
  <2>4. CASE BeginUnanswered(f)
    BY <2>4 DEF BeginUnanswered
  <2>5. CASE Assemble(f) \/ AssertSend(f) \/ AssertLands(f) \/ AssertHolds(f)
    BY <2>5 DEF Assemble, AssertSend, AssertLands, AssertHolds
  <2>6. CASE AssertLoses(f) \/ AssertThrows(f) \/ Note(f) \/ WriteDone(f)
             \/ WriteRefused(f) \/ WriteErrors(f) \/ Commit(f) \/ CommitFails(f)
    BY <2>6 DEF AssertLoses, AssertThrows, Note, WriteDone, WriteRefused,
        WriteErrors, Commit, CommitFails
  <2>7. CASE Clean(f)
    BY <2>7 DEF Clean
  <2>8. CASE Fail(f)
    BY <2>8 DEF Fail
  <2>9. CASE FailThrows(f)
    BY <2>9 DEF FailThrows
  <2>10. CASE FailUnanswered(f)
    BY <2>10 DEF FailUnanswered
  <2>11. CASE BeatSend(f)
    BY <2>11 DEF BeatSend
  <2>12. CASE BeatLands(f)
    BY <2>12 DEF BeatLands
  <2>13. CASE BeatAnswered(f)
    BY <2>13 DEF BeatAnswered
  <2>14. CASE LandsLate(f)
    BY <2>14 DEF LandsLate
  <2>15. CASE Crash(f)
    BY <2>15 DEF Crash
  <2> QED BY <1>2, <2>1, <2>2, <2>3, <2>4, <2>5, <2>6, <2>7, <2>8, <2>9, <2>10,
             <2>11, <2>12, <2>13, <2>14, <2>15
          DEF FinStep, BeatStep
<1>3. CASE Cancel \/ CancelCleans
  BY <1>3 DEF Cancel, CancelCleans
<1>4. CASE Recover
  BY <1>4 DEF Recover
<1>5. CASE Expire
  BY <1>5 DEF Expire
<1>6. CASE Tick
  BY <1>6 DEF Tick
<1>7. CASE UNCHANGED vars
  BY <1>7 DEF vars
<1> QED BY <1>1, <1>2, <1>3, <1>4, <1>5, <1>6, <1>7 DEF Next

\* A rename comes before its commit, and a removal after the settlement.
LEMMA ReceivedStep == ASSUME IInv, TypeOK', [Next]_vars PROVE ReceivedIsOnDisk'
<1> USE ConstantsAssumption
<1> USE DEF IInv, TypeOK, appendVars, writeVars, ReceivedIsOnDisk, InUse,
            ClaimedIsComplete, RemovalIsSettled, Owned, Open, AcceptsChunks,
            Holder, FailFenced, FailedRow, ClaimedRow, LockKeepsOpen, Renewed,
            Row, CanCommit, RemoveDir, Unlock
<1>1. ASSUME NEW a \in Appends, AppendStep(a) PROVE ReceivedIsOnDisk'
  <2>1. CASE AppendStage(a) \/ AppendLock(a) \/ AppendRefused(a)
    BY <2>1 DEF AppendStage, AppendLock, AppendRefused
  <2>2. CASE AppendRename(a)
    BY <2>2 DEF AppendRename
  <2>3. CASE AppendCommit(a)
    BY <2>3 DEF AppendCommit
  <2>4. CASE AppendFails(a) \/ AppendTransactionLost(a)
    BY <2>4 DEF AppendFails, AppendTransactionLost
  <2> QED BY <1>1, <2>1, <2>2, <2>3, <2>4 DEF AppendStep
<1>2. ASSUME NEW f \in Finalizers,
             Start(f) \/ FinStep(f) \/ BeatSend(f) \/ BeatStep(f) \/ LandsLate(f) \/ Crash(f)
      PROVE  ReceivedIsOnDisk'
  <2>1. CASE Start(f)
    BY <2>1 DEF Start
  <2>2. CASE Begin(f)
    BY <2>2 DEF Begin
  <2>3. CASE BeginFails(f)
    BY <2>3 DEF BeginFails
  <2>4. CASE BeginUnanswered(f)
    BY <2>4 DEF BeginUnanswered
  <2>5. CASE Assemble(f) \/ AssertSend(f) \/ AssertLands(f) \/ AssertHolds(f)
    BY <2>5 DEF Assemble, AssertSend, AssertLands, AssertHolds
  <2>6. CASE AssertLoses(f) \/ AssertThrows(f) \/ Note(f) \/ WriteDone(f)
             \/ WriteRefused(f) \/ WriteErrors(f) \/ Commit(f) \/ CommitFails(f)
    BY <2>6 DEF AssertLoses, AssertThrows, Note, WriteDone, WriteRefused,
        WriteErrors, Commit, CommitFails
  <2>7. CASE Clean(f) \/ Fail(f) \/ FailThrows(f) \/ FailUnanswered(f) \/ BeatSend(f)
             \/ BeatLands(f) \/ BeatAnswered(f) \/ LandsLate(f) \/ Crash(f)
    BY <2>7 DEF Clean, Fail, FailThrows, FailUnanswered, BeatSend, BeatLands,
        BeatAnswered, LandsLate, Crash
  <2> QED BY <1>2, <2>1, <2>2, <2>3, <2>4, <2>5, <2>6, <2>7
          DEF FinStep, BeatStep
<1>3. CASE Cancel \/ CancelCleans \/ Recover \/ Expire \/ Tick
  BY <1>3 DEF Cancel, CancelCleans, Recover, Expire, Tick
<1>4. CASE UNCHANGED vars
  BY <1>4 DEF vars
<1> QED BY <1>1, <1>2, <1>3, <1>4 DEF Next

\* No settled session is opened again while somebody is about to clean up.
LEMMA RemovalStep == ASSUME IInv, TypeOK', [Next]_vars PROVE RemovalIsSettled'
<1> USE ConstantsAssumption
<1> USE DEF IInv, TypeOK, appendVars, writeVars, RemovalIsSettled, Open,
            AcceptsChunks, Holder, FailFenced, FailedRow, ClaimedRow,
            LockKeepsOpen, Renewed, Row, CanCommit, Over, Fin, NeedsReview
<1>1. ASSUME NEW a \in Appends, AppendStep(a) PROVE RemovalIsSettled'
  <2>1. CASE AppendStage(a) \/ AppendLock(a) \/ AppendRefused(a) \/ AppendRename(a)
             \/ AppendCommit(a) \/ AppendFails(a) \/ AppendTransactionLost(a)
    BY <2>1 DEF AppendStage, AppendLock, AppendRefused, AppendRename,
        AppendCommit, AppendFails, AppendTransactionLost
  <2> QED BY <1>1, <2>1 DEF AppendStep
<1>2. ASSUME NEW f \in Finalizers,
             Start(f) \/ FinStep(f) \/ BeatSend(f) \/ BeatStep(f) \/ LandsLate(f) \/ Crash(f)
      PROVE  RemovalIsSettled'
  <2>1. CASE Start(f)
    BY <2>1 DEF Start
  <2>2. CASE Begin(f)
    BY <2>2 DEF Begin
  <2>3. CASE BeginFails(f) \/ BeginUnanswered(f)
    BY <2>3 DEF BeginFails, BeginUnanswered
  <2>4. CASE Assemble(f)
    BY <2>4 DEF Assemble
  <2>5. CASE AssertSend(f)
    <3>1. CASE UNCHANGED fin  BY <2>5, <3>1 DEF AssertSend
    <3>2. CASE fin' = [fin EXCEPT ![f] = [@ EXCEPT !.lost = TRUE, !.pc = "failing"]]
      BY <2>5, <3>2 DEF AssertSend
    <3> QED BY <2>5, <3>1, <3>2 DEF AssertSend
  <2>6. CASE AssertLands(f)
    BY <2>6 DEF AssertLands
  <2>7. CASE AssertHolds(f)
    BY <2>7 DEF AssertHolds
  <2>8. CASE AssertLoses(f)
    BY <2>8 DEF AssertLoses
  <2>9. CASE AssertThrows(f)
    BY <2>9 DEF AssertThrows
  <2>10. CASE Note(f)
    <3>1. CASE fin' = [fin EXCEPT ![f].pc = "assert2"]  BY <2>10, <3>1 DEF Note
    <3>2. CASE fin' = [fin EXCEPT ![f] = [@ EXCEPT !.lost = TRUE, !.pc = "failing"]]
      BY <2>10, <3>2 DEF Note
    <3>3. CASE fin' = [fin EXCEPT ![f].pc = "failing"]  BY <2>10, <3>3 DEF Note
    <3> QED BY <2>10, <3>1, <3>2, <3>3 DEF Note
  <2>11. CASE WriteDone(f)
    BY <2>11 DEF WriteDone
  <2>12. CASE WriteRefused(f)
    BY <2>12 DEF WriteRefused
  <2>13. CASE WriteErrors(f)
    BY <2>13 DEF WriteErrors
  <2>14. CASE Commit(f) \/ CommitFails(f)
    BY <2>14 DEF Commit, CommitFails
  <2>15. CASE Clean(f)
    BY <2>15 DEF Clean
  <2>16. CASE Fail(f)
    BY <2>16 DEF Fail
  <2>17. CASE FailThrows(f) \/ FailUnanswered(f)
    <3>1. CASE FailThrows(f)  BY <3>1 DEF FailThrows
    <3>2. CASE FailUnanswered(f)  BY <3>2 DEF FailUnanswered
    <3> QED BY <2>17, <3>1, <3>2
  <2>18. CASE BeatSend(f) \/ BeatLands(f) \/ BeatAnswered(f)
              \/ LandsLate(f) \/ Crash(f)
    BY <2>18 DEF BeatSend, BeatLands, BeatAnswered, LandsLate, Crash
  <2> QED BY <1>2, <2>1, <2>2, <2>3, <2>4, <2>5, <2>6, <2>7, <2>8, <2>9, <2>10,
             <2>11, <2>12, <2>13, <2>14, <2>15, <2>16, <2>17, <2>18
          DEF FinStep, BeatStep
<1>3. CASE Cancel \/ CancelCleans \/ Recover \/ Expire \/ Tick
  BY <1>3 DEF Cancel, CancelCleans, Recover, Expire, Tick
<1>4. CASE UNCHANGED vars
  BY <1>4 DEF vars
<1> QED BY <1>1, <1>2, <1>3, <1>4 DEF Next

\* A session that has an owner keeps it, and a settled one stays as it is.
LEMMA RowStep == ASSUME IInv, TypeOK', [Next]_vars PROVE RowSettles
<1> USE ConstantsAssumption
<1> USE DEF IInv, TypeOK, appendVars, writeVars, RowSettles, Owned, Open, Settled,
            AcceptsChunks, Holder, FailFenced, FailedRow, ClaimedRow,
            LockKeepsOpen, Renewed, Row, CanCommit
<1>1. ASSUME NEW a \in Appends, AppendStep(a) PROVE RowSettles
  <2>1. CASE AppendStage(a) \/ AppendLock(a) \/ AppendRefused(a) \/ AppendRename(a)
             \/ AppendCommit(a) \/ AppendFails(a) \/ AppendTransactionLost(a)
    BY <2>1 DEF AppendStage, AppendLock, AppendRefused, AppendRename,
        AppendCommit, AppendFails, AppendTransactionLost
  <2> QED BY <1>1, <2>1 DEF AppendStep
<1>2. ASSUME NEW f \in Finalizers,
             Start(f) \/ FinStep(f) \/ BeatSend(f) \/ BeatStep(f) \/ LandsLate(f) \/ Crash(f)
      PROVE  RowSettles
  <2>1. CASE Start(f) \/ Begin(f) \/ BeginFails(f) \/ BeginUnanswered(f)
             \/ Assemble(f) \/ AssertSend(f) \/ AssertLands(f) \/ AssertHolds(f)
    BY <2>1 DEF Start, Begin, BeginFails, BeginUnanswered, Assemble, AssertSend,
        AssertLands, AssertHolds
  <2>2. CASE AssertLoses(f) \/ AssertThrows(f) \/ Note(f) \/ WriteDone(f)
             \/ WriteRefused(f) \/ WriteErrors(f) \/ Commit(f) \/ CommitFails(f)
    BY <2>2 DEF AssertLoses, AssertThrows, Note, WriteDone, WriteRefused,
        WriteErrors, Commit, CommitFails
  <2>3. CASE Clean(f)
    BY <2>3 DEF Clean
  <2>4. CASE Fail(f)
    BY <2>4 DEF Fail
  <2>5. CASE FailThrows(f)
    BY <2>5 DEF FailThrows
  <2>6. CASE FailUnanswered(f)
    BY <2>6 DEF FailUnanswered
  <2>7. CASE BeatSend(f) \/ BeatLands(f) \/ BeatAnswered(f)
             \/ LandsLate(f) \/ Crash(f)
    BY <2>7 DEF BeatSend, BeatLands, BeatAnswered, LandsLate, Crash
  <2> QED BY <1>2, <2>1, <2>2, <2>3, <2>4, <2>5, <2>6, <2>7
          DEF FinStep, BeatStep
<1>3. CASE Cancel \/ CancelCleans
  BY <1>3 DEF Cancel, CancelCleans
<1>4. CASE Recover
  BY <1>4 DEF Recover
<1>5. CASE Expire
  BY <1>5 DEF Expire
<1>6. CASE Tick
  BY <1>6 DEF Tick
<1>7. CASE UNCHANGED vars
  BY <1>7 DEF vars
<1> QED BY <1>1, <1>2, <1>3, <1>4, <1>5, <1>6, <1>7 DEF Next

\* A request answers once, and success after the clean-up only, which follows
\* its own commit.
LEMMA AnsweredStep == ASSUME IInv, [Next]_vars PROVE Answered
<1>0. /\ fin \in [Finalizers -> Fin]
      /\ \A g \in Finalizers : fin[g].pc \notin {"done", "dead"} => fin[g].answer = "none"
  BY DEF IInv, TypeOK, WriteIsKnown, Stopped
<1>1. CASE UNCHANGED fin
  BY <1>1 DEF Answered
<1>2. ASSUME NEW f \in Finalizers,
             Start(f) \/ FinStep(f) \/ BeatSend(f) \/ BeatStep(f) \/ LandsLate(f) \/ Crash(f)
      PROVE  Answered
  <2>1. CASE Start(f)
    BY <1>0, <2>1 DEF Start, Answered, Over, Fin
  <2>2. CASE Begin(f)
    BY <1>0, <2>2 DEF Begin, Answered, Over, Fin
  <2>3. CASE BeginFails(f)
    BY <1>0, <2>3 DEF BeginFails, Answered, Over, Fin
  <2>4. CASE BeginUnanswered(f)
    BY <1>0, <2>4 DEF BeginUnanswered, Answered, Over, Fin
  <2>5. CASE Assemble(f)
    BY <1>0, <2>5 DEF Assemble, Answered, Over, Fin
  <2>6. CASE AssertSend(f)
    BY <1>0, <2>6 DEF AssertSend, Answered, Over, Fin
  <2>7. CASE AssertHolds(f)
    BY <1>0, <2>7 DEF AssertHolds, Answered, Over, Fin
  <2>8. CASE AssertLoses(f)
    BY <1>0, <2>8 DEF AssertLoses, Answered, Over, Fin
  <2>9. CASE AssertThrows(f)
    BY <1>0, <2>9 DEF AssertThrows, Answered, Over, Fin
  <2>10. CASE Note(f)
    BY <1>0, <2>10 DEF Note, Answered, Over, Fin
  <2>11. CASE WriteDone(f)
    BY <1>0, <2>11 DEF WriteDone, Answered, Over, Fin
  <2>12. CASE WriteRefused(f)
    BY <1>0, <2>12 DEF WriteRefused, Answered, Over, Fin
  <2>13. CASE WriteErrors(f)
    BY <1>0, <2>13 DEF WriteErrors, Answered, Over, Fin
  <2>14. CASE Commit(f)
    BY <1>0, <2>14 DEF Commit, Answered, Over, Fin, CanCommit
  <2>15. CASE CommitFails(f)
    BY <1>0, <2>15 DEF CommitFails, Answered, Over, Fin
  <2>16. CASE Clean(f)
    BY <1>0, <2>16 DEF Clean, Answered, Over, Fin
  <2>17. CASE Fail(f)
    BY <1>0, <2>17 DEF Fail, Answered, Over, Fin
  <2>18. CASE FailThrows(f)
    BY <1>0, <2>18 DEF FailThrows, Answered, Over, Fin
  <2>19. CASE FailUnanswered(f)
    BY <1>0, <2>19 DEF FailUnanswered, Answered, Over, Fin
  <2>20. CASE BeatSend(f)
    BY <1>0, <2>20 DEF BeatSend, Answered, Over, Fin, Stopped
  <2>21. CASE BeatAnswered(f)
    BY <1>0, <2>21 DEF BeatAnswered, Answered, Over, Fin, Stopped
  <2>22. CASE Crash(f)
    BY <1>0, <2>22 DEF Crash, Answered, Over, Fin
  <2>23. CASE AssertLands(f) \/ BeatLands(f) \/ LandsLate(f)
    BY <1>1, <2>23, Zenon DEF AssertLands, BeatLands, LandsLate
  <2> QED BY <1>2, <2>1, <2>2, <2>3, <2>4, <2>5, <2>6, <2>7, <2>8, <2>9,
             <2>10, <2>11, <2>12, <2>13, <2>14, <2>15, <2>16, <2>17, <2>18,
             <2>19, <2>20, <2>21, <2>22, <2>23 DEF FinStep, BeatStep
<1>3. CASE Tick
  BY <1>0, <1>3 DEF Tick, Answered, Fin
<1>4. CASE (\E a \in Appends : AppendStep(a)) \/ Cancel \/ CancelCleans \/ Recover \/ Expire
            \/ UNCHANGED vars
  <2>1. UNCHANGED fin
    BY <1>4, Zenon DEF AppendStep, AppendStage, AppendLock, AppendRefused, AppendRename,
        AppendCommit, AppendFails, AppendTransactionLost, Cancel, CancelCleans, Recover,
        Expire, vars
  <2> QED BY <1>1, <2>1
<1> QED BY <1>2, <1>3, <1>4, Zenon DEF Next

\* Whoever cleans up after a success has the session, which keeps its owner.
LEMMA CleanStep == ASSUME IInv, TypeOK', [Next]_vars PROVE CleanIsOwn'
<1>1. RowSettles /\ Answered
  BY RowStep, AnsweredStep
<1> SUFFICES ASSUME NEW f \in Finalizers, fin'[f].pc = "clean"
             PROVE  row'.token = f
  BY DEF CleanIsOwn
<1>2. (fin[f].pc = "clean" /\ row.status = "COMPLETED" /\ row.token = f) \/ Holder(f)
  BY <1>1 DEF Answered, IInv, CleanIsOwn, RemovalIsSettled
<1> QED BY <1>1, <1>2 DEF RowSettles, Holder, Owned

\* With the second assertion the write starts, and the finalizer knows it.
LEMMA WriteStarts ==
    ASSUME TypeOK, NEW f \in Finalizers, AssertHolds(f), fin[f].pc = "assert2"
    PROVE  fin'[f].pc = "writing" /\ fin'[f].writing /\ fin'[f].answer = fin[f].answer
<1>1. fin[f] \in Fin /\ f \in DOMAIN fin
  BY DEF TypeOK
<1>2. /\ fin'[f].pc = CASE fin[f].pc = "assert1" -> "note"
                       [] fin[f].pc = "assert2" -> "writing"
                       [] fin[f].pc = "assert3" -> "commit"
      /\ fin'[f].writing = (fin[f].pc # "assert1")
      /\ fin'[f].answer = fin[f].answer
  BY <1>1 DEF AssertHolds, Fin
<1> QED BY <1>2

\* What a finalizer knows of its write follows the write.
LEMMA WriteStep == ASSUME IInv, TypeOK', [Next]_vars PROVE WriteIsKnown'
<1> USE ConstantsAssumption
<1> USE DEF IInv, TypeOK, appendVars, writeVars, NeedsReview, WriteIsKnown,
            BeforeWrite, Stopped, Over, Fin
<1>1. ASSUME NEW a \in Appends, AppendStep(a) PROVE WriteIsKnown'
  <2>1. CASE AppendStage(a) \/ AppendLock(a) \/ AppendRefused(a) \/ AppendRename(a)
             \/ AppendCommit(a) \/ AppendFails(a) \/ AppendTransactionLost(a)
    BY <2>1 DEF AppendStage, AppendLock, AppendRefused, AppendRename,
        AppendCommit, AppendFails, AppendTransactionLost
  <2> QED BY <1>1, <2>1 DEF AppendStep
<1>2. ASSUME NEW f \in Finalizers,
             Start(f) \/ FinStep(f) \/ BeatSend(f) \/ BeatStep(f) \/ LandsLate(f) \/ Crash(f)
      PROVE  WriteIsKnown'
  <2>1. CASE Start(f)
    BY <2>1 DEF Start
  <2>2. CASE Begin(f)
    BY <2>2 DEF Begin
  <2>3. CASE BeginFails(f) \/ BeginUnanswered(f)
    BY <2>3 DEF BeginFails, BeginUnanswered
  <2>4. CASE Assemble(f)
    BY <2>4 DEF Assemble
  <2>5. CASE AssertSend(f)
    <3>1. CASE UNCHANGED fin  BY <2>5, <3>1 DEF AssertSend
    <3>2. CASE fin' = [fin EXCEPT ![f] = [@ EXCEPT !.lost = TRUE, !.pc = "failing"]]
      BY <2>5, <3>2 DEF AssertSend
    <3> QED BY <2>5, <3>1, <3>2 DEF AssertSend
  <2>6. CASE AssertLands(f)
    <3>1. UNCHANGED <<fin, wrote, inflight, landed>>
      BY <2>6 DEF AssertLands
    <3> QED BY <3>1
  <2>7. CASE AssertHolds(f)
    <3>1. CASE fin[f].pc = "assert1"  BY <2>7, <3>1 DEF AssertHolds
    <3>2. CASE fin[f].pc = "assert2"
      <4>1. fin'[f].pc = "writing" /\ fin'[f].writing /\ fin'[f].answer = fin[f].answer
        BY <2>7, <3>2, WriteStarts
      <4>2. \A g \in Finalizers \ {f} : fin'[g] = fin[g]
        BY <2>7 DEF AssertHolds
      <4>3. wrote' = wrote \cup {f} /\ UNCHANGED <<inflight, landed>>
        BY <2>7, <3>2 DEF AssertHolds
      <4> QED BY <3>2, <4>1, <4>2, <4>3
    <3>3. CASE fin[f].pc = "assert3"  BY <2>7, <3>3 DEF AssertHolds
    <3> QED BY <2>7, <3>1, <3>2, <3>3 DEF AssertHolds
  <2>8. CASE AssertLoses(f)
    BY <2>8 DEF AssertLoses
  <2>9. CASE AssertThrows(f)
    BY <2>9 DEF AssertThrows
  <2>10. CASE Note(f)
    <3>1. CASE fin' = [fin EXCEPT ![f].pc = "assert2"]  BY <2>10, <3>1 DEF Note
    <3>2. CASE fin' = [fin EXCEPT ![f] = [@ EXCEPT !.lost = TRUE, !.pc = "failing"]]
      BY <2>10, <3>2 DEF Note
    <3>3. CASE fin' = [fin EXCEPT ![f].pc = "failing"]  BY <2>10, <3>3 DEF Note
    <3> QED BY <2>10, <3>1, <3>2, <3>3 DEF Note
  <2>11. CASE WriteDone(f)
    BY <2>11 DEF WriteDone
  <2>12. CASE WriteRefused(f)
    BY <2>12 DEF WriteRefused
  <2>13. CASE WriteErrors(f)
    BY <2>13 DEF WriteErrors
  <2>14. CASE Commit(f) \/ CommitFails(f)
    BY <2>14 DEF Commit, CommitFails
  <2>15. CASE Clean(f) \/ Fail(f) \/ FailThrows(f) \/ FailUnanswered(f) \/ BeatSend(f)
              \/ BeatLands(f) \/ BeatAnswered(f) \/ LandsLate(f) \/ Crash(f)
    BY <2>15 DEF Clean, Fail, FailThrows, FailUnanswered, BeatSend, BeatLands,
        BeatAnswered, LandsLate, Crash
  <2> QED BY <1>2, <2>1, <2>2, <2>3, <2>4, <2>5, <2>6, <2>7, <2>8, <2>9, <2>10,
             <2>11, <2>12, <2>13, <2>14, <2>15
          DEF FinStep, BeatStep
<1>3. CASE Cancel \/ CancelCleans \/ Recover \/ Expire \/ Tick
  BY <1>3 DEF Cancel, CancelCleans, Recover, Expire, Tick
<1>4. CASE UNCHANGED vars
  BY <1>4 DEF vars
<1> QED BY <1>1, <1>2, <1>3, <1>4 DEF Next

\* Only its own owner fails a session plainly, and then stops.
LEMMA PlainStep == ASSUME IInv, TypeOK', [Next]_vars PROVE PlainIsOver'
<1> USE ConstantsAssumption
<1> USE DEF IInv, TypeOK, appendVars, writeVars, PlainIsOver, OwnerStays, Owned,
            Open, AcceptsChunks, Holder, FailFenced, FailedRow, ClaimedRow,
            LockKeepsOpen, Renewed, Row, CanCommit, Over, Fin, NeedsReview,
            RemovalIsSettled
<1>1. ASSUME NEW a \in Appends, AppendStep(a) PROVE PlainIsOver'
  <2>1. CASE AppendStage(a) \/ AppendLock(a) \/ AppendRefused(a)
    BY <2>1 DEF AppendStage, AppendLock, AppendRefused
  <2>2. CASE AppendRename(a)
    BY <2>2 DEF AppendRename
  <2>3. CASE AppendCommit(a)
    BY <2>3 DEF AppendCommit
  <2>4. CASE AppendFails(a) \/ AppendTransactionLost(a)
    BY <2>4 DEF AppendFails, AppendTransactionLost
  <2> QED BY <1>1, <2>1, <2>2, <2>3, <2>4 DEF AppendStep
<1>2. ASSUME NEW f \in Finalizers,
             Start(f) \/ FinStep(f) \/ BeatSend(f) \/ BeatStep(f) \/ LandsLate(f) \/ Crash(f)
      PROVE  PlainIsOver'
  <2>1. CASE Start(f)
    BY <2>1 DEF Start
  <2>2. CASE Begin(f)
    BY <2>2 DEF Begin
  <2>3. CASE BeginFails(f)
    BY <2>3 DEF BeginFails
  <2>4. CASE BeginUnanswered(f)
    BY <2>4 DEF BeginUnanswered
  <2>5. CASE Assemble(f) \/ AssertSend(f) \/ AssertLands(f) \/ AssertHolds(f)
    BY <2>5 DEF Assemble, AssertSend, AssertLands, AssertHolds
  <2>6. CASE AssertLoses(f) \/ AssertThrows(f) \/ Note(f) \/ WriteDone(f)
             \/ WriteRefused(f) \/ WriteErrors(f) \/ Commit(f) \/ CommitFails(f)
    BY <2>6 DEF AssertLoses, AssertThrows, Note, WriteDone, WriteRefused,
        WriteErrors, Commit, CommitFails
  <2>7. CASE Clean(f)
    BY <2>7 DEF Clean
  <2>8. CASE Fail(f)
    BY <2>8 DEF Fail
  <2>9. CASE FailThrows(f)
    BY <2>9 DEF FailThrows
  <2>10. CASE FailUnanswered(f)
    BY <2>10 DEF FailUnanswered
  <2>11. CASE BeatSend(f) \/ BeatLands(f) \/ BeatAnswered(f)
              \/ LandsLate(f) \/ Crash(f)
    BY <2>11 DEF BeatSend, BeatLands, BeatAnswered, LandsLate, Crash
  <2> QED BY <1>2, <2>1, <2>2, <2>3, <2>4, <2>5, <2>6, <2>7, <2>8, <2>9, <2>10,
             <2>11
          DEF FinStep, BeatStep
<1>3. CASE Cancel \/ CancelCleans
  BY <1>3 DEF Cancel, CancelCleans
<1>4. CASE Recover
  BY <1>4 DEF Recover
<1>5. CASE Expire
  BY <1>5 DEF Expire
<1>6. CASE Tick
  BY <1>6 DEF Tick
<1>7. CASE UNCHANGED vars
  BY <1>7 DEF vars
<1> QED BY <1>1, <1>2, <1>3, <1>4, <1>5, <1>6, <1>7 DEF Next

\* The lease and the age of the call that renewed it run at the same pace.
LEMMA HitStep == ASSUME IInv, TypeOK', [Next]_vars PROVE HitIsLease'
<1> USE ConstantsAssumption
<1> USE DEF IInv, TypeOK, appendVars, writeVars, HitOf, LockKeepsOpen, HitIsLease,
            Asserting, Holder, Renewed, Renews, Land, Sent, NoCall, Call, Row,
            Fin, Over, Older, Down, AcceptsChunks, Open, FailFenced, FailedRow,
            ClaimedRow, CanCommit, InTime
<1>1. ASSUME NEW a \in Appends, AppendStep(a) PROVE HitIsLease'
  <2>1. CASE AppendStage(a) \/ AppendLock(a) \/ AppendRefused(a) \/ AppendRename(a)
             \/ AppendCommit(a) \/ AppendFails(a) \/ AppendTransactionLost(a)
    BY <2>1 DEF AppendStage, AppendLock, AppendRefused, AppendRename,
        AppendCommit, AppendFails, AppendTransactionLost
  <2> QED BY <1>1, <2>1 DEF AppendStep
<1>2. ASSUME NEW f \in Finalizers,
             Start(f) \/ FinStep(f) \/ BeatSend(f) \/ BeatStep(f) \/ LandsLate(f) \/ Crash(f)
      PROVE  HitIsLease'
  <2>1. CASE Start(f)
    BY <2>1 DEF Start
  <2>2. CASE Begin(f)
    BY <2>2 DEF Begin
  <2>3. CASE BeginFails(f)
    BY <2>3 DEF BeginFails
  <2>4. CASE BeginUnanswered(f)
    BY <2>4 DEF BeginUnanswered
  <2>5. CASE Assemble(f)
    <3>1. CASE fin' = [fin EXCEPT ![f].pc = "assert1"]  BY <2>5, <3>1 DEF Assemble
    <3>2. CASE fin' = [fin EXCEPT ![f].pc = "failing"]  BY <2>5, <3>2 DEF Assemble
    <3> QED BY <2>5, <3>1, <3>2 DEF Assemble
  <2>6. CASE AssertSend(f)
    <3>1. CASE UNCHANGED fin  BY <2>6, <3>1 DEF AssertSend
    <3>2. CASE fin' = [fin EXCEPT ![f] = [@ EXCEPT !.lost = TRUE, !.pc = "failing"]]
      <4>1. fin'[f].pc = "failing" /\ \A g \in Finalizers \ {f} : fin'[g] = fin[g]
        BY <3>2
      <4>2. row' = row /\ main' = main /\ main[f].at = "none"
        BY <2>6, <3>2 DEF AssertSend
      <4> QED BY <4>1, <4>2
    <3> QED BY <2>6, <3>1, <3>2 DEF AssertSend
  <2>7. CASE AssertLands(f)
    BY <2>7 DEF AssertLands
  <2>8. CASE AssertHolds(f)
    BY <2>8 DEF AssertHolds
  <2>9. CASE AssertLoses(f) \/ AssertThrows(f) \/ Note(f) \/ WriteDone(f)
             \/ WriteRefused(f) \/ WriteErrors(f) \/ Commit(f) \/ CommitFails(f)
    BY <2>9 DEF AssertLoses, AssertThrows, Note, WriteDone, WriteRefused,
        WriteErrors, Commit, CommitFails
  <2>10. CASE Clean(f) \/ Fail(f) \/ FailThrows(f) \/ FailUnanswered(f) \/ BeatSend(f)
              \/ BeatLands(f) \/ BeatAnswered(f) \/ LandsLate(f) \/ Crash(f)
    BY <2>10 DEF Clean, Fail, FailThrows, FailUnanswered, BeatSend, BeatLands,
        BeatAnswered, LandsLate, Crash
  <2> QED BY <1>2, <2>1, <2>2, <2>3, <2>4, <2>5, <2>6, <2>7, <2>8, <2>9, <2>10
          DEF FinStep, BeatStep
<1>3. CASE Cancel \/ CancelCleans \/ Recover \/ Expire
  <2>1. CASE Cancel  BY <2>1 DEF Cancel
  <2>2. CASE CancelCleans  BY <2>2 DEF CancelCleans
  <2>3. CASE Recover  BY <2>3 DEF Recover
  <2>4. CASE Expire  BY <2>4 DEF Expire
  <2> QED BY <1>3, <2>1, <2>2, <2>3, <2>4
<1>4. CASE Tick
  <2>0. SUFFICES ASSUME NEW f \in Finalizers PROVE HitOf(f)'
    OBVIOUS
  <2>1. main[f] \in Call /\ main'[f] = Older(main[f])
    BY <1>4 DEF Tick
  <2>2. main'[f].at = main[f].at
    BY <2>1
  <2>3. main'[f].at # "none" /\ main'[f].lag < LeaseLen => main'[f].lag = main[f].lag + 1
    BY <2>1
  <2>4. fin'[f].pc = fin[f].pc
    BY <1>4 DEF Tick
  <2>5. Holder(f)' <=> Holder(f)
    BY <1>4 DEF Tick
  <2>6. Holder(f) /\ row.lease > 0 => row'.lease = row.lease - 1
    BY <1>4 DEF Tick
  <2>7. row.lease \in Nat /\ main[f].lag \in Nat /\ LeaseLen \in Nat
    OBVIOUS
  <2>8. HitOf(f)
    OBVIOUS
  <2> QED BY <2>2, <2>3, <2>4, <2>5, <2>6, <2>7, <2>8
<1>5. CASE UNCHANGED vars
  BY <1>5 DEF vars
<1> QED BY <1>1, <1>2, <1>3, <1>4, <1>5 DEF Next

\* Only a finalizer that has seen its write done completes the session.
LEMMA CompletedStep == ASSUME IInv, TypeOK', [Next]_vars PROVE CompletedMeansLanded'
<1> USE ConstantsAssumption
<1> USE DEF IInv, TypeOK, appendVars, writeVars, CompletedMeansLanded, Holder,
            Open, WriteIsKnown, FailFenced, FailedRow, ClaimedRow, AcceptsChunks,
            LockKeepsOpen, Renewed, Row, CanCommit
<1>1. ASSUME NEW a \in Appends, AppendStep(a) PROVE CompletedMeansLanded'
  <2>1. CASE AppendStage(a) \/ AppendLock(a) \/ AppendRefused(a)
    BY <2>1 DEF AppendStage, AppendLock, AppendRefused
  <2>2. CASE AppendRename(a)
    BY <2>2 DEF AppendRename
  <2>3. CASE AppendCommit(a)
    BY <2>3 DEF AppendCommit
  <2>4. CASE AppendFails(a) \/ AppendTransactionLost(a)
    BY <2>4 DEF AppendFails, AppendTransactionLost
  <2> QED BY <1>1, <2>1, <2>2, <2>3, <2>4 DEF AppendStep
<1>2. ASSUME NEW f \in Finalizers,
             Start(f) \/ FinStep(f) \/ BeatSend(f) \/ BeatStep(f) \/ LandsLate(f) \/ Crash(f)
      PROVE  CompletedMeansLanded'
  <2>1. CASE Start(f)
    BY <2>1 DEF Start
  <2>2. CASE Begin(f)
    BY <2>2 DEF Begin
  <2>3. CASE BeginFails(f)
    BY <2>3 DEF BeginFails
  <2>4. CASE BeginUnanswered(f)
    BY <2>4 DEF BeginUnanswered
  <2>5. CASE Assemble(f) \/ AssertSend(f) \/ AssertLands(f) \/ AssertHolds(f)
    BY <2>5 DEF Assemble, AssertSend, AssertLands, AssertHolds
  <2>6. CASE AssertLoses(f) \/ AssertThrows(f) \/ Note(f) \/ WriteDone(f)
             \/ WriteRefused(f) \/ WriteErrors(f) \/ Commit(f) \/ CommitFails(f)
    BY <2>6 DEF AssertLoses, AssertThrows, Note, WriteDone, WriteRefused,
        WriteErrors, Commit, CommitFails
  <2>7. CASE Clean(f)
    BY <2>7 DEF Clean
  <2>8. CASE Fail(f)
    BY <2>8 DEF Fail
  <2>9. CASE FailThrows(f)
    BY <2>9 DEF FailThrows
  <2>10. CASE FailUnanswered(f)
    BY <2>10 DEF FailUnanswered
  <2>11. CASE BeatSend(f) \/ BeatLands(f) \/ BeatAnswered(f)
              \/ LandsLate(f) \/ Crash(f)
    BY <2>11 DEF BeatSend, BeatLands, BeatAnswered, LandsLate, Crash
  <2> QED BY <1>2, <2>1, <2>2, <2>3, <2>4, <2>5, <2>6, <2>7, <2>8, <2>9, <2>10,
             <2>11
          DEF FinStep, BeatStep
<1>3. CASE Cancel \/ CancelCleans
  BY <1>3 DEF Cancel, CancelCleans
<1>4. CASE Recover
  BY <1>4 DEF Recover
<1>5. CASE Expire
  BY <1>5 DEF Expire
<1>6. CASE Tick
  BY <1>6 DEF Tick
<1>7. CASE UNCHANGED vars
  BY <1>7 DEF vars
<1> QED BY <1>1, <1>2, <1>3, <1>4, <1>5, <1>6, <1>7 DEF Next

\* A plain failure is recorded or answered only by a finalizer without a write.
LEMMA UntouchedStep == ASSUME IInv, TypeOK', [Next]_vars PROVE PlainMeansUntouched'
<1> USE ConstantsAssumption
<1> USE DEF IInv, TypeOK, appendVars, writeVars, PlainMeansUntouched,
            WriteIsKnown, PlainIsOver, Holder, Open, FailFenced, FailedRow,
            ClaimedRow, AcceptsChunks, LockKeepsOpen, Renewed, Row, CanCommit,
            NeedsReview, Stopped, Fin, Over, OwnerStays, Owned, BeforeWrite
<1>1. ASSUME NEW a \in Appends, AppendStep(a) PROVE PlainMeansUntouched'
  <2>1. CASE AppendStage(a) \/ AppendLock(a) \/ AppendRefused(a)
    BY <2>1 DEF AppendStage, AppendLock, AppendRefused
  <2>2. CASE AppendRename(a)
    BY <2>2 DEF AppendRename
  <2>3. CASE AppendCommit(a)
    BY <2>3 DEF AppendCommit
  <2>4. CASE AppendFails(a) \/ AppendTransactionLost(a)
    BY <2>4 DEF AppendFails, AppendTransactionLost
  <2> QED BY <1>1, <2>1, <2>2, <2>3, <2>4 DEF AppendStep
<1>2. ASSUME NEW f \in Finalizers,
             Start(f) \/ FinStep(f) \/ BeatSend(f) \/ BeatStep(f) \/ LandsLate(f) \/ Crash(f)
      PROVE  PlainMeansUntouched'
  <2>1. CASE Start(f)
    BY <2>1 DEF Start
  <2>2. CASE Begin(f)
    BY <2>2 DEF Begin
  <2>3. CASE BeginFails(f)
    BY <2>3 DEF BeginFails
  <2>4. CASE BeginUnanswered(f)
    BY <2>4 DEF BeginUnanswered
  <2>5. CASE Assemble(f)
    <3>1. CASE fin' = [fin EXCEPT ![f].pc = "assert1"]  BY <2>5, <3>1 DEF Assemble
    <3>2. CASE fin' = [fin EXCEPT ![f].pc = "failing"]  BY <2>5, <3>2 DEF Assemble
    <3> QED BY <2>5, <3>1, <3>2 DEF Assemble
  <2>6. CASE AssertSend(f)
    <3>1. CASE UNCHANGED fin  BY <2>6, <3>1 DEF AssertSend
    <3>2. CASE fin' = [fin EXCEPT ![f] = [@ EXCEPT !.lost = TRUE, !.pc = "failing"]]
      BY <2>6, <3>2 DEF AssertSend
    <3> QED BY <2>6, <3>1, <3>2 DEF AssertSend
  <2>7. CASE AssertLands(f)
    BY <2>7 DEF AssertLands
  <2>8. CASE AssertHolds(f)
    BY <2>8 DEF AssertHolds
  <2>9. CASE AssertLoses(f)
    BY <2>9 DEF AssertLoses
  <2>10. CASE AssertThrows(f)
    BY <2>10 DEF AssertThrows
  <2>11. CASE Note(f) \/ WriteDone(f)
    <3>1. CASE Note(f)
      <4>1. CASE fin' = [fin EXCEPT ![f].pc = "assert2"]  BY <3>1, <4>1 DEF Note
      <4>2. CASE fin' = [fin EXCEPT ![f] = [@ EXCEPT !.lost = TRUE, !.pc = "failing"]]
        BY <3>1, <4>2 DEF Note
      <4>3. CASE fin' = [fin EXCEPT ![f].pc = "failing"]  BY <3>1, <4>3 DEF Note
      <4> QED BY <3>1, <4>1, <4>2, <4>3 DEF Note
    <3>2. CASE WriteDone(f)  BY <3>2 DEF WriteDone
    <3> QED BY <2>11, <3>1, <3>2
  <2>12. CASE WriteRefused(f) \/ WriteErrors(f)
    <3>1. CASE WriteRefused(f)  BY <3>1 DEF WriteRefused
    <3>2. CASE WriteErrors(f)  BY <3>2 DEF WriteErrors
    <3> QED BY <2>12, <3>1, <3>2
  <2>13. CASE Commit(f)
    BY <2>13 DEF Commit
  <2>14. CASE CommitFails(f)
    BY <2>14 DEF CommitFails
  <2>15. CASE Clean(f)
    BY <2>15 DEF Clean
  <2>16. CASE Fail(f)
    BY <2>16 DEF Fail
  <2>17. CASE FailThrows(f)
    BY <2>17 DEF FailThrows
  <2>18. CASE FailUnanswered(f)
    BY <2>18 DEF FailUnanswered
  <2>19. CASE BeatSend(f)
    BY <2>19 DEF BeatSend
  <2>20. CASE BeatLands(f)
    BY <2>20 DEF BeatLands
  <2>21. CASE BeatAnswered(f)
    BY <2>21 DEF BeatAnswered
  <2>22. CASE LandsLate(f)
    BY <2>22 DEF LandsLate
  <2>23. CASE Crash(f)
    BY <2>23 DEF Crash
  <2> QED BY <1>2, <2>1, <2>2, <2>3, <2>4, <2>5, <2>6, <2>7, <2>8, <2>9, <2>10,
             <2>11, <2>12, <2>13, <2>14, <2>15, <2>16, <2>17, <2>18, <2>19, <2>20,
             <2>21, <2>22, <2>23
          DEF FinStep, BeatStep
<1>3. CASE Cancel \/ CancelCleans
  BY <1>3 DEF Cancel, CancelCleans
<1>4. CASE Recover
  BY <1>4 DEF Recover
<1>5. CASE Expire
  BY <1>5 DEF Expire
<1>6. CASE Tick
  BY <1>6 DEF Tick
<1>7. CASE UNCHANGED vars
  BY <1>7 DEF vars
<1> QED BY <1>1, <1>2, <1>3, <1>4, <1>5, <1>6, <1>7 DEF Next

-----------------------------------------------------------------------------
\* A fresh session has no owner, no chunk and no finalizer at work.
LEMMA InitIInv == Init => IInv
<1> SUFFICES ASSUME Init PROVE IInv
  OBVIOUS
<1> USE ConstantsAssumption DEF Init
<1>1. TypeOK
  <2>1. row \in Row
    BY DEF Row, Open
  <2>2. fin \in [Finalizers -> Fin]
    BY DEF Fin, FinPcs, Answers
  <2> QED BY <2>1, <2>2, CallType DEF TypeOK, AppendPcs
<1>2. LockKeepsOpen /\ OwnerStays /\ ReceivedIsOnDisk /\ RemovalIsSettled
  BY DEF LockKeepsOpen, OwnerStays, Owned, ReceivedIsOnDisk, RemovalIsSettled
<1>3. ClaimedIsComplete /\ PlainIsOver /\ HitIsLease
  BY DEF ClaimedIsComplete, Owned, Stopped, PlainIsOver, HitIsLease, HitOf, NoCall
<1>4. WriteIsKnown /\ CompletedMeansLanded /\ PlainMeansUntouched
  BY DEF WriteIsKnown, Stopped, CompletedMeansLanded, PlainMeansUntouched
<1>5. CleanIsOwn
  BY DEF CleanIsOwn
<1> QED BY <1>1, <1>2, <1>3, <1>4, <1>5 DEF IInv

\* Every step keeps the invariant.
LEMMA NextIInv == IInv /\ [Next]_vars => IInv'
<1> SUFFICES ASSUME IInv, [Next]_vars PROVE IInv'
  OBVIOUS
<1>1. TypeOK'
  BY TypeStep DEF IInv
<1> QED BY <1>1, LockStep, OwnerStep, ClaimedStep, ReceivedStep, RemovalStep, CleanStep, WriteStep,
           PlainStep, HitStep, CompletedStep, UntouchedStep
        DEF IInv

\* The inductive invariant holds in every reachable state.
THEOREM Inductive == Spec => []IInv
  BY InitIInv, NextIInv, PTL DEF Spec

\* Every variable keeps its type: no step of an append, a finalizer, its
\* heartbeat or a sweep leaves what the code stores.
THEOREM TypeCorrect == Spec => []TypeOK
<1>1. IInv => TypeOK
  BY DEF IInv
<1> QED BY <1>1, Inductive, PTL

\* completeMediaUploadSession settles a session only when the bytes of its
\* finalizer are in the target, whatever answers were lost.
THEOREM CompletionIsTrue == Spec => []CompletedMeansLanded
<1>1. IInv => CompletedMeansLanded
  BY DEF IInv
<1> QED BY <1>1, Inductive, PTL

\* recordFinalizationFailure calls a failure plain, in the row or in the answer,
\* only when no write of the request has landed or will.
THEOREM PlainFailureIsTrue == Spec => []PlainMeansUntouched
<1>1. IInv => PlainMeansUntouched
  BY DEF IInv
<1> QED BY <1>1, Inductive, PTL

\* The chunks survive as long as a finalizer reads them or a review needs them.
THEOREM ChunksAreKept == Spec => []ReviewKeepsChunks
<1>1. IInv => ReviewKeepsChunks
  BY DEF IInv, ReviewKeepsChunks, ClaimedIsComplete, Owned, ReceivedIsOnDisk, InUse
<1> QED BY <1>1, Inductive, PTL

-----------------------------------------------------------------------------
\* The write starts with an assertion that held, in time.
LEMMA LeaseStep == ASSUME IInv, TypeOK', [Next]_vars PROVE LeaseWrites
<1> USE ConstantsAssumption
<1> USE DEF IInv, TypeOK, appendVars, writeVars, LeaseWrites, Holder, HitIsLease,
            HitOf, InTime, Fin, Call
<1>1. ASSUME NEW a \in Appends, AppendStep(a) PROVE LeaseWrites
  <2>1. CASE AppendStage(a) \/ AppendLock(a) \/ AppendRefused(a) \/ AppendRename(a)
             \/ AppendCommit(a) \/ AppendFails(a) \/ AppendTransactionLost(a)
    BY <2>1 DEF AppendStage, AppendLock, AppendRefused, AppendRename,
        AppendCommit, AppendFails, AppendTransactionLost
  <2> QED BY <1>1, <2>1 DEF AppendStep
<1>2. ASSUME NEW f \in Finalizers,
             Start(f) \/ FinStep(f) \/ BeatSend(f) \/ BeatStep(f) \/ LandsLate(f) \/ Crash(f)
      PROVE  LeaseWrites
  <2>1. CASE Start(f) \/ Begin(f) \/ BeginFails(f) \/ BeginUnanswered(f)
    BY <2>1 DEF Start, Begin, BeginFails, BeginUnanswered
  <2>2. CASE Assemble(f) \/ AssertSend(f)
    BY <2>2 DEF Assemble, AssertSend
  <2>3. CASE AssertLands(f)
    BY <2>3 DEF AssertLands
  <2>4. CASE AssertHolds(f)
    <3>1. wrote' \subseteq wrote \cup {f}
      BY <2>4 DEF AssertHolds
    <3>2. HitOf(f) /\ LeaseLen \in Nat /\ main[f].lag \in Nat /\ row.lease \in Nat
      BY DEF Row
    <3>3. Holder(f) /\ row.lease > 0
      BY <2>4, <3>2 DEF AssertHolds
    <3> QED BY <3>1, <3>3
  <2>5. CASE AssertLoses(f) \/ AssertThrows(f) \/ Note(f) \/ WriteDone(f)
             \/ WriteRefused(f) \/ WriteErrors(f) \/ Commit(f) \/ CommitFails(f)
    BY <2>5 DEF AssertLoses, AssertThrows, Note, WriteDone, WriteRefused,
        WriteErrors, Commit, CommitFails
  <2>6. CASE Clean(f) \/ Fail(f) \/ FailThrows(f) \/ FailUnanswered(f) \/ BeatSend(f)
             \/ BeatLands(f) \/ BeatAnswered(f) \/ LandsLate(f) \/ Crash(f)
    BY <2>6 DEF Clean, Fail, FailThrows, FailUnanswered, BeatSend, BeatLands,
        BeatAnswered, LandsLate, Crash
  <2> QED BY <1>2, <2>1, <2>2, <2>3, <2>4, <2>5, <2>6
          DEF FinStep, BeatStep
<1>3. CASE Cancel \/ CancelCleans \/ Recover \/ Expire \/ Tick
  BY <1>3 DEF Cancel, CancelCleans, Recover, Expire, Tick
<1>4. CASE UNCHANGED vars
  BY <1>4 DEF vars
<1> QED BY <1>1, <1>2, <1>3, <1>4 DEF Next

\* Only a rename and a removal change the chunks.
LEMMA FrozenStep == ASSUME IInv, TypeOK', [Next]_vars PROVE Frozen
<1> USE ConstantsAssumption
<1> USE DEF IInv, TypeOK, appendVars, writeVars, Frozen, LockKeepsOpen,
            RemovalIsSettled, RemoveDir, Open, Row
<1>1. ASSUME NEW a \in Appends, AppendStep(a) PROVE Frozen
  <2>1. CASE AppendStage(a) \/ AppendLock(a) \/ AppendRefused(a) \/ AppendRename(a)
             \/ AppendCommit(a) \/ AppendFails(a) \/ AppendTransactionLost(a)
    BY <2>1 DEF AppendStage, AppendLock, AppendRefused, AppendRename,
        AppendCommit, AppendFails, AppendTransactionLost
  <2> QED BY <1>1, <2>1 DEF AppendStep
<1>2. ASSUME NEW f \in Finalizers,
             Start(f) \/ FinStep(f) \/ BeatSend(f) \/ BeatStep(f) \/ LandsLate(f) \/ Crash(f)
      PROVE  Frozen
  <2>1. CASE Start(f) \/ Begin(f) \/ BeginFails(f) \/ BeginUnanswered(f)
             \/ Assemble(f) \/ AssertSend(f) \/ AssertLands(f) \/ AssertHolds(f)
    BY <2>1 DEF Start, Begin, BeginFails, BeginUnanswered, Assemble, AssertSend,
        AssertLands, AssertHolds
  <2>2. CASE AssertLoses(f) \/ AssertThrows(f) \/ Note(f) \/ WriteDone(f)
             \/ WriteRefused(f) \/ WriteErrors(f) \/ Commit(f) \/ CommitFails(f)
    BY <2>2 DEF AssertLoses, AssertThrows, Note, WriteDone, WriteRefused,
        WriteErrors, Commit, CommitFails
  <2>3. CASE Clean(f) \/ Fail(f) \/ FailThrows(f) \/ FailUnanswered(f) \/ BeatSend(f)
             \/ BeatLands(f) \/ BeatAnswered(f) \/ LandsLate(f) \/ Crash(f)
    BY <2>3 DEF Clean, Fail, FailThrows, FailUnanswered, BeatSend, BeatLands,
        BeatAnswered, LandsLate, Crash
  <2> QED BY <1>2, <2>1, <2>2, <2>3
          DEF FinStep, BeatStep
<1>3. CASE Cancel \/ CancelCleans \/ Recover \/ Expire \/ Tick
  BY <1>3 DEF Cancel, CancelCleans, Recover, Expire, Tick
<1>4. CASE UNCHANGED vars
  BY <1>4 DEF vars
<1> QED BY <1>1, <1>2, <1>3, <1>4 DEF Next

\* Once the owner may have written the target, the session has no other owner
\* and takes no chunks: beginUploadFinalization claims an open session only.
THEOREM OneWriter == Spec => NoSecondWriter
<1>1. ASSUME IInv, IInv', [Next]_vars
      PROVE  [row.token \in wrote => row'.token = row.token /\ row'.status \notin Open]_vars
  <2>1. row.token \in wrote => row.status \in Owned
    BY <1>1, ConstantsAssumption DEF IInv, OwnerStays, TypeOK
  <2>2. RowSettles
    BY <1>1, RowStep DEF IInv
  <2> QED BY <2>1, <2>2 DEF RowSettles, Owned, Open
<1> QED BY <1>1, Inductive, PTL DEF Spec, NoSecondWriter

\* Whoever comes late to a settled session changes nothing of it.
THEOREM SettledStays == Spec => SettledForGood
<1>1. ASSUME IInv, IInv', [Next]_vars
      PROVE  [row.status \in Settled
                => row'.status = row.status /\ row'.review = row.review]_vars
  BY <1>1, RowStep DEF IInv, RowSettles
<1> QED BY <1>1, Inductive, PTL DEF Spec, SettledForGood

\* assertActive: an answer younger than the lease that it renewed proves that the
\* lease is alive, so recovery has not marked the session when a write starts.
THEOREM LeasedWrites == Spec => WritesUnderLease
<1>1. ASSUME IInv, IInv', [Next]_vars PROVE [LeaseWrites]_vars
  BY <1>1, LeaseStep DEF IInv
<1> QED BY <1>1, Inductive, PTL DEF Spec, WritesUnderLease, LeaseWrites

\* The row lock and the status freeze the chunks of a session that is finalized.
THEOREM ChunksAreFrozen == Spec => FrozenChunks
<1>1. ASSUME IInv, IInv', [Next]_vars PROVE [Frozen]_vars
  BY <1>1, FrozenStep DEF IInv
<1> QED BY <1>1, Inductive, PTL DEF Spec, FrozenChunks, Frozen

\* A session is claimed once, and settled once.
LEMMA SessionStep == ASSUME IInv, TypeOK', [Next]_vars PROVE SessionMoves
<1> USE ConstantsAssumption
<1> USE DEF IInv, TypeOK, appendVars, writeVars, SessionMoves, Open,
            AcceptsChunks, Holder, FailFenced, FailedRow, ClaimedRow, LockKeepsOpen, Renewed, Row,
            CanCommit
<1>1. ASSUME NEW a \in Appends, AppendStep(a) PROVE SessionMoves
  <2>1. CASE AppendStage(a) \/ AppendLock(a) \/ AppendRefused(a) \/ AppendRename(a)
             \/ AppendFails(a) \/ AppendTransactionLost(a)
    BY <2>1 DEF AppendStage, AppendLock, AppendRefused, AppendRename, AppendFails,
        AppendTransactionLost
  <2>2. CASE AppendCommit(a)
    BY <2>2 DEF AppendCommit
  <2> QED BY <1>1, <2>1, <2>2 DEF AppendStep
<1>2. ASSUME NEW f \in Finalizers,
             Start(f) \/ FinStep(f) \/ BeatSend(f) \/ BeatStep(f) \/ LandsLate(f) \/ Crash(f)
      PROVE  SessionMoves
  <2>1. CASE Start(f) \/ Begin(f) \/ BeginFails(f) \/ BeginUnanswered(f)
    <3>1. CASE Start(f) \/ BeginFails(f)  BY <3>1 DEF Start, BeginFails
    <3>2. CASE Begin(f)  BY <3>2 DEF Begin
    <3>3. CASE BeginUnanswered(f)  BY <3>3 DEF BeginUnanswered
    <3> QED BY <2>1, <3>1, <3>2, <3>3
  <2>2. CASE Assemble(f) \/ AssertSend(f) \/ AssertLands(f)
    <3>1. CASE Assemble(f) \/ AssertSend(f)  BY <3>1 DEF Assemble, AssertSend
    <3>2. CASE AssertLands(f)  BY <3>2 DEF AssertLands
    <3> QED BY <2>2, <3>1, <3>2
  <2>3. CASE AssertHolds(f)
    BY <2>3 DEF AssertHolds
  <2>4. CASE AssertLoses(f) \/ AssertThrows(f) \/ Note(f)
    BY <2>4 DEF AssertLoses, AssertThrows, Note
  <2>5. CASE WriteDone(f) \/ WriteRefused(f) \/ WriteErrors(f)
    BY <2>5 DEF WriteDone, WriteRefused, WriteErrors
  <2>6. CASE Commit(f) \/ CommitFails(f)
    BY <2>6 DEF Commit, CommitFails
  <2>7. CASE Clean(f)
    BY <2>7 DEF Clean
  <2>8. CASE Fail(f) \/ FailThrows(f) \/ FailUnanswered(f)
    <3>1. CASE Fail(f)  BY <3>1 DEF Fail
    <3>2. CASE FailThrows(f)  BY <3>2 DEF FailThrows
    <3>3. CASE FailUnanswered(f)  BY <3>3 DEF FailUnanswered
    <3> QED BY <2>8, <3>1, <3>2, <3>3
  <2>9. CASE BeatSend(f) \/ BeatLands(f) \/ BeatAnswered(f)
    BY <2>9 DEF BeatSend, BeatLands, BeatAnswered
  <2>10. CASE LandsLate(f) \/ Crash(f)
    BY <2>10 DEF LandsLate, Crash
  <2> QED BY <1>2, <2>1, <2>2, <2>3, <2>4, <2>5, <2>6, <2>7, <2>8, <2>9, <2>10
          DEF FinStep, BeatStep
<1>3. CASE Cancel \/ CancelCleans
  BY <1>3 DEF Cancel, CancelCleans
<1>5. CASE Recover
  BY <1>5 DEF Recover
<1>6. CASE Expire
  BY <1>6 DEF Expire
<1>7. CASE Tick
  BY <1>7 DEF Tick
<1>4. CASE UNCHANGED vars
  BY <1>4 DEF vars
<1> QED BY <1>1, <1>2, <1>3, <1>4, <1>5, <1>6, <1>7 DEF Next

\* What lands was being written, or on its way.
LEMMA LandsStep == ASSUME IInv, TypeOK', [Next]_vars PROVE Lands
<1> USE ConstantsAssumption
<1> USE DEF IInv, TypeOK, appendVars, writeVars, Lands
<1>1. ASSUME NEW a \in Appends, AppendStep(a) PROVE Lands
  <2>1. CASE AppendStage(a) \/ AppendLock(a) \/ AppendRefused(a) \/ AppendRename(a)
             \/ AppendCommit(a) \/ AppendFails(a) \/ AppendTransactionLost(a)
    BY <2>1 DEF AppendStage, AppendLock, AppendRefused, AppendRename,
        AppendCommit, AppendFails, AppendTransactionLost
  <2> QED BY <1>1, <2>1 DEF AppendStep
<1>2. ASSUME NEW f \in Finalizers,
             Start(f) \/ FinStep(f) \/ BeatSend(f) \/ BeatStep(f) \/ LandsLate(f) \/ Crash(f)
      PROVE  Lands
  <2>1. CASE Start(f) \/ Begin(f) \/ BeginFails(f) \/ BeginUnanswered(f)
    BY <2>1 DEF Start, Begin, BeginFails, BeginUnanswered
  <2>2. CASE Assemble(f) \/ AssertSend(f) \/ AssertLands(f)
    BY <2>2 DEF Assemble, AssertSend, AssertLands
  <2>3. CASE AssertHolds(f)
    BY <2>3 DEF AssertHolds
  <2>4. CASE AssertLoses(f) \/ AssertThrows(f) \/ Note(f)
    BY <2>4 DEF AssertLoses, AssertThrows, Note
  <2>5. CASE WriteDone(f) \/ WriteRefused(f) \/ WriteErrors(f)
    BY <2>5 DEF WriteDone, WriteRefused, WriteErrors
  <2>6. CASE Commit(f) \/ CommitFails(f)
    BY <2>6 DEF Commit, CommitFails
  <2>7. CASE Clean(f)
    BY <2>7 DEF Clean
  <2>8. CASE Fail(f) \/ FailThrows(f) \/ FailUnanswered(f)
    BY <2>8 DEF Fail, FailThrows, FailUnanswered
  <2>9. CASE BeatSend(f) \/ BeatLands(f) \/ BeatAnswered(f)
    BY <2>9 DEF BeatSend, BeatLands, BeatAnswered
  <2>10. CASE LandsLate(f) \/ Crash(f)
    BY <2>10 DEF LandsLate, Crash
  <2> QED BY <1>2, <2>1, <2>2, <2>3, <2>4, <2>5, <2>6, <2>7, <2>8, <2>9, <2>10
          DEF FinStep, BeatStep
<1>3. CASE Cancel \/ CancelCleans \/ Recover \/ Expire \/ Tick
  BY <1>3 DEF Cancel, CancelCleans, Recover, Expire, Tick
<1>4. CASE UNCHANGED vars
  BY <1>4 DEF vars
<1> QED BY <1>1, <1>2, <1>3, <1>4 DEF Next

\* The session implements ClaimedUpload: every step of an append, a finalizer, its
\* heartbeat, the user, the sweeps and the clock is a step of the abstract upload
\* or leaves it as it is.
THEOREM Implements == Spec => ImplementsUpload
<1>1. Init => Upload!Init
  <2> SUFFICES ASSUME Init PROVE Upload!Init
    OBVIOUS
  <2>1. row.status = "PENDING" /\ row.token = None
    BY DEF Init
  <2>2. StateOf(row) = "open"
    BY <2>1 DEF StateOf, Open
  <2>3. [f \in Finalizers |-> fin[f].answer] = [f \in Finalizers |-> "none"]
    BY DEF Init
  <2> QED BY <2>1, <2>2, <2>3, Zenon DEF Init, Upload!Init
<1>2. ASSUME IInv, IInv', [Next]_vars PROVE [Upload!Next]_(Upload!vars)
  <2>0. TypeOK /\ TypeOK' /\ ConstantsAssumption
    BY <1>2, ConstantsAssumption DEF IInv
  <2>1. Upload!UploadMoves
    <3>1. SessionMoves
      BY <1>2, <2>0, SessionStep
    <3>2. row'.status = "COMPLETED" => row'.token \in landed'
      BY <1>2 DEF IInv, CompletedMeansLanded
    <3>3. row'.status = "FAILED" /\ ~row'.review => row'.token \notin landed'
      BY <1>2 DEF IInv, PlainMeansUntouched
    <3>4. CASE /\ row'.token = row.token /\ row'.review = row.review
               /\ row'.status = row.status \/ (row.status \in Open /\ row'.status \in Open)
      <4>1. StateOf(row') = StateOf(row)
        BY <3>4 DEF StateOf, Open
      <4> QED BY <3>4, <4>1 DEF Upload!UploadMoves
    <3>5. CASE row.status \in Open /\ row'.status = "FINALIZING" /\ row'.token \in Finalizers
      BY <3>5 DEF StateOf, Open, Upload!UploadMoves, Upload!Give
    <3>6. CASE row.status \in Open /\ row'.status = "CANCELLED" /\ row'.token = row.token
      BY <3>6 DEF StateOf, Open, Upload!UploadMoves, Upload!Cancel
    <3>7. CASE /\ row.status = "FINALIZING" /\ row'.status \in {"COMPLETED", "FAILED"}
               /\ row'.token = row.token
      BY <3>2, <3>3, <3>7 DEF StateOf, Open, Upload!UploadMoves, Upload!Settle
    <3> QED BY <3>1, <3>4, <3>5, <3>6, <3>7 DEF SessionMoves
  <2>2. Upload!TargetMoves
    <3>1. Lands
      BY <1>2, <2>0, LandsStep
    <3>2. ASSUME NEW f \in wrote' \ wrote PROVE StateOf(row) = "taken" /\ row.token = f
      BY <1>2, <2>0, LeaseStep DEF LeaseWrites, Holder, StateOf, Open, TypeOK
    <3>3. ASSUME NEW f \in landed' \ landed
          PROVE  /\ f \in wrote /\ fin[f].answer # "failed"
                 /\ ~(StateOf(row) = "plain" /\ row.token = f)
      <4>1. f \in Finalizers /\ (f \in inflight \/ fin[f].pc = "writing")
        BY <2>0, <3>1 DEF Lands, TypeOK
      <4>2. row.status = "FAILED" /\ ~row.review => row.token \notin inflight
        BY <1>2 DEF IInv, PlainMeansUntouched
      <4>3. fin[f].answer = "failed" => f \notin inflight
        BY <1>2, <4>1 DEF IInv, PlainMeansUntouched
      <4>4. fin[f].pc = "writing" => f \in wrote /\ fin[f].answer = "none"
        BY <1>2, <4>1 DEF IInv, WriteIsKnown, Stopped
      <4>5. StateOf(row) = "plain" => row.status = "FAILED" /\ ~row.review
        BY <2>0 DEF StateOf, TypeOK, Row, Open, Settled
      <4>6. row.status = "FAILED" /\ ~row.review /\ row.token = f => fin[f].pc # "writing"
        BY <1>2 DEF IInv, PlainIsOver
      <4> QED BY <2>0, <4>1, <4>2, <4>3, <4>4, <4>5, <4>6 DEF TypeOK
    <3> QED BY <3>1, <3>2, <3>3, <2>0 DEF Lands, TypeOK, Upload!TargetMoves, Upload!IsPlain
  <2>3. Upload!RequestsAreTold
    <3>1. ASSUME NEW f \in Finalizers
          PROVE  \/ fin'[f].answer = fin[f].answer
                 \/ /\ fin[f].answer = "none"
                    /\ \/ fin'[f].answer = "ok" /\ StateOf(row) = "completed" /\ row.token = f
                       \/ fin'[f].answer = "failed" /\ f \notin landed'
                       \/ fin'[f].answer = "unknown"
      <4>1. \/ fin'[f].answer = fin[f].answer
            \/ fin[f].answer = "none" /\ (fin'[f].answer = "ok" => fin[f].pc = "clean")
        BY <1>2, <2>0, AnsweredStep DEF Answered
      <4>2. fin[f].pc = "clean" => row.status = "COMPLETED" /\ row.token = f
        BY <1>2 DEF IInv, RemovalIsSettled, CleanIsOwn
      <4>3. fin'[f].answer = "failed" => f \notin landed'
        BY <1>2 DEF IInv, PlainMeansUntouched
      <4>4. fin'[f].answer \in Answers
        BY <2>0 DEF TypeOK, Fin
      <4> QED BY <4>1, <4>2, <4>3, <4>4 DEF Answers, StateOf, Open
    <3> QED BY <3>1, Zenon DEF Upload!RequestsAreTold, Upload!Told
  <2> QED BY <2>1, <2>2, <2>3 DEF Upload!Next
<1> QED BY <1>1, <1>2, Inductive, PTL DEF Spec, ImplementsUpload, Upload!Spec

=============================================================================

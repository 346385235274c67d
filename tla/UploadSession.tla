---------------------------- MODULE UploadSession ----------------------------
(***************************************************************************)
(* One resumable upload: its row of media_upload_sessions, its chunk files *)
(* in the temp directory, the requests that append chunks, the requests    *)
(* that finalize it under a lease (src/src/lib/upload and                  *)
(* storage/resumable-upload.ts; the image route has the same shape), the   *)
(* user's cancellation and the two maintenance sweeps.                     *)
(*                                                                         *)
(* An update of the row waits for the row lock; a read does not.  Time is  *)
(* relative: lease and deadline are the ticks still to go, lag is the age  *)
(* of a call.  Quota, permission, snapshot and folder checks are choices   *)
(* of Assemble to fail.                                                    *)
(***************************************************************************)
EXTENDS Integers

CONSTANTS
    Finalizers,   \* requests to complete the upload, each in its own process
    Appends,      \* requests to append a chunk
    Chunks,       \* the chunk indices of the upload
    ChunkOf,      \* the index each append carries
    LeaseLen,     \* FINALIZATION_LEASE_MS, in ticks
    None

ASSUME ConstantsAssumption ==
    /\ ChunkOf \in [Appends -> Chunks]
    /\ LeaseLen \in Nat \ {0}
    /\ None \notin Finalizers \cup Appends

VARIABLES
    row,        \* the session
    disk,       \* which append each chunk file comes from, or None
    files,      \* appends whose staged temporary file is in the directory
    app,        \* where each append is
    lock,       \* the append whose transaction has the row locked, or None
    fin,        \* what each finalizer knows
    main,       \* its database call in progress: the step it is at waits for it
    beat,       \* its heartbeat in progress
    wrote,      \* finalizers that have started to write the target
    inflight,   \* those whose write ended without an answer and may yet land
    landed,     \* those whose write is in the target
    doomed      \* a canceller or sweeper is about to remove the directory

vars == <<row, disk, files, app, lock, fin, main, beat, wrote, inflight, landed, doomed>>

appendVars == <<files, app, lock>>
writeVars == <<wrote, inflight, landed>>

Open == {"PENDING", "UPLOADING"}
Settled == {"COMPLETED", "FAILED", "CANCELLED"}
Row == [status : Open \cup {"FINALIZING"} \cup Settled, received : SUBSET Chunks,
        token : Finalizers \cup {None}, lease : 0 .. LeaseLen, review : BOOLEAN,
        expired : BOOLEAN]
AppendPcs == {"idle", "staged", "locked", "renamed", "over"}
FinPcs == {"idle", "begin", "claimed", "assert1", "note", "assert2", "writing",
           "assert3", "commit", "clean", "failing", "cleanFailed", "done", "dead"}
Answers == {"none", "ok", "failed", "unknown"}
Fin == [pc : FinPcs, lost : BOOLEAN, writing : BOOLEAN, deadline : 0 .. LeaseLen,
        answer : Answers]
Call == [at : {"none", "sent", "hit", "miss"}, lag : 0 .. LeaseLen]
NoCall == [at |-> "none", lag |-> 0]
Sent == [at |-> "sent", lag |-> 0]

Init ==
    /\ row = [status |-> "PENDING", received |-> {}, token |-> None, lease |-> 0,
              review |-> FALSE, expired |-> FALSE]
    /\ disk = [c \in Chunks |-> None]
    /\ files = {} /\ lock = None
    /\ app = [a \in Appends |-> "idle"]
    /\ fin = [f \in Finalizers |-> [pc |-> "idle", lost |-> FALSE, writing |-> FALSE,
                                    deadline |-> 0, answer |-> "none"]]
    /\ main = [f \in Finalizers |-> NoCall]
    /\ beat = [f \in Finalizers |-> NoCall]
    /\ wrote = {} /\ inflight = {} /\ landed = {}
    /\ doomed = FALSE

-----------------------------------------------------------------------------
\* appendMediaUploadChunk.

\* assertSessionAcceptsChunks.
AcceptsChunks == row.status \in Open /\ ~row.expired

\* Read the session, make the directory and stage the body beside the chunks.
AppendStage(a) ==
    /\ app[a] = "idle" /\ AcceptsChunks
    /\ app' = [app EXCEPT ![a] = "staged"]
    /\ files' = files \cup {a}
    /\ UNCHANGED <<row, disk, lock, fin, main, beat, doomed>> /\ UNCHANGED writeVars

\* Variant: a session that is being finalized passes for an active one.
AppendLockFinalizing(a) ==
    /\ app[a] = "staged" /\ lock = None
    /\ AcceptsChunks \/ row.status = "FINALIZING"
    /\ app' = [app EXCEPT ![a] = "locked"]
    /\ lock' = a
    /\ UNCHANGED <<row, disk, files, fin, main, beat, doomed>> /\ UNCHANGED writeVars

\* SELECT ... FOR UPDATE, and the session checked again under the lock.
AppendLock(a) ==
    /\ app[a] = "staged" /\ lock = None /\ AcceptsChunks
    /\ app' = [app EXCEPT ![a] = "locked"]
    /\ lock' = a
    /\ UNCHANGED <<row, disk, files, fin, main, beat, doomed>> /\ UNCHANGED writeVars

AppendRefused(a) ==
    /\ app[a] = "staged" /\ lock = None /\ ~AcceptsChunks
    /\ app' = [app EXCEPT ![a] = "over"]
    /\ files' = files \ {a}
    /\ UNCHANGED <<row, disk, lock, fin, main, beat, doomed>> /\ UNCHANGED writeVars

\* The staged file takes the chunk's name.
AppendRename(a) ==
    /\ app[a] = "locked" /\ a \in files
    /\ app' = [app EXCEPT ![a] = "renamed"]
    /\ disk' = [disk EXCEPT ![ChunkOf[a]] = a]
    /\ files' = files \ {a}
    /\ UNCHANGED <<row, lock, fin, main, beat, doomed>> /\ UNCHANGED writeVars

Unlock(a) == lock' = IF lock = a THEN None ELSE lock

\* The commit stores the index, unless the database has ended the transaction.
AppendCommit(a) ==
    /\ app[a] = "renamed"
    /\ row' = IF lock = a
              THEN [row EXCEPT !.received = @ \cup {ChunkOf[a]}, !.status = "UPLOADING"]
              ELSE row
    /\ app' = [app EXCEPT ![a] = "over"]
    /\ Unlock(a)
    /\ UNCHANGED <<disk, files, fin, main, beat, doomed>> /\ UNCHANGED writeVars

\* A statement or the rename fails: the transaction is rolled back.
AppendFails(a) ==
    /\ app[a] \in {"staged", "locked", "renamed"}
    /\ app' = [app EXCEPT ![a] = "over"]
    /\ files' = files \ {a}
    /\ Unlock(a)
    /\ UNCHANGED <<row, disk, fin, main, beat, doomed>> /\ UNCHANGED writeVars

\* The database ends the transaction (its time limit, a restart) and with it the
\* row lock; the handler learns of it at its next statement, not before a rename.
AppendTransactionLost(a) ==
    /\ lock = a
    /\ lock' = None
    /\ UNCHANGED <<row, disk, files, app, fin, main, beat, doomed>>
    /\ UNCHANGED writeVars

-----------------------------------------------------------------------------
\* completeStorageFileUpload.

Holder(f) == row.status = "FINALIZING" /\ row.token = f

\* The lease is stopped in the finally block, or with its process; what the
\* request knew is gone.
Stopped(f) == fin[f].pc \in {"done", "dead"}
Over(pc, answer) == [pc |-> pc, lost |-> FALSE, writing |-> FALSE, deadline |-> 0,
                     answer |-> answer]

\* The checks before the claim, all of them on one read.
Start(f) ==
    /\ fin[f].pc = "idle" /\ AcceptsChunks /\ row.received = Chunks
    /\ fin' = [fin EXCEPT ![f].pc = "begin"]
    /\ main' = [main EXCEPT ![f] = Sent]
    /\ UNCHANGED <<row, disk, beat, doomed>> /\ UNCHANGED appendVars
    /\ UNCHANGED writeVars

ClaimedRow(f) == [row EXCEPT !.status = "FINALIZING", !.token = f, !.review = FALSE,
                             !.lease = LeaseLen - main[f].lag]

\* Variant: a finalization whose lease has run out may be claimed again.
BeginTakesOver(f) ==
    /\ fin[f].pc = "begin" /\ lock = None
    /\ AcceptsChunks \/ (row.status = "FINALIZING" /\ row.lease = 0)
    /\ row' = ClaimedRow(f)
    /\ fin' = [fin EXCEPT ![f] = [@ EXCEPT !.pc = "claimed", !.deadline = LeaseLen]]
    /\ main' = [main EXCEPT ![f] = NoCall]
    /\ UNCHANGED <<disk, beat, doomed>> /\ UNCHANGED appendVars /\ UNCHANGED writeVars

\* beginUploadFinalization: the lease counts from before the update, the
\* finalizer's own deadline from after it.
Begin(f) ==
    /\ fin[f].pc = "begin" /\ lock = None /\ AcceptsChunks
    /\ row' = ClaimedRow(f)
    /\ fin' = [fin EXCEPT ![f] = [@ EXCEPT !.pc = "claimed", !.deadline = LeaseLen]]
    /\ main' = [main EXCEPT ![f] = NoCall]
    /\ UNCHANGED <<disk, beat, doomed>> /\ UNCHANGED appendVars /\ UNCHANGED writeVars

\* The session is taken, or the call fails: the request has no lease, so it
\* neither records a failure nor heartbeats.
BeginFails(f) ==
    /\ fin[f].pc = "begin"
    /\ fin' = [fin EXCEPT ![f] = Over("done", "failed")]
    /\ main' = [main EXCEPT ![f] = NoCall]
    /\ UNCHANGED <<row, disk, beat, doomed>> /\ UNCHANGED appendVars
    /\ UNCHANGED writeVars

\* The call fails for the request, but not in the database.
BeginUnanswered(f) ==
    /\ fin[f].pc = "begin" /\ lock = None /\ AcceptsChunks
    /\ row' = ClaimedRow(f)
    /\ fin' = [fin EXCEPT ![f] = Over("done", "failed")]
    /\ main' = [main EXCEPT ![f] = NoCall]
    /\ UNCHANGED <<disk, beat, doomed>> /\ UNCHANGED appendVars /\ UNCHANGED writeVars

\* The chunks are read while the session is FINALIZING and none is missing.
Assemble(f) ==
    /\ fin[f].pc = "claimed"
    /\ \/ /\ row.status = "FINALIZING" /\ \A c \in Chunks : disk[c] # None
          /\ fin' = [fin EXCEPT ![f].pc = "assert1"]
       \/ fin' = [fin EXCEPT ![f].pc = "failing"]
    /\ UNCHANGED <<row, disk, main, beat, doomed>> /\ UNCHANGED appendVars
    /\ UNCHANGED writeVars

\* assertActive, up to its update.
AssertSend(f) ==
    /\ fin[f].pc \in {"assert1", "assert2", "assert3"} /\ main[f].at = "none"
    /\ IF fin[f].lost \/ fin[f].deadline = 0
       THEN /\ fin' = [fin EXCEPT ![f] = [@ EXCEPT !.lost = TRUE, !.pc = "failing"]]
            /\ UNCHANGED main
       ELSE /\ main' = [main EXCEPT ![f] = Sent]
            /\ UNCHANGED fin
    /\ UNCHANGED <<row, disk, beat, doomed>> /\ UNCHANGED appendVars
    /\ UNCHANGED writeVars

\* The update of assertActive reaches the row, for the request or a heartbeat.
Renews(f) == Holder(f) /\ row.lease > 0
Renewed(f) == row' = IF Renews(f) THEN [row EXCEPT !.lease = LeaseLen] ELSE row
Land(call, f) == [call EXCEPT !.at = IF Renews(f) THEN "hit" ELSE "miss"]

AssertLands(f) ==
    /\ fin[f].pc \in {"assert1", "assert2", "assert3"}
    /\ main[f].at = "sent" /\ lock = None
    /\ Renewed(f)
    /\ main' = [main EXCEPT ![f] = Land(@, f)]
    /\ UNCHANGED <<disk, fin, beat, doomed>> /\ UNCHANGED appendVars
    /\ UNCHANGED writeVars

\* Variant: the answer counts however late it comes.
InTimeAlways(call, f) == call.at = "hit" /\ ~Stopped(f) /\ ~fin[f].lost
InTime(call, f) == call.at = "hit" /\ ~Stopped(f) /\ ~fin[f].lost /\ call.lag < LeaseLen

\* beforeWrite, the write and the commit each follow an assertion that held.
\* With the second one the write starts.
AssertHolds(f) ==
    /\ fin[f].pc \in {"assert1", "assert2", "assert3"} /\ InTime(main[f], f)
    /\ fin' = [fin EXCEPT ![f] =
                 [@ EXCEPT !.deadline = LeaseLen - main[f].lag,
                           !.writing = fin[f].pc # "assert1",
                           !.pc = CASE fin[f].pc = "assert1" -> "note"
                                    [] fin[f].pc = "assert2" -> "writing"
                                    [] fin[f].pc = "assert3" -> "commit"]]
    /\ wrote' = IF fin[f].pc = "assert2" THEN wrote \cup {f} ELSE wrote
    /\ main' = [main EXCEPT ![f] = NoCall]
    /\ UNCHANGED <<row, disk, beat, inflight, landed, doomed>> /\ UNCHANGED appendVars

\* The update found no live lease of this token, or its answer came too late.
AssertLoses(f) ==
    /\ fin[f].pc \in {"assert1", "assert2", "assert3"}
    /\ main[f].at \in {"hit", "miss"} /\ ~InTime(main[f], f)
    /\ fin' = [fin EXCEPT ![f] = [@ EXCEPT !.lost = TRUE, !.pc = "failing"]]
    /\ main' = [main EXCEPT ![f] = NoCall]
    /\ UNCHANGED <<row, disk, beat, doomed>> /\ UNCHANGED appendVars
    /\ UNCHANGED writeVars

\* The call throws: that alone does not mark the lease as lost.
AssertThrows(f) ==
    /\ fin[f].pc \in {"assert1", "assert2", "assert3"} /\ main[f].at # "none"
    /\ fin' = [fin EXCEPT ![f].pc = "failing"]
    /\ main' = [main EXCEPT ![f] = NoCall]
    /\ UNCHANGED <<row, disk, beat, doomed>> /\ UNCHANGED appendVars
    /\ UNCHANGED writeVars

\* The recovery metadata is stored before anything is written.
Note(f) ==
    /\ fin[f].pc = "note" /\ lock = None
    /\ \/ /\ Holder(f) /\ row.lease > 0
          /\ fin' = [fin EXCEPT ![f].pc = "assert2"]
       \/ /\ ~(Holder(f) /\ row.lease > 0)
          /\ fin' = [fin EXCEPT ![f] = [@ EXCEPT !.lost = TRUE, !.pc = "failing"]]
       \/ fin' = [fin EXCEPT ![f].pc = "failing"]
    /\ UNCHANGED <<row, disk, main, beat, doomed>> /\ UNCHANGED appendVars
    /\ UNCHANGED writeVars

\* writeStorageFileFromLocalPath returns: the target has the new bytes.
WriteDone(f) ==
    /\ fin[f].pc = "writing"
    /\ fin' = [fin EXCEPT ![f].pc = "assert3"]
    /\ landed' = landed \cup {f}
    /\ UNCHANGED <<row, disk, main, beat, wrote, inflight, doomed>>
    /\ UNCHANGED appendVars

\* A local file system refuses with an errno before it changes the target;
\* writeRefused takes the attempt back unless the lease was lost meanwhile.
WriteRefused(f) ==
    /\ fin[f].pc = "writing"
    /\ fin' = [fin EXCEPT ![f] = [@ EXCEPT !.pc = "failing", !.writing = fin[f].lost]]
    /\ UNCHANGED <<row, disk, main, beat, doomed>> /\ UNCHANGED appendVars
    /\ UNCHANGED writeVars

\* Variant: every error of the write is taken for a refusal.
WriteErrorsAsRefusal(f) ==
    /\ fin[f].pc = "writing"
    /\ fin' = [fin EXCEPT ![f] = [@ EXCEPT !.pc = "failing", !.writing = fin[f].lost]]
    /\ \/ landed' = landed \cup {f} /\ UNCHANGED inflight
       \/ inflight' = inflight \cup {f} /\ UNCHANGED landed
    /\ UNCHANGED <<row, disk, main, beat, wrote, doomed>> /\ UNCHANGED appendVars

\* Variant: the finalization goes on whatever the write answered.
WriteErrorsIgnored(f) ==
    /\ fin[f].pc = "writing"
    /\ fin' = [fin EXCEPT ![f].pc = "assert3"]
    /\ inflight' = inflight \cup {f}
    /\ UNCHANGED <<row, disk, main, beat, wrote, landed, doomed>> /\ UNCHANGED appendVars

\* Any other error: the write has landed, will land or never does.
WriteErrors(f) ==
    /\ fin[f].pc = "writing"
    /\ fin' = [fin EXCEPT ![f].pc = "failing"]
    /\ \/ landed' = landed \cup {f} /\ UNCHANGED inflight
       \/ inflight' = inflight \cup {f} /\ UNCHANGED landed
    /\ UNCHANGED <<row, disk, main, beat, wrote, doomed>> /\ UNCHANGED appendVars

LandsLate(f) ==
    /\ f \in inflight
    /\ inflight' = inflight \ {f} /\ landed' = landed \cup {f}
    /\ UNCHANGED <<row, disk, fin, main, beat, wrote, doomed>> /\ UNCHANGED appendVars

\* completeMediaUploadSession in the transaction that also indexes the file.
CanCommit(f) == lock = None /\ Holder(f) /\ row.lease > 0

Commit(f) ==
    /\ fin[f].pc = "commit" /\ CanCommit(f)
    /\ row' = [row EXCEPT !.status = "COMPLETED"]
    /\ \E pc \in {"clean", "failing"} :   \* "failing": the answer is lost
          fin' = [fin EXCEPT ![f].pc = pc]
    /\ UNCHANGED <<disk, main, beat, doomed>> /\ UNCHANGED appendVars
    /\ UNCHANGED writeVars

CommitFails(f) ==
    /\ fin[f].pc = "commit"
    /\ fin' = [fin EXCEPT ![f].pc = "failing"]
    /\ UNCHANGED <<row, disk, main, beat, doomed>> /\ UNCHANGED appendVars
    /\ UNCHANGED writeVars

\* cleanupMediaUploadTempDir, whose failure is logged.
RemoveDir == \/ disk' = [c \in Chunks |-> None] /\ files' = {}
             \/ UNCHANGED <<disk, files>>

\* After the commit, or after a failure recorded as plain.
Clean(f) ==
    /\ fin[f].pc \in {"clean", "cleanFailed"}
    /\ RemoveDir
    /\ fin' = [fin EXCEPT ![f] = Over("done", IF @.pc = "clean" THEN "ok" ELSE "failed")]
    /\ UNCHANGED <<row, app, lock, main, beat, doomed>> /\ UNCHANGED writeVars

NeedsReview(f) == fin[f].writing \/ fin[f].lost

\* Variant: the fence of fail() forgets the status.
FailFencedByToken(f) == row.token = f
FailFenced(f) == Holder(f)

FailedRow(f) == [row EXCEPT !.status = "FAILED", !.review = NeedsReview(f)]

\* Variant: the directory goes whenever this request needs no review, also when
\* its update did not find the row.
FailCleansAnyway(f) ==
    /\ fin[f].pc = "failing" /\ lock = None
    /\ row' = IF FailFenced(f) THEN FailedRow(f) ELSE row
    /\ fin' = [fin EXCEPT ![f] = IF NeedsReview(f) THEN Over("done", "unknown")
                                 ELSE [@ EXCEPT !.pc = "cleanFailed"]]
    /\ UNCHANGED <<disk, main, beat, doomed>> /\ UNCHANGED appendVars
    /\ UNCHANGED writeVars

\* recordFinalizationFailure: the chunks go only if the failure was recorded by
\* this request and needs no review.
Fail(f) ==
    /\ fin[f].pc = "failing" /\ lock = None
    /\ row' = IF FailFenced(f) THEN FailedRow(f) ELSE row
    /\ fin' = [fin EXCEPT ![f] = IF NeedsReview(f) THEN Over("done", "unknown")
                                 ELSE IF FailFenced(f) THEN [@ EXCEPT !.pc = "cleanFailed"]
                                 ELSE Over("done", "failed")]
    /\ UNCHANGED <<disk, main, beat, doomed>> /\ UNCHANGED appendVars
    /\ UNCHANGED writeVars

\* The update throws: taken for a review.
FailThrows(f) ==
    /\ fin[f].pc = "failing"
    /\ fin' = [fin EXCEPT ![f] = Over("done", "unknown")]
    /\ UNCHANGED <<row, disk, main, beat, doomed>> /\ UNCHANGED appendVars
    /\ UNCHANGED writeVars

\* It throws for the request, but not in the database.
FailUnanswered(f) ==
    /\ fin[f].pc = "failing" /\ lock = None /\ FailFenced(f)
    /\ row' = FailedRow(f)
    /\ fin' = [fin EXCEPT ![f] = Over("done", "unknown")]
    /\ UNCHANGED <<disk, main, beat, doomed>> /\ UNCHANGED appendVars
    /\ UNCHANGED writeVars

\* The process dies; what it sent may still arrive, a renewal or the write.
Crash(f) ==
    /\ fin[f].pc \notin {"idle", "done", "dead"}
    /\ fin' = [fin EXCEPT ![f] = Over("dead", "none")]
    /\ inflight' = IF fin[f].pc = "writing" THEN inflight \cup {f} ELSE inflight
    /\ \E arrives \in BOOLEAN :
          /\ beat' = [beat EXCEPT ![f] = IF arrives /\ (@.at = "sent" \/ main[f].at = "sent")
                                         THEN Sent ELSE NoCall]
    /\ main' = [main EXCEPT ![f] = NoCall]
    /\ UNCHANGED <<row, disk, wrote, landed, doomed>>
    /\ UNCHANGED appendVars

-----------------------------------------------------------------------------
\* The heartbeat timer of the lease.

BeatSend(f) ==
    /\ fin[f].pc \notin {"idle", "begin"} /\ ~Stopped(f) /\ ~fin[f].lost
    /\ beat[f].at = "none"
    /\ IF fin[f].deadline = 0
       THEN fin' = [fin EXCEPT ![f].lost = TRUE] /\ UNCHANGED beat
       ELSE beat' = [beat EXCEPT ![f] = Sent] /\ UNCHANGED fin
    /\ UNCHANGED <<row, disk, main, doomed>> /\ UNCHANGED appendVars
    /\ UNCHANGED writeVars

BeatLands(f) ==
    /\ beat[f].at = "sent" /\ lock = None
    /\ Renewed(f)
    /\ beat' = [beat EXCEPT ![f] = Land(@, f)]
    /\ UNCHANGED <<disk, fin, main, doomed>> /\ UNCHANGED appendVars
    /\ UNCHANGED writeVars

\* The answer; an error is taken for a lost lease.
BeatAnswered(f) ==
    /\ beat[f].at # "none"
    /\ \/ /\ InTime(beat[f], f)
          /\ fin' = [fin EXCEPT ![f].deadline = LeaseLen - beat[f].lag]
       \/ /\ ~Stopped(f)
          /\ fin' = [fin EXCEPT ![f].lost = TRUE]
       \/ /\ Stopped(f)
          /\ UNCHANGED fin
    /\ beat' = [beat EXCEPT ![f] = NoCall]
    /\ UNCHANGED <<row, disk, main, doomed>> /\ UNCHANGED appendVars
    /\ UNCHANGED writeVars

-----------------------------------------------------------------------------
\* The user, the maintenance sweeps and the clock.

\* cancelMediaUploadSession, and sweepExpiredMediaUploadSessions for an expired
\* session: first the status, then the directory.
Cancel ==
    /\ row.status \in Open /\ lock = None
    /\ row' = [row EXCEPT !.status = "CANCELLED"]
    /\ doomed' = TRUE
    /\ UNCHANGED <<disk, fin, main, beat>> /\ UNCHANGED appendVars
    /\ UNCHANGED writeVars

CancelCleans ==
    /\ doomed
    /\ RemoveDir
    /\ doomed' = FALSE
    /\ UNCHANGED <<row, app, lock, fin, main, beat>> /\ UNCHANGED writeVars

\* Variant: recovery looks at sessions that have not expired, like the claim.
RecoverUnexpired ==
    /\ row.status = "FINALIZING" /\ row.lease = 0 /\ lock = None /\ ~row.expired
    /\ row' = [row EXCEPT !.status = "FAILED", !.review = TRUE]
    /\ UNCHANGED <<disk, fin, main, beat, doomed>> /\ UNCHANGED appendVars
    /\ UNCHANGED writeVars

\* recoverInterruptedFinalizations.
Recover ==
    /\ row.status = "FINALIZING" /\ row.lease = 0 /\ lock = None
    /\ row' = [row EXCEPT !.status = "FAILED", !.review = TRUE]
    /\ UNCHANGED <<disk, fin, main, beat, doomed>> /\ UNCHANGED appendVars
    /\ UNCHANGED writeVars

\* expiresAt passes.
Expire ==
    /\ ~row.expired
    /\ row' = [row EXCEPT !.expired = TRUE]
    /\ UNCHANGED <<disk, fin, main, beat, doomed>> /\ UNCHANGED appendVars
    /\ UNCHANGED writeVars

Down(n) == IF n > 0 THEN n - 1 ELSE 0
Older(call) == IF call.at # "none" /\ call.lag < LeaseLen
               THEN [call EXCEPT !.lag = @ + 1] ELSE call

Tick ==
    /\ row' = [row EXCEPT !.lease = IF row.status = "FINALIZING" THEN Down(@) ELSE @]
    /\ fin' = [f \in Finalizers |-> [fin[f] EXCEPT !.deadline = Down(@)]]
    /\ main' = [f \in Finalizers |-> Older(main[f])]
    /\ beat' = [f \in Finalizers |-> IF Stopped(f) THEN beat[f] ELSE Older(beat[f])]
    /\ UNCHANGED <<disk, doomed>> /\ UNCHANGED appendVars /\ UNCHANGED writeVars

-----------------------------------------------------------------------------
AppendStep(a) ==
    \/ AppendStage(a) \/ AppendLock(a) \/ AppendRefused(a) \/ AppendRename(a)
    \/ AppendCommit(a) \/ AppendFails(a) \/ AppendTransactionLost(a)

FinStep(f) ==
    \/ Begin(f) \/ BeginFails(f) \/ BeginUnanswered(f) \/ Assemble(f)
    \/ AssertSend(f) \/ AssertLands(f) \/ AssertHolds(f) \/ AssertLoses(f) \/ AssertThrows(f)
    \/ Note(f) \/ WriteDone(f) \/ WriteRefused(f) \/ WriteErrors(f)
    \/ Commit(f) \/ CommitFails(f) \/ Clean(f)
    \/ Fail(f) \/ FailThrows(f) \/ FailUnanswered(f)

BeatStep(f) == BeatLands(f) \/ BeatAnswered(f)

Next ==
    \/ \E a \in Appends : AppendStep(a)
    \/ \E f \in Finalizers : \/ Start(f) \/ FinStep(f) \/ BeatSend(f) \/ BeatStep(f)
                             \/ LandsLate(f) \/ Crash(f)
    \/ Cancel \/ CancelCleans \/ Recover \/ Expire \/ Tick

Spec == Init /\ [][Next]_vars

\* A request goes on and its write ends (every transport has a time limit), a
\* heartbeat is answered or fails, the clock runs and the maintenance job sweeps.
FairSpec ==
    /\ Spec
    /\ \A a \in Appends : WF_vars(AppendRename(a) \/ AppendCommit(a) \/ AppendFails(a))
    /\ \A f \in Finalizers : WF_vars(FinStep(f)) /\ WF_vars(BeatStep(f))
    /\ WF_vars(Recover) /\ WF_vars(Tick)

-----------------------------------------------------------------------------
\* Properties.

\* Every variable has its type.
TypeOK ==
    /\ row \in Row /\ disk \in [Chunks -> Appends \cup {None}]
    /\ files \subseteq Appends /\ app \in [Appends -> AppendPcs]
    /\ lock \in Appends \cup {None} /\ fin \in [Finalizers -> Fin]
    /\ main \in [Finalizers -> Call] /\ beat \in [Finalizers -> Call]
    /\ wrote \subseteq Finalizers /\ inflight \subseteq wrote /\ landed \subseteq wrote
    /\ doomed \in BOOLEAN

\* A session is COMPLETED only with the bytes of its finalizer in the target,
\* however the answers of the write and of the commit were lost.
CompletedMeansLanded == row.status = "COMPLETED" => row.token \in landed

\* A plain failure, in the row ("select the source file to retry") or in the
\* answer of the request, means that no write of it has landed or will.
PlainMeansUntouched ==
    /\ row.status = "FAILED" /\ ~row.review => row.token \notin landed \cup inflight
    /\ \A f \in Finalizers : fin[f].answer = "failed" => f \notin landed \cup inflight

\* The chunks are there as long as a finalizer may read them, and while the
\* session waits for a review they are the only copy.
ReviewKeepsChunks ==
    row.status = "FINALIZING" \/ (row.status = "FAILED" /\ row.review)
        => \A c \in Chunks : disk[c] # None

\* Once the owner of a session may have written the target, nobody else gets to
\* write it: the session has no other owner and takes no chunks any more, however
\* often the completion is asked for, whoever crashes and whatever runs out.
NoSecondWriter ==
    [][row.token \in wrote => row'.token = row.token /\ row'.status \notin Open]_vars

\* A settled session stays settled as it is: a late finalizer, its heartbeat and
\* the sweeps change nothing any more.
SettledForGood ==
    [][row.status \in Settled => row'.status = row.status /\ row'.review = row.review]_vars

\* A write starts only while the database still knows the lease as alive, that
\* is, before recovery may have marked the session for review.
WritesUnderLease ==
    [][\A f \in Finalizers : f \in wrote' \ wrote => Holder(f) /\ row.lease > 0]_vars

\* The chunks are frozen while the session is finalized: only an append whose
\* transaction the database has ended behind its back can still replace one.
FrozenChunks ==
    [][row.status = "FINALIZING" /\ disk' # disk
          => \E a \in Appends : app[a] = "locked" /\ lock # a /\ disk'[ChunkOf[a]] = a]_vars

\* The upload as those who finalize it see it.
StateOf(r) == CASE r.status \in Open -> "open"
                [] r.status = "FINALIZING" -> "taken"
                [] r.status = "COMPLETED" -> "completed"
                [] r.status = "FAILED" -> IF r.review THEN "review" ELSE "plain"
                [] r.status = "CANCELLED" -> "cancelled"

Upload == INSTANCE ClaimedUpload WITH
    Requests <- Finalizers, state <- StateOf(row), owner <- row.token,
    started <- wrote, told <- [f \in Finalizers |-> fin[f].answer]

\* Leases, heartbeats, late answers, crashes, the cancellation and the sweeps
\* together never do more than ClaimedUpload allows.  In particular a session has
\* one owner for good, only that one writes, a settled session stays as it is, and
\* success is answered by the owner of a completed session only.
ImplementsUpload == Upload!Spec

\* A finalization comes to an end, whoever crashes and whatever is lost: the
\* lease of a finalizer that has stopped runs out and recovery settles it.
EveryFinalizationSettles == row.status = "FINALIZING" ~> row.status \in Settled

=============================================================================

---------------------------- MODULE ClaimedUpload ----------------------------
(***************************************************************************)
(* What a resumable upload promises to the requests that finalize it: one  *)
(* of them is given the upload, once and for good; it alone writes the     *)
(* target; the upload is completed with its bytes in place, or says        *)
(* whether they may be; and what each request is told agrees with that, at *)
(* the time and ever after.  Leases, heartbeats, chunks, the row lock and  *)
(* the sweeps do not appear; UploadSession is shown to implement this      *)
(* specification.                                                          *)
(***************************************************************************)

CONSTANTS Requests, None

VARIABLES
    state,     \* of the upload
    owner,     \* the request that was given it, or None
    started,   \* requests that have begun to write the target
    landed,    \* those whose bytes are in it
    told       \* what each request has answered its caller

vars == <<state, owner, started, landed, told>>

Init == /\ state = "open" /\ owner = None
        /\ started = {} /\ landed = {}
        /\ told = [r \in Requests |-> "none"]

Give(r) == state = "open" /\ state' = "taken" /\ owner' = r

Cancel == state = "open" /\ state' = "cancelled" /\ owner' = owner

\* "plain": the target is as it was, and stays so; "review": nobody knows.
Settle == /\ state = "taken" /\ owner' = owner
          /\ \/ state' = "completed" /\ owner \in landed'
             \/ state' = "plain" /\ owner \notin landed'
             \/ state' = "review"

UploadMoves == \/ \E r \in Requests : Give(r)
               \/ Cancel \/ Settle \/ UNCHANGED <<state, owner>>

\* A request that was told of a plain failure has written nothing and never will.
IsPlain(r) == told[r] = "failed" \/ (state = "plain" /\ owner = r)

TargetMoves ==
    /\ started \subseteq started' /\ landed \subseteq landed'
    /\ \A r \in started' \ started : state = "taken" /\ owner = r
    /\ \A r \in landed' \ landed : r \in started /\ ~IsPlain(r)

Told(r) == told[r] = "none" /\ \/ told'[r] = "ok" /\ state = "completed" /\ owner = r
                               \/ told'[r] = "failed" /\ r \notin landed'
                               \/ told'[r] = "unknown"

RequestsAreTold == /\ told' = [r \in Requests |-> told'[r]]
                   /\ \A r \in Requests : Told(r) \/ told'[r] = told[r]

\* One statement may give the upload, or settle it, and answer a request.
Next == UploadMoves /\ TargetMoves /\ RequestsAreTold

Spec == Init /\ [][Next]_vars

=============================================================================

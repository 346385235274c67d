--------------------------- MODULE MCUploadSession ---------------------------
(* A small instance of UploadSession: two requests append the same chunk. *)
EXTENDS UploadSession

CONSTANTS f1, f2, a1, a2, c1

SameChunk == [a \in Appends |-> c1]

=============================================================================

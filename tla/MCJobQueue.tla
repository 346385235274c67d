----------------------------- MODULE MCJobQueue -----------------------------
(* Small instances of JobQueue. *)
EXTENDS JobQueue, TLC

CONSTANTS j1, j2, s1, s2, w1, w2

OwnWorkers == s1 :> w1 @@ s2 :> w2
OnlyWorker == s1 :> w1
OneWorker == s1 :> w1 @@ s2 :> w1
Twice == [j \in Jobs |-> 2]
Unowned == [j \in Jobs |-> Nobody]

=============================================================================

--------------------------- MODULE MCJobQueueCaps ---------------------------
(* Small instances of JobQueueCaps.  The jobs are alike, and so are the two   *)
(* processes with their slots.                                                *)
EXTENDS JobQueueCaps, TLC

CONSTANTS j1, j2, s1, s2, w1, w2, user

OwnWorkers == s1 :> w1 @@ s2 :> w2
Once == [j \in Jobs |-> 1]
Unowned == [j \in Jobs |-> Nobody]
SameOwner == [j \in Jobs |-> user]
OwnNode == [j \in Jobs |-> j]

Symmetry == Permutations(Jobs) \cup {s1 :> s2 @@ s2 :> s1 @@ w1 :> w2 @@ w2 :> w1}

=============================================================================

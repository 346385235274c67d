------------------------- MODULE JobQueueCapsProofs -------------------------
(***************************************************************************)
(* The caps of JobQueueCaps, for any number of slots and processes, any    *)
(* finite table, any lease, delay and lag of the calls, and all caps at    *)
(* once.                                                                   *)
(***************************************************************************)
EXTENDS JobQueueCaps, JobQueueProofs, FiniteSetTheorems

\* Who has counted holds the advisory lock, and what was counted still holds.
CountHolds ==
    \A s \in Slots : slot[s].pc = "counted" =>
        /\ lock = s
        /\ MaxGlobal > 0 => Cardinality(Claimed) < MaxGlobal

CapsInv == TypeOK /\ CountHolds /\ CapsRespected

-----------------------------------------------------------------------------
\* What a step other than a claim does to a row that runs after it: the row ran
\* before, in the same attempt, and got no more lease, but from a heartbeat.
RowKept(j) ==
    jobs'[j].status = "RUNNING" =>
        /\ jobs[j].status = "RUNNING" /\ jobs'[j].attempts = jobs[j].attempts
        /\ jobs'[j].lease <= jobs[j].lease \/ j \in Beaten

\* What it does to a slot that has counted after it.
SlotKept(s) ==
    slot'[s].pc = "counted" => slot[s].pc = "counted" /\ (lock = s => lock' = s)

\* A row that is kept comes under no live lease but as a revived one.
LEMMA KeptIsClaimed ==
  ASSUME TypeOK, TypeOK', Revival, NEW j \in Claimed', RowKept(j)
  PROVE  j \in Claimed
<1>1. /\ j \in Jobs /\ jobs'[j].status = "RUNNING" /\ jobs'[j].lease >= 0
      /\ j \in Active(0)' /\ j \notin revived'
  BY DEF Claimed, Active
<1>2. jobs[j].lease \in Int /\ jobs'[j].lease \in Int
  BY <1>1 DEF TypeOK, Row
<1>3. /\ jobs[j].status = "RUNNING" /\ jobs'[j].attempts = jobs[j].attempts
      /\ jobs'[j].lease <= jobs[j].lease \/ j \in Beaten
  BY <1>1 DEF RowKept
<1>4. j \notin revived /\ j \notin Beaten \ Active(0)
  BY <1>1, <1>3 DEF Revival
<1>5. j \in Active(0)
  BY <1>1, <1>2, <1>3, <1>4 DEF Active
<1> QED BY <1>4, <1>5 DEF Claimed

\* A claim counts every claimed row, however old its `now` is.
LEMMA ClaimedCounts ==
  ASSUME TypeOK, NEW lag \in Nat
  PROVE  Claimed \subseteq Active(lag)
  BY DEF Claimed, Active, TypeOK, Row

\* A part of the table is finite.
LEMMA PartCardinality ==
  ASSUME NEW T \in SUBSET Jobs, NEW S \in SUBSET T
  PROVE  /\ IsFiniteSet(S)
         /\ Cardinality(S) \in Nat /\ Cardinality(T) \in Nat
         /\ Cardinality(S) <= Cardinality(T)
<1>1. IsFiniteSet(T)
  BY TableAssumption, FS_Subset
<1>2. IsFiniteSet(S) /\ Cardinality(S) <= Cardinality(T)
  BY <1>1, FS_Subset
<1> QED BY <1>1, <1>2, FS_CardinalityType

LEMMA ClaimedInTable == Claimed \subseteq Jobs /\ Claimed' \subseteq Jobs
  BY DEF Claimed, Active

\* When no row becomes a claimed one, every count stays within its cap.
LEMMA ClaimedShrinks ==
  ASSUME CapsRespected, Claimed' \subseteq Claimed
  PROVE  /\ CapsRespected'
         /\ Cardinality(Claimed) \in Nat /\ Cardinality(Claimed)' \in Nat
         /\ Cardinality(Claimed)' <= Cardinality(Claimed)
<1> DEFINE A == Claimed
           B == Claimed'
<1>2. A \subseteq Jobs /\ B \subseteq A
  BY ClaimedInTable
<1> HIDE DEF A, B
<1>3. ASSUME NEW S, NEW T, S \subseteq A, T \subseteq S
      PROVE  /\ Cardinality(S) \in Nat /\ Cardinality(T) \in Nat
             /\ Cardinality(T) <= Cardinality(S)
  BY <1>2, <1>3, PartCardinality
<1>4. /\ Cardinality(A) \in Nat /\ Cardinality(B) \in Nat
      /\ Cardinality(B) <= Cardinality(A)
  BY <1>2, <1>3
<1>5. (MaxGlobal > 0 => Cardinality(Claimed) <= MaxGlobal)'
  <2>1. MaxGlobal > 0 => Cardinality(A) <= MaxGlobal
    BY DEF A, CapsRespected
  <2>2. MaxGlobal > 0 => Cardinality(B) <= MaxGlobal
    BY <1>4, <2>1, ConstantsAssumption
  <2> QED BY <2>2 DEF B
<1>6. ASSUME NEW j \in Jobs, MaxPerUser > 0, Owner[j] # Nobody
      PROVE  Cardinality({r \in B : Owner[r] = Owner[j]}) <= MaxPerUser
  <2>1. Cardinality({r \in A : Owner[r] = Owner[j]}) <= MaxPerUser
    BY <1>6 DEF A, CapsRespected
  <2>2. /\ {r \in A : Owner[r] = Owner[j]} \subseteq A
        /\ {r \in B : Owner[r] = Owner[j]} \subseteq {r \in A : Owner[r] = Owner[j]}
    BY <1>2
  <2>3. /\ Cardinality({r \in A : Owner[r] = Owner[j]}) \in Nat
        /\ Cardinality({r \in B : Owner[r] = Owner[j]}) \in Nat
        /\ Cardinality({r \in B : Owner[r] = Owner[j]})
              <= Cardinality({r \in A : Owner[r] = Owner[j]})
    BY <1>3, <2>2
  <2> QED BY <2>1, <2>3, ConstantsAssumption
<1>7. ASSUME NEW j \in Jobs, MaxPerNode > 0, Node[j] # Nobody
      PROVE  Cardinality({r \in B : Node[r] = Node[j]}) <= MaxPerNode
  <2>1. Cardinality({r \in A : Node[r] = Node[j]}) <= MaxPerNode
    BY <1>7 DEF A, CapsRespected
  <2>2. /\ {r \in A : Node[r] = Node[j]} \subseteq A
        /\ {r \in B : Node[r] = Node[j]} \subseteq {r \in A : Node[r] = Node[j]}
    BY <1>2
  <2>3. /\ Cardinality({r \in A : Node[r] = Node[j]}) \in Nat
        /\ Cardinality({r \in B : Node[r] = Node[j]}) \in Nat
        /\ Cardinality({r \in B : Node[r] = Node[j]})
              <= Cardinality({r \in A : Node[r] = Node[j]})
    BY <1>3, <2>2
  <2> QED BY <2>1, <2>3, ConstantsAssumption
<1>8. CapsRespected'
  BY <1>5, <1>6, <1>7 DEF B, CapsRespected
<1> QED BY <1>4, <1>8 DEF A, B

\* A claim adds one row, for which there was room among the rows it counted.
LEMMA TakeFits ==
  ASSUME TypeOK, CapsRespected, NEW j \in Jobs, NEW lag \in Nat, j \notin Claimed,
         Claimed' \subseteq Claimed \cup {j},
         WithinBudget(j, lag), MaxGlobal > 0 => Cardinality(Claimed) < MaxGlobal
  PROVE  CapsRespected'
<1> DEFINE A == Claimed
           B == Claimed'
<1>2. A \subseteq Jobs /\ B \subseteq A \cup {j} /\ j \notin A
  BY ClaimedInTable
<1>0. A \subseteq Active(lag) /\ Active(lag) \subseteq Jobs
  BY ClaimedCounts DEF Active
<1> HIDE DEF A, B
<1>3. ASSUME NEW S, NEW T, NEW cap \in Nat, S \subseteq A, T \subseteq S \cup {j},
             Cardinality(S) < cap
      PROVE  Cardinality(T) <= cap
  <2>1. IsFiniteSet(S)
    <3>1. S \subseteq Jobs
      BY <1>2, <1>3
    <3> QED BY <3>1, PartCardinality
  <2>2. Cardinality(S) \in Nat
    BY <2>1, FS_CardinalityType
  <2>3. IsFiniteSet(S \cup {j}) /\ Cardinality(S \cup {j}) <= Cardinality(S) + 1
    <3>1. /\ IsFiniteSet(S \cup {j})
          /\ Cardinality(S \cup {j}) = IF j \in S THEN Cardinality(S) ELSE Cardinality(S) + 1
      BY <2>1, FS_AddElement
    <3> QED BY <2>2, <3>1
  <2>4. IsFiniteSet(T) /\ Cardinality(T) <= Cardinality(S \cup {j})
    BY <1>3, <2>3, FS_Subset
  <2>5. Cardinality(T) \in Nat /\ Cardinality(S \cup {j}) \in Nat
    BY <2>3, <2>4, FS_CardinalityType
  <2> QED BY <1>3, <2>2, <2>3, <2>4, <2>5
<1>4. ASSUME NEW S, NEW T, NEW cap \in Nat, S \subseteq A, T \subseteq S,
             Cardinality(S) <= cap
      PROVE  Cardinality(T) <= cap
  <2>1. IsFiniteSet(S)
    <3>1. S \subseteq Jobs
      BY <1>2, <1>4
    <3> QED BY <3>1, PartCardinality
  <2>2. IsFiniteSet(T) /\ Cardinality(T) <= Cardinality(S)
    BY <1>4, <2>1, FS_Subset
  <2> QED BY <1>4, <2>1, <2>2, FS_CardinalityType
<1>5. MaxGlobal > 0 => Cardinality(B) <= MaxGlobal
  <2>1. A \subseteq A /\ B \subseteq A \cup {j} /\ MaxGlobal \in Nat
    BY <1>2, ConstantsAssumption
  <2>2. MaxGlobal > 0 => Cardinality(A) < MaxGlobal
    BY DEF A
  <2> QED BY <1>3, <2>1, <2>2
<1>6. ASSUME NEW i \in Jobs, MaxPerUser > 0, Owner[i] # Nobody
      PROVE  Cardinality({r \in B : Owner[r] = Owner[i]}) <= MaxPerUser
  <2> DEFINE S == {r \in A : Owner[r] = Owner[i]}
             T == {r \in B : Owner[r] = Owner[i]}
  <2> SUFFICES Cardinality(T) <= MaxPerUser  OBVIOUS
  <2>1. S \subseteq A  OBVIOUS
  <2>2. CASE Owner[j] = Owner[i]
    <3> DEFINE C == {r \in Active(lag) : Owner[r] = Owner[i]}
    <3>a. Cardinality(C) < MaxPerUser
      BY <1>6, <2>2 DEF WithinBudget
    <3>b. S \subseteq C /\ C \subseteq Jobs
      BY <1>0
    <3>1. Cardinality(S) < MaxPerUser
      <4> HIDE DEF S, C
      <4>1. /\ Cardinality(S) \in Nat /\ Cardinality(C) \in Nat
            /\ Cardinality(S) <= Cardinality(C)
        BY <3>b, PartCardinality
      <4> QED BY <3>a, <4>1, ConstantsAssumption
    <3>2. T \subseteq S \cup {j}
      BY <1>2
    <3> HIDE DEF S, T
    <3> QED BY <1>3, <2>1, <3>1, <3>2, ConstantsAssumption
  <2>3. CASE Owner[j] # Owner[i]
    <3>1. Cardinality(S) <= MaxPerUser
      BY <1>6 DEF A, CapsRespected
    <3>2. T \subseteq S
      BY <1>2, <2>3
    <3> HIDE DEF S, T
    <3> QED BY <1>4, <2>1, <3>1, <3>2, ConstantsAssumption
  <2> QED BY <2>2, <2>3
<1>7. ASSUME NEW i \in Jobs, MaxPerNode > 0, Node[i] # Nobody
      PROVE  Cardinality({r \in B : Node[r] = Node[i]}) <= MaxPerNode
  <2> DEFINE S == {r \in A : Node[r] = Node[i]}
             T == {r \in B : Node[r] = Node[i]}
  <2> SUFFICES Cardinality(T) <= MaxPerNode  OBVIOUS
  <2>1. S \subseteq A  OBVIOUS
  <2>2. CASE Node[j] = Node[i]
    <3> DEFINE C == {r \in Active(lag) : Node[r] = Node[i]}
    <3>a. Cardinality(C) < MaxPerNode
      BY <1>7, <2>2 DEF WithinBudget
    <3>b. S \subseteq C /\ C \subseteq Jobs
      BY <1>0
    <3>1. Cardinality(S) < MaxPerNode
      <4> HIDE DEF S, C
      <4>1. /\ Cardinality(S) \in Nat /\ Cardinality(C) \in Nat
            /\ Cardinality(S) <= Cardinality(C)
        BY <3>b, PartCardinality
      <4> QED BY <3>a, <4>1, ConstantsAssumption
    <3>2. T \subseteq S \cup {j}
      BY <1>2
    <3> HIDE DEF S, T
    <3> QED BY <1>3, <2>1, <3>1, <3>2, ConstantsAssumption
  <2>3. CASE Node[j] # Node[i]
    <3>1. Cardinality(S) <= MaxPerNode
      BY <1>7 DEF A, CapsRespected
    <3>2. T \subseteq S
      BY <1>2, <2>3
    <3> HIDE DEF S, T
    <3> QED BY <1>4, <2>1, <3>1, <3>2, ConstantsAssumption
  <2> QED BY <2>2, <2>3
<1> QED BY <1>5, <1>6, <1>7 DEF B, CapsRespected

\* A step that keeps the rows and the slots keeps the caps and what was counted.
LEMMA QuietKeeps ==
  ASSUME CapsInv, TypeOK', Revival,
         \A j \in Jobs : RowKept(j), \A s \in Slots : SlotKept(s)
  PROVE  CapsInv'
<1>1. Claimed' \subseteq Claimed
  BY KeptIsClaimed, ClaimedInTable DEF CapsInv
<1>2. /\ CapsRespected'
      /\ Cardinality(Claimed) \in Nat /\ Cardinality(Claimed)' \in Nat
      /\ Cardinality(Claimed)' <= Cardinality(Claimed)
  BY <1>1, ClaimedShrinks DEF CapsInv
<1>3. ASSUME NEW s \in Slots, slot'[s].pc = "counted"
      PROVE  /\ lock' = s
             /\ MaxGlobal > 0 => Cardinality(Claimed)' < MaxGlobal
  <2>1. slot[s].pc = "counted" /\ (lock = s => lock' = s)
    BY <1>3 DEF SlotKept
  <2>2. lock = s /\ (MaxGlobal > 0 => Cardinality(Claimed) < MaxGlobal)
    BY <2>1 DEF CapsInv, CountHolds
  <2> QED BY <1>2, <2>1, <2>2, ConstantsAssumption
<1>4. CountHolds'
  BY <1>3 DEF CountHolds
<1> QED BY <1>2, <1>4 DEF CapsInv

\* The updates of heartbeatJob, completeJob, failJob and failJobTerminal.
LEMMA RowsSame == ASSUME TypeOK, jobs' = jobs PROVE \A j \in Jobs : RowKept(j)
  BY DEF RowKept, TypeOK, Row

LEMMA SlotsSame == ASSUME UNCHANGED <<slot, lock>> PROVE \A s \in Slots : SlotKept(s)
  BY DEF SlotKept

LEMMA RowEnds ==
  ASSUME TypeOK, NEW i \in Jobs, NEW row, row.status # "RUNNING",
         jobs' = [jobs EXCEPT ![i] = row]
  PROVE  \A j \in Jobs : RowKept(j)
  BY DEF RowKept, TypeOK, Row

\* A slot goes on without counting.
LEMMA SlotGoes ==
  ASSUME TypeOK, NEW t \in Slots, NEW sl, sl.pc # "counted",
         slot' = [slot EXCEPT ![t] = sl],
         lock' = lock \/ Unlock(t)
  PROVE  \A s \in Slots : SlotKept(s)
  BY DEF SlotKept, Unlock, TypeOK

\* A heartbeat lands.
LEMMA BeatKeepsRows ==
  ASSUME TypeOK, NEW b \in beats, RenewLease(b), beats' = beats \ {b}
  PROVE  \A j \in Jobs : RowKept(j)
<1>1. b.job \in Jobs /\ b.job \in Beaten
  BY DEF TypeOK, Beat, Beaten
<1>2. jobs \in [Jobs -> Row] /\ \A j \in Jobs : jobs[j].lease <= jobs[j].lease
  BY DEF TypeOK, Row
<1>3. CASE Fenced(b.job, WorkerOf[b.slot])
  BY <1>1, <1>2, <1>3 DEF RenewLease, RowKept, RowOf
<1>4. CASE ~Fenced(b.job, WorkerOf[b.slot])
  BY <1>4, RowsSame DEF RenewLease
<1> QED BY <1>3, <1>4

\* A claim under the lock finds room for the row it takes.
LEMMA TakeKeeps ==
  ASSUME CapsInv, TypeOK', Revival, NEW s \in Slots, ClaimTake(s)
  PROVE  CapsInv'
<1>0. TypeOK /\ jobs \in [Jobs -> Row] /\ slot \in [Slots -> Slot]
  BY DEF CapsInv, TypeOK
<1>1. PICK j \in Eligible(slot[s].lag) :
         /\ jobs' = [jobs EXCEPT ![j] =
                       RowOf("RUNNING", @.attempts + 1, 0,
                             LeaseLen - slot[s].lag, WorkerOf[s], @.stamped)]
         /\ \E sl : sl.pc = "running" /\ slot' = [slot EXCEPT ![s] = sl]
  BY DEF ClaimTake
<1>2. /\ j \in Jobs /\ slot[s].lag \in Nat
      /\ Claimable(j, slot[s].lag) /\ WithinBudget(j, slot[s].lag)
  BY <1>0, <1>1 DEF Eligible, Slot
<1>3. j \notin Claimed
  <2>1. jobs[j].lease \in Int
    BY <1>0, <1>2 DEF Row
  <2> QED BY <1>2, <2>1 DEF Claimable, Claimed, Active
<1>4. Claimed' \subseteq Claimed \cup {j}
  <2>1. ASSUME NEW i \in Claimed', i # j PROVE i \in Claimed
    <3>1. i \in Jobs
      BY <2>1, ClaimedInTable
    <3>2. jobs'[i] = jobs[i] /\ jobs[i].lease \in Int
      BY <1>0, <1>1, <2>1, <3>1 DEF Row
    <3>3. RowKept(i)
      BY <3>2 DEF RowKept
    <3> QED BY <1>0, <2>1, <3>3, KeptIsClaimed
  <2> QED BY <2>1
<1>5. MaxGlobal > 0 => slot[s].pc = "counted" /\ Cardinality(Claimed) < MaxGlobal
  BY DEF ClaimTake, ReadyToTake, CapsOn, CapsInv, CountHolds
<1>6. CapsRespected'
  BY <1>0, <1>2, <1>3, <1>4, <1>5, TakeFits DEF CapsInv
<1>7. ASSUME NEW t \in Slots, slot'[t].pc = "counted"
      PROVE  lock' = t /\ ~(MaxGlobal > 0)
  <2>1. t # s /\ slot[t].pc = "counted"
    BY <1>0, <1>1, <1>7
  <2>2. lock = t
    BY <2>1 DEF CapsInv, CountHolds
  <2>3. ~CapsOn
    BY <2>1, <2>2 DEF ClaimTake, ReadyToTake, CapsInv, CountHolds
  <2> QED BY <2>1, <2>2, <2>3 DEF ClaimTake, Unlock, CapsOn
<1>8. CountHolds'
  BY <1>7 DEF CountHolds
<1> QED BY <1>6, <1>8 DEF CapsInv

\* Counting under the lock: every claimed row is among those counted.
LEMMA CountKeeps ==
  ASSUME CapsInv, TypeOK', Revival, NEW s \in Slots, ClaimCount(s)
  PROVE  CapsInv'
<1>0. TypeOK /\ slot \in [Slots -> Slot]
  BY DEF CapsInv, TypeOK
<1>1. /\ slot' = [slot EXCEPT ![s].pc = "counted"]
      /\ jobs' = jobs /\ lock = Nobody /\ lock' = s
  BY DEF ClaimCount
<1>2. Claimed' \subseteq Claimed
  BY <1>0, <1>1, RowsSame, KeptIsClaimed, ClaimedInTable
<1>3. /\ CapsRespected'
      /\ Cardinality(Claimed) \in Nat /\ Cardinality(Claimed)' \in Nat
      /\ Cardinality(Claimed)' <= Cardinality(Claimed)
  BY <1>2, ClaimedShrinks DEF CapsInv
<1>4. slot[s].lag \in Nat
  BY <1>0 DEF Slot
<1>5. MaxGlobal > 0 => Cardinality(Claimed) < MaxGlobal
  <2>1. Claimed \subseteq Active(slot[s].lag) /\ Active(slot[s].lag) \subseteq Jobs
    BY <1>0, <1>4, ClaimedCounts DEF Active
  <2>2. /\ Cardinality(Claimed) <= Cardinality(Active(slot[s].lag))
        /\ Cardinality(Active(slot[s].lag)) \in Nat
    BY <2>1, PartCardinality
  <2>3. MaxGlobal > 0 => ~(Cardinality(Active(slot[s].lag)) >= MaxGlobal)
    BY DEF ClaimCount, AtGlobalCap
  <2> QED BY <1>3, <2>2, <2>3, ConstantsAssumption
<1>6. MaxGlobal > 0 => Cardinality(Claimed)' < MaxGlobal
  BY <1>3, <1>5, ConstantsAssumption
<1>7. ASSUME NEW t \in Slots, slot'[t].pc = "counted" PROVE t = s
  <2>1. t # s => slot[t].pc = "counted"
    BY <1>0, <1>1, <1>7
  <2> QED BY <1>1, <2>1, ConstantsAssumption DEF CapsInv, CountHolds
<1>8. CountHolds'
  BY <1>1, <1>6, <1>7 DEF CountHolds
<1> QED BY <1>3, <1>8 DEF CapsInv

\* Every step keeps the caps.
LEMMA CapsStep == CapsInv /\ [CapsNext]_<<vars, revived>> => CapsInv'
<1> SUFFICES ASSUME CapsInv, [CapsNext]_<<vars, revived>> PROVE CapsInv'
  OBVIOUS
<1>0. TypeOK /\ TypeOK'
  BY TypeStep DEF CapsInv, CapsNext, vars
<1>t. /\ jobs \in [Jobs -> Row] /\ slot \in [Slots -> Slot]
      /\ \A s \in Slots : Busy(s) => slot[s].job \in Jobs
  BY <1>0 DEF TypeOK
<1>i. IdleSlot.pc = "idle"
  BY DEF IdleSlot
<1>s. CASE UNCHANGED <<vars, revived>>
  <2>1. UNCHANGED <<jobs, slot, lock, revived>>
    BY <1>s DEF vars
  <2> QED BY <1>0, <2>1 DEF CapsInv, CountHolds, CapsRespected, Claimed, Active
<1>n. ASSUME Next, Revival PROVE CapsInv'
  <2> USE <1>n
  <2>1. ASSUME NEW j \in Jobs, JobStep(j) PROVE CapsInv'
    <3>1. \A i \in Jobs : RowKept(i)
      BY <1>0, <2>1, RowEnds DEF JobStep, Enqueue, Cancel, Abandon, RowOf
    <3>2. UNCHANGED <<slot, lock>>
      BY <2>1 DEF JobStep, Enqueue, Cancel, Abandon
    <3> QED BY <1>0, <3>1, <3>2, SlotsSame, QuietKeeps
  <2>2. ASSUME NEW s \in Slots, SlotStep(s) PROVE CapsInv'
    <3>1. CASE ClaimCount(s)
      BY <1>0, <3>1, CountKeeps
    <3>2. CASE ClaimTake(s)
      BY <1>0, <3>2, TakeKeeps
    <3>3. CASE BeatSend(s)
      BY <1>0, <3>3, RowsSame, SlotsSame, QuietKeeps DEF BeatSend
    <3>4. ASSUME jobs' = jobs, NEW sl, sl.pc # "counted",
                 slot' = [slot EXCEPT ![s] = sl], lock' = lock \/ Unlock(s)
          PROVE  CapsInv'
      BY <1>0, <3>4, RowsSame, SlotGoes, QuietKeeps
    <3>5. CASE ClaimBegin(s)
      <4> DEFINE sl == [IdleSlot EXCEPT !.pc = "claiming"]
      <4>1. sl.pc # "counted"
        BY DEF IdleSlot
      <4>2. jobs' = jobs /\ slot' = [slot EXCEPT ![s] = sl] /\ lock' = lock
        BY <3>5 DEF ClaimBegin
      <4> QED BY <3>4, <4>1, <4>2
    <3>6. CASE ClaimCapped(s) \/ ClaimNone(s) \/ ClaimFails(s) \/ RunLost(s) \/ SettleFails(s)
      <4>1. jobs' = jobs /\ slot' = [slot EXCEPT ![s] = IdleSlot] /\ (lock' = lock \/ Unlock(s))
        BY <3>6 DEF ClaimCapped, ClaimNone, ClaimFails, RunLost, SettleFails
      <4> QED BY <1>i, <3>4, <4>1
    <3>7. CASE ExpiryFires(s)
      <4>1. LeaseLost(slot[s]).pc # "counted"
        BY <1>t, <3>7, LeaseLostType DEF ExpiryFires, Running
      <4>2. jobs' = jobs /\ slot' = [slot EXCEPT ![s] = LeaseLost(slot[s])] /\ lock' = lock
        BY <3>7 DEF ExpiryFires
      <4> QED BY <3>4, <4>1, <4>2
    <3>8. CASE RunReturns(s) \/ RunThrows(s)
      <4>1. PICK pc \in {"completing", "failTerminal", "failRead"} :
               slot' = [slot EXCEPT ![s] = [slot[s] EXCEPT !.pc = pc]]
        BY <3>8 DEF RunReturns, RunThrows
      <4>2. [slot[s] EXCEPT !.pc = pc].pc # "counted"
        BY <1>t DEF Slot
      <4>3. jobs' = jobs /\ lock' = lock
        BY <3>8 DEF RunReturns, RunThrows
      <4> QED BY <3>4, <4>1, <4>2, <4>3
    <3>9. CASE FailRead(s)
      <4> DEFINE sl == [pc |-> "failWrite", job |-> slot[s].job, attempt |-> slot[s].attempt,
                        lag |-> 0, deadline |-> slot[s].deadline, lost |-> slot[s].lost,
                        canRetry |-> jobs[slot[s].job].attempts < MaxAttempts[slot[s].job]]
      <4>1. sl.pc # "counted"
        OBVIOUS
      <4>2. jobs' = jobs /\ slot' = [slot EXCEPT ![s] = sl] /\ lock' = lock
        BY <3>9 DEF FailRead
      <4> HIDE DEF sl
      <4> QED BY <3>4, <4>1, <4>2
    <3>10. CASE Complete(s) \/ FailTerminal(s) \/ FailWrite(s)
      <4>1. slot' = [slot EXCEPT ![s] = IdleSlot] /\ lock' = lock
        BY <3>10 DEF Complete, FailTerminal, FailWrite
      <4>2. slot[s].job \in Jobs
        BY <1>t, <3>10 DEF Complete, FailTerminal, FailWrite, Busy, Settling
      <4>3. \/ jobs' = jobs
            \/ \E row : row.status # "RUNNING" /\ jobs' = [jobs EXCEPT ![slot[s].job] = row]
        <5>1. CASE Complete(s)
          BY <5>1 DEF Complete, RowOf
        <5>2. CASE FailTerminal(s)
          BY <5>2 DEF FailTerminal, Failed, RowOf
        <5>3. CASE FailWrite(s)
          BY <5>3 DEF FailWrite, Requeued, Failed, RowOf
        <5> QED BY <3>10, <5>1, <5>2, <5>3
      <4>4. \A j \in Jobs : RowKept(j)
        BY <1>0, <4>2, <4>3, RowsSame, RowEnds
      <4>5. \A t \in Slots : SlotKept(t)
        BY <1>0, <1>i, <4>1, SlotGoes
      <4> QED BY <1>0, <4>4, <4>5, QuietKeeps
    <3> QED BY <2>2, <3>1, <3>2, <3>3, <3>5, <3>6, <3>7, <3>8, <3>9, <3>10 DEF SlotStep
  <2>3. ASSUME NEW b \in beats, BeatStep(b) PROVE CapsInv'
    <3>0. b.slot \in Slots /\ lock' = lock
      BY <1>0, <2>3 DEF TypeOK, Beat, BeatStep, BeatRenews, BeatLoses, BeatUnheard, BeatFails
    <3>1. \A j \in Jobs : RowKept(j)
      <4>1. CASE BeatRenews(b)
        BY <1>0, <4>1, BeatKeepsRows DEF BeatRenews
      <4>2. CASE BeatLoses(b)
        BY <1>0, <4>2, BeatKeepsRows DEF BeatLoses
      <4>3. CASE BeatUnheard(b)
        BY <1>0, <4>3, BeatKeepsRows DEF BeatUnheard
      <4>4. CASE BeatFails(b)
        BY <1>0, <4>4, RowsSame DEF BeatFails
      <4> QED BY <2>3, <4>1, <4>2, <4>3, <4>4 DEF BeatStep
    <3>2. \A t \in Slots : SlotKept(t)
      <4>1. LeaseLost(slot[b.slot]).pc = slot[b.slot].pc
        BY <1>t, <3>0, LeaseLostType
      <4>2. CASE BeatRenews(b)
        BY <1>t, <3>0, <4>2 DEF BeatRenews, SlotKept, Slot
      <4>3. CASE BeatLoses(b)
        BY <1>t, <3>0, <4>1, <4>3 DEF BeatLoses, SlotKept
      <4>4. CASE BeatUnheard(b)
        BY <3>0, <4>4 DEF BeatUnheard, SlotKept
      <4>5. CASE BeatFails(b)
        BY <1>t, <3>0, <4>1, <4>5 DEF BeatFails, SlotKept
      <4> QED BY <2>3, <4>2, <4>3, <4>4, <4>5 DEF BeatStep
    <3> QED BY <1>0, <3>1, <3>2, QuietKeeps
  <2>4. ASSUME NEW w \in Workers, Crash(w) PROVE CapsInv'
    <3>1. \A t \in Slots : SlotKept(t)
      BY <1>t, <1>i, <2>4, ConstantsAssumption DEF Crash, SlotKept
    <3> QED BY <1>0, <2>4, <3>1, RowsSame, QuietKeeps DEF Crash
  <2>5. CASE SweepStep
    <3>1. UNCHANGED <<slot, lock>>
      BY <2>5 DEF SweepStep, SweepReadRetryable, SweepReadExhausted, SweepRequeue,
                  SweepFailExhausted, SweepFails
    <3>2. \A j \in Jobs : jobs'[j] = jobs[j] \/ jobs'[j].status # "RUNNING"
      BY <1>t, <2>5 DEF SweepStep, SweepReadRetryable, SweepReadExhausted, SweepRequeue,
                  SweepFailExhausted, SweepFails, Requeued, Failed, RowOf
    <3>3. \A j \in Jobs : RowKept(j)
      BY <1>t, <3>2 DEF RowKept, Row
    <3> QED BY <1>0, <3>1, <3>3, SlotsSame, QuietKeeps
  <2>6. CASE Tick
    <3>1. \A j \in Jobs : RowKept(j)
      <4>1. ASSUME NEW j \in Jobs, jobs'[j].status = "RUNNING"
            PROVE  /\ jobs[j].status = "RUNNING" /\ jobs'[j].attempts = jobs[j].attempts
                   /\ jobs'[j].lease <= jobs[j].lease
        <5>1. jobs'[j] = TickRow(jobs[j]) /\ jobs[j].lease \in Int
          BY <1>t, <2>6 DEF Tick, Row
        <5>2. /\ jobs[j].status = "RUNNING" /\ jobs'[j].attempts = jobs[j].attempts
              /\ jobs'[j].lease = Down(jobs[j].lease, Expired)
          BY <4>1, <5>1 DEF TickRow, RowOf
        <5> QED BY <5>1, <5>2 DEF Down
      <4> QED BY <4>1 DEF RowKept
    <3>2. \A t \in Slots : SlotKept(t)
      BY <1>t, <2>6 DEF Tick, TickSlot, SlotKept
    <3> QED BY <1>0, <3>1, <3>2, QuietKeeps
  <2> QED BY <2>1, <2>2, <2>3, <2>4, <2>5, <2>6 DEF Next
<1> QED BY <1>s, <1>n DEF CapsNext

\* Nothing runs at first.
LEMMA CapsHoldAtFirst == CapsInit => CapsInv
<1> SUFFICES ASSUME CapsInit PROVE CapsInv
  OBVIOUS
<1>1. TypeOK
  BY InitInv DEF CapsInit, IInv
<1>2. \A s \in Slots : slot[s].pc = "idle"
  BY DEF CapsInit, Init, IdleSlot
<1>3. Claimed = {}
  BY DEF CapsInit, Init, RowOf, Claimed, Active
<1>4. /\ \A j : {r \in Claimed : Owner[r] = Owner[j]} = {}
      /\ \A j : {r \in Claimed : Node[r] = Node[j]} = {}
  BY <1>3
<1>5. Cardinality({}) = 0
  BY FS_EmptySet
<1>6. CapsRespected
  BY <1>3, <1>4, <1>5, ConstantsAssumption DEF CapsRespected
<1> QED BY <1>1, <1>2, <1>6 DEF CapsInv, CountHolds

\* The caps of JOB_MAX_CONCURRENT_* hold for all of them at once, any number of
\* processes and workerIds and any table: claims count under one advisory lock,
\* and a row comes under a live lease by a claim that has counted, or by a late
\* heartbeat that revives it; late calls or not, there is no third way.
THEOREM CapsKept == CapsSpec => []CapsRespected
<1>1. CapsInit => CapsInv
  BY CapsHoldAtFirst
<1>2. CapsInv /\ [CapsNext]_<<vars, revived>> => CapsInv'
  BY CapsStep
<1>3. CapsInv => CapsRespected
  BY DEF CapsInv
<1> QED BY <1>1, <1>2, <1>3, PTL DEF CapsSpec
=============================================================================

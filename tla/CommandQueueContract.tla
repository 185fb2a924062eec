------------------------ MODULE CommandQueueContract ------------------------
(***************************************************************************)
(* Two theorems about steps of CommandQueue, for every value of its         *)
(* constants: the pump starts work only within the lane's limit, and every  *)
(* step is a step of the contract of the callers (CallContract) or leaves   *)
(* what they see unchanged.                                                *)
(***************************************************************************)
EXTENDS CommandQueueProofs

(***************************************************************************)
(* The pump and the limit                                                  *)
(***************************************************************************)
\* If the pump starts anything in a lane, the lane is within its limit after.
LEMMA PumpRespectsLimit ==
  ASSUME NEW q \in Seq(Entries), NEW act \in SUBSET Entries, NEW m \in Nat,
         Started(q, act, m) # {}
  PROVE  Cardinality(act \cup Started(q, act, m)) <= m
  <1> DEFINE k == StartCount(q, act, m)
             S == Started(q, act, m)
  <1>1. k \in 0..Len(q) /\ Len(q) \in Nat /\ S \subseteq Entries
    BY PumpShape, LenProperties
  <1>2. S = {q[i] : i \in 1..k}
    BY DEF Started
  <1>3. Cardinality(act) \in Nat /\ IsFiniteSet(act) /\ IsFiniteSet(S) /\ Cardinality(S) \in Nat
    BY <1>1, SlotsFinite
  <1>4. k >= 1 /\ k <= Room(act, m)
    <2>1. Room(act, m) \in Nat
      BY <1>3 DEF Room
    <2>2. k # 0
      BY <1>2
    <2>3. k <= Room(act, m)
      BY <1>1, <2>1 DEF StartCount
    <2>4. QED
      BY <1>1, <2>2, <2>3
  <1>5. k <= m - Cardinality(act)
    BY <1>1, <1>3, <1>4 DEF Room
  <1>6. Cardinality(S) <= k
    <2>1. k \in Nat
      BY <1>1
    <2> HIDE DEF k, S
    <2>2. [i \in 1..k |-> q[i]] \in Surjection(1..k, S)
      BY <1>2 DEF Surjection
    <2>3. QED
      BY <2>1, <2>2, FS_SurjCardinalityBound DEF ExistsSurjection
  <1> HIDE DEF k, S
  <1>7. Cardinality(act \cup S) <= Cardinality(act) + Cardinality(S)
    <2>1. IsFiniteSet(act \cap S) /\ Cardinality(act \cap S) \in Nat
      BY <1>3, FS_Subset, FS_CardinalityType
    <2>2. Cardinality(act \cup S) = Cardinality(act) + Cardinality(S) - Cardinality(act \cap S)
      BY <1>3, FS_Union
    <2>3. QED
      BY <1>3, <2>1, <2>2
  <1>8. Cardinality(act \cup S) \in Nat
    BY <1>1, SlotsFinite
  <1>9. QED
    BY <1>1, <1>3, <1>5, <1>6, <1>7, <1>8 DEF S

\* No slot is taken past the limit of the moment.
WithinLimit ==
  \A l \in Lanes : active'[l] \ active[l] # {} => Cardinality(active'[l]) <= maxConcurrent'[l]

LEMMA PumpKeepsLimit ==
  ASSUME TypeOK, NEW P \in SUBSET Lanes, NEW q \in [Lanes -> Seq(Entries)],
         NEW act \in [Lanes -> SUBSET Entries], NEW gen \in [Lanes -> Nat],
         NEW bod \in [Entries -> BodyStates], maxConcurrent' \in [Lanes -> Nat],
         DrainLanes(P, q, act, maxConcurrent', gen, bod),
         \A l \in Lanes : act[l] \subseteq active[l]
  PROVE  WithinLimit
  <1> SUFFICES ASSUME NEW l \in Lanes, active'[l] \ active[l] # {}
               PROVE  Cardinality(active'[l]) <= maxConcurrent'[l]
    BY DEF WithinLimit
  <1>1. PumpEffect(P, q, act, maxConcurrent', gen, bod)
    BY DrainEffect DEF TypeOK
  <1>2. l \in P
    BY <1>1 DEF PumpEffect
  <1>3. active'[l] = act[l] \cup Started(q[l], act[l], maxConcurrent'[l])
    BY <1>1, <1>2 DEF PumpEffect
  <1>4. Started(q[l], act[l], maxConcurrent'[l]) # {}
    BY <1>3
  <1>5. q[l] \in Seq(Entries) /\ act[l] \in SUBSET Entries /\ maxConcurrent'[l] \in Nat
    OBVIOUS
  <1>6. QED
    BY <1>3, <1>4, <1>5, PumpRespectsLimit

(***************************************************************************)
(* The pump and the contract                                               *)
(***************************************************************************)
\* What the pump does to the lanes it drains, the contract allows: a part at
\* the front of each line begins.
LEMMA PumpBegins ==
  ASSUME NEW P \in SUBSET Lanes, NEW q \in [Lanes -> Seq(Entries)],
         NEW act \in [Lanes -> SUBSET Entries], NEW max \in [Lanes -> Nat],
         NEW gen \in [Lanes -> Nat], NEW bod \in [Entries -> BodyStates],
         DrainLanes(P, q, act, max, gen, bod)
  PROVE  Contract!Begin(q, bod)
  <1> DEFINE n == [l \in Lanes |-> IF l \in P THEN StartCount(q[l], act[l], max[l]) ELSE 0]
  <1>1. \A l \in Lanes : StartCount(q[l], act[l], max[l]) \in 0..Len(q[l])
    BY PumpShape
  <1>3. \A l \in Lanes : n[l] \in 0..Len(q[l])
    <2>1. \A l \in Lanes : Len(q[l]) \in Nat
      BY LenProperties
    <2>2. QED
      BY <1>1, <2>1
  <1>4. n \in [Lanes -> UNION {0..Len(q[l]) : l \in Lanes}]
    BY <1>3
  <1>5. queue' = [l \in Lanes |-> SubSeq(q[l], n[l] + 1, Len(q[l]))]
    <2>1. \A l \in Lanes : SubSeq(q[l], 0 + 1, Len(q[l])) = q[l]
      BY SubSeqFull
    <2>2. QED
      BY <2>1 DEF DrainLanes
  <1>6. body' = [c \in Entries |->
          IF \E i \in 1..n[LaneOf[c]] : q[LaneOf[c]][i] = c THEN "running" ELSE bod[c]]
    <2>1. \A c \in Entries : LaneOf[c] \in Lanes
      BY QueueAssumption
    <2>2. \A l \in Lanes : n[l] = IF l \in P THEN StartCount(q[l], act[l], max[l]) ELSE 0
      OBVIOUS
    <2> HIDE DEF n
    <2>3. \A c \in Entries :
            (c \in IF LaneOf[c] \in P
                   THEN Started(q[LaneOf[c]], act[LaneOf[c]], max[LaneOf[c]]) ELSE {})
            <=> \E i \in 1..n[LaneOf[c]] : q[LaneOf[c]][i] = c
      BY <2>1, <2>2 DEF Started
    <2>4. QED
      BY <2>3 DEF DrainLanes
  <1> HIDE DEF n
  <1>7. \A l \in Lanes : n[l] <= Len(q[l])
    BY <1>3, LenProperties
  <1>8. QED
    BY <1>4, <1>5, <1>6, <1>7 DEF Contract!Begin

\* A handler that pumps nothing begins nothing.
LEMMA NothingBegins ==
  ASSUME queue \in [Lanes -> Seq(Entries)], NEW bod \in [Entries -> BodyStates],
         queue' = queue, body' = bod
  PROVE  Contract!Begin(queue, bod)
  <1> DEFINE n == [l \in Lanes |-> 0]
  <1>1. n \in [Lanes -> UNION {0..Len(queue[l]) : l \in Lanes}]
    BY LenProperties
  <1>2. queue' = [l \in Lanes |-> SubSeq(queue[l], n[l] + 1, Len(queue[l]))]
    <2>1. \A l \in Lanes : SubSeq(queue[l], 0 + 1, Len(queue[l])) = queue[l]
      BY SubSeqFull
    <2>2. QED
      BY <2>1
  <1>3. body' = [c \in Entries |->
          IF \E i \in 1..n[LaneOf[c]] : queue[LaneOf[c]][i] = c THEN "running" ELSE bod[c]]
    BY QueueAssumption
  <1>4. \A l \in Lanes : n[l] <= Len(queue[l])
    BY LenProperties
  <1> HIDE DEF n
  <1>5. QED
    BY <1>1, <1>2, <1>3, <1>4 DEF Contract!Begin

(***************************************************************************)
(* The steps                                                               *)
(***************************************************************************)
LEMMA Types ==
  ASSUME TypeOK
  PROVE  /\ queue \in [Lanes -> Seq(Entries)] /\ active \in [Lanes -> SUBSET Entries]
         /\ maxConcurrent \in [Lanes -> Nat] /\ generation \in [Lanes -> Nat]
         /\ body \in [Entries -> BodyStates]
         /\ \A e \in Entries : LaneOf[e] \in Lanes
  BY QueueAssumption DEF TypeOK

LEMMA EnqueueIsAccept ==
  ASSUME TypeOK, NEW e \in Entries, EnqueueCommandInLane(e)
  PROVE  Contract!Accept(e) /\ WithinLimit
  <1> DEFINE q == [queue EXCEPT ![LaneOf[e]] = Append(@, e)]
  <1>1. /\ promise[e] = "none" /\ promise' = [promise EXCEPT ![e] = "pending"]
        /\ maxConcurrent' = maxConcurrent
        /\ DrainLanes({LaneOf[e]}, q, active, maxConcurrent, generation, body)
    BY DEF EnqueueCommandInLane, laneVars
  <1>2. q \in [Lanes -> Seq(Entries)] /\ {LaneOf[e]} \in SUBSET Lanes
    BY Types
  <1> HIDE DEF q
  <1>3. Contract!Begin(q, body)
    BY <1>1, <1>2, Types, PumpBegins
  <1>4. WithinLimit
    BY <1>1, <1>2, Types, PumpKeepsLimit
  <1>5. QED
    BY <1>1, <1>3, <1>4 DEF q, Contract!Accept

\* A completion lets the contract go on, and of an earlier generation too.
LEMMA CompletionBegins ==
  ASSUME TypeOK, NEW e \in Entries, NEW bod \in [Entries -> BodyStates],
         CompleteTask(e, bod), maxConcurrent' = maxConcurrent
  PROVE  Contract!Begin(queue, bod) /\ WithinLimit
  <1> DEFINE act == [active EXCEPT ![LaneOf[e]] = @ \ {e}]
  <1>1. CASE taskGeneration[e] = generation[LaneOf[e]]
    <2>1. DrainLanes({LaneOf[e]}, queue, act, maxConcurrent, generation, bod)
      BY <1>1 DEF CompleteTask
    <2>2. /\ act \in [Lanes -> SUBSET Entries] /\ {LaneOf[e]} \in SUBSET Lanes
          /\ \A l \in Lanes : act[l] \subseteq active[l]
      BY Types
    <2> HIDE DEF act
    <2>3. Contract!Begin(queue, bod)
      BY <2>1, <2>2, Types, PumpBegins
    <2>4. QED
      BY <2>1, <2>2, <2>3, Types, PumpKeepsLimit
  <1>2. CASE taskGeneration[e] # generation[LaneOf[e]]
    <2>1. queue' = queue /\ active' = active /\ body' = bod
      BY <1>2 DEF CompleteTask
    <2>2. QED
      BY <2>1, Types, NothingBegins DEF WithinLimit
  <1>3. QED
    BY <1>1, <1>2

LEMMA SettleIsFinish ==
  ASSUME TypeOK, NEW e \in Entries, NEW outcome \in {"resolved", "rejected"},
         SettleTask(e, outcome)
  PROVE  Contract!Finish(e) /\ WithinLimit
  <1> DEFINE bod == [body EXCEPT ![e] = "settled"]
  <1>1. /\ body[e] = "running" /\ promise[e] = "pending"
        /\ promise' = [promise EXCEPT ![e] = outcome]
        /\ CompleteTask(e, bod) /\ maxConcurrent' = maxConcurrent
    BY DEF SettleTask, laneVars
  <1>2. bod \in [Entries -> BodyStates]
    BY Types DEF BodyStates
  <1> HIDE DEF bod
  <1>3. Contract!Begin(queue, bod) /\ WithinLimit
    BY <1>1, <1>2, CompletionBegins
  <1>4. QED
    BY <1>1, <1>3 DEF bod, Contract!Finish

LEMMA TimeoutIsGiveUp ==
  ASSUME TypeOK, NEW e \in Entries, TaskTimeout(e)
  PROVE  Contract!GiveUp(e) /\ WithinLimit
  <1>1. /\ e \in Timed /\ body[e] = "running" /\ promise[e] = "pending"
        /\ promise' = [promise EXCEPT ![e] = "timedOut"]
        /\ CompleteTask(e, body) /\ maxConcurrent' = maxConcurrent
    BY DEF TaskTimeout, laneVars
  <1>2. Contract!Begin(queue, body) /\ WithinLimit
    BY <1>1, Types, CompletionBegins
  <1>3. QED
    BY <1>1, <1>2 DEF Contract!GiveUp

LEMMA RaiseIsProceed ==
  ASSUME TypeOK, NEW l \in Lanes, NEW n \in Levels, SetCommandLaneConcurrency(l, n)
  PROVE  Contract!Proceed /\ WithinLimit
  <1> DEFINE max == [maxConcurrent EXCEPT ![l] = Clamp(l, n)]
             P == IF max[l] > 0 THEN {l} ELSE {}
  <1>1. /\ maxConcurrent' = max /\ promise' = promise
        /\ DrainLanes(P, queue, active, max, generation, body)
    BY DEF SetCommandLaneConcurrency
  <1>2. max \in [Lanes -> Nat]
    <2>1. Clamp(l, n) \in Nat
      BY QueueAssumption DEF Clamp
    <2>2. QED
      BY <2>1, Types
  <1>3. P \in SUBSET Lanes
    OBVIOUS
  <1> HIDE DEF max, P
  <1>4. Contract!Begin(queue, body)
    BY <1>1, <1>2, <1>3, Types, PumpBegins
  <1>5. WithinLimit
    BY <1>1, <1>2, <1>3, Types, PumpKeepsLimit
  <1>6. QED
    BY <1>1, <1>4, <1>5 DEF Contract!Proceed

LEMMA ResetIsProceed ==
  ASSUME TypeOK, NEW P \in SUBSET Lanes, ResetLanes(P)
  PROVE  Contract!Proceed /\ WithinLimit
  <1> DEFINE act == [l \in Lanes |-> IF l \in P THEN {} ELSE active[l]]
             gen == [l \in Lanes |-> IF l \in P THEN generation[l] + 1 ELSE generation[l]]
  <1>1. /\ maxConcurrent' = maxConcurrent /\ promise' = promise
        /\ DrainLanes(P, queue, act, maxConcurrent, gen, body)
    BY DEF ResetLanes
  <1>2. /\ act \in [Lanes -> SUBSET Entries] /\ gen \in [Lanes -> Nat]
        /\ \A l \in Lanes : act[l] \subseteq active[l]
    BY Types
  <1> HIDE DEF act, gen
  <1>3. Contract!Begin(queue, body)
    BY <1>1, <1>2, Types, PumpBegins
  <1>4. WithinLimit
    BY <1>1, <1>2, Types, PumpKeepsLimit
  <1>5. QED
    BY <1>1, <1>3, <1>4 DEF Contract!Proceed

LEMMA ClearIsDismiss ==
  ASSUME NEW l \in Lanes, ClearCommandLane(l)
  PROVE  Contract!Dismiss(l) /\ WithinLimit
  BY DEF ClearCommandLane, Queued, Contract!Dismiss, WithinLimit

\* The rest starts nothing, and its callers see a refusal, a late end or
\* nothing at all.
LEMMA QuietSteps ==
  /\ \A e \in Entries : RefuseEnqueue(e) => Contract!Refuse(e) /\ WithinLimit
  /\ \A e \in Entries : SettleLate(e) => Contract!EndLate(e) /\ WithinLimit
  /\ (\E w \in Waiters : WaiterStep(w)) \/ MarkGatewayDraining \/ UNCHANGED vars
       => UNCHANGED Contract!vars /\ WithinLimit
  <1>1. \A e \in Entries : RefuseEnqueue(e) => Contract!Refuse(e) /\ WithinLimit
    BY DEF RefuseEnqueue, Contract!Refuse, WithinLimit
  <1>2. \A e \in Entries : SettleLate(e) => Contract!EndLate(e) /\ WithinLimit
    BY DEF SettleLate, Contract!EndLate, WithinLimit
  <1>3. ASSUME NEW w \in Waiters, WaiterStep(w)
        PROVE  UNCHANGED Contract!vars /\ WithinLimit
    BY <1>3 DEF WaiterStep, WaitForActiveTasks, WaiterTimeout, Contract!vars, WithinLimit
  <1>4. ASSUME MarkGatewayDraining \/ UNCHANGED vars
        PROVE  UNCHANGED Contract!vars /\ WithinLimit
    BY <1>4 DEF MarkGatewayDraining, vars, Contract!vars, WithinLimit
  <1>5. QED
    BY <1>1, <1>2, <1>3, <1>4

LEMMA StepByStep ==
  ASSUME TypeOK, [Next]_vars
  PROVE  [Contract!Next]_(Contract!vars) /\ WithinLimit
  <1>1. ASSUME NEW e \in Entries, EntryStep(e)
        PROVE  Contract!Next /\ WithinLimit
    <2>1. CASE EnqueueCommandInLane(e)
      BY <2>1, EnqueueIsAccept DEF Contract!Next
    <2>2. CASE RefuseEnqueue(e) \/ SettleLate(e)
      BY <2>2, QuietSteps DEF Contract!Next
    <2>3. ASSUME NEW outcome \in {"resolved", "rejected"}, SettleTask(e, outcome)
          PROVE  Contract!Next /\ WithinLimit
      BY <2>3, SettleIsFinish DEF Contract!Next
    <2>4. CASE TaskTimeout(e)
      BY <2>4, TimeoutIsGiveUp DEF Contract!Next
    <2>5. QED
      BY <1>1, <2>1, <2>2, <2>3, <2>4 DEF EntryStep
  <1>2. ASSUME NEW l \in Lanes, LaneStep(l)
        PROVE  Contract!Next /\ WithinLimit
    <2>1. ASSUME NEW n \in Levels, SetCommandLaneConcurrency(l, n)
          PROVE  Contract!Next /\ WithinLimit
      BY <2>1, RaiseIsProceed DEF Contract!Next
    <2>2. CASE ClearCommandLane(l)
      BY <2>2, ClearIsDismiss DEF Contract!Next
    <2>3. CASE ResetCommandLane(l)
      BY <2>3, ResetIsProceed DEF ResetCommandLane, Contract!Next
    <2>4. QED
      BY <1>2, <2>1, <2>2, <2>3 DEF LaneStep
  <1>3. CASE ResetAllLanes
    BY <1>3, ResetIsProceed DEF ResetAllLanes, Contract!Next
  <1>4. CASE (\E w \in Waiters : WaiterStep(w)) \/ MarkGatewayDraining \/ UNCHANGED vars
    BY <1>4, QuietSteps
  <1>5. QED
    BY <1>1, <1>2, <1>3, <1>4 DEF Next

\* The pump starts work only within the limit of the moment, also in the step
\* that lowers it, resets the lane or times a task out (drainLane's loop).
THEOREM PumpStaysWithinLimit == Spec => PumpWithinLimit
  <1>1. TypeOK /\ [Next]_vars
          => [\A l \in Lanes : active'[l] \ active[l] # {} =>
                Cardinality(active'[l]) <= maxConcurrent'[l]]_vars
    BY StepByStep DEF WithinLimit
  <1>2. QED
    BY <1>1, TypeCorrect, PTL DEF Spec, PumpWithinLimit

\* The queue implements the contract of its callers: calls of a lane begin in
\* the order they were accepted and at most once, and every promise is
\* answered once, with what happened (enqueueCommandInLane, drainLane).
THEOREM QueueImplementsContract == Spec => ImplementsContract
  <1>1. Init => Contract!Init
    BY DEF Init, IdleLanes, Contract!Init
  <1>2. TypeOK /\ [Next]_vars => [Contract!Next]_(Contract!vars)
    BY StepByStep
  <1>3. QED
    BY <1>1, <1>2, TypeCorrect, PTL DEF Spec, ImplementsContract, Contract!Spec

=============================================================================

-------------------------- MODULE AgentLanesProofs --------------------------
(***************************************************************************)
(* Theorems about AgentLanes, for any number of lanes, sessions, calls and  *)
(* chains of calls.  Every step of the runs is a step of the command queue, *)
(* except the reload of the limits, which pumps several lanes at once; so   *)
(* the invariant of the queue is taken from CommandQueueProofs.            *)
(***************************************************************************)
EXTENDS AgentLanes, FiniteSetTheorems, SequenceTheorems, TLAPS

\* The queue's theorems, for the lanes and calls of the agents.
Q == INSTANCE CommandQueueContract
       WITH LaneOf <- LaneOfCall, ProbeLanes <- {}, Levels <- Limits \cup {0}

LEMMA LanesOfCalls == \A e \in Entries : LaneOfCall[e] \in Lanes
  BY AgentAssumption DEF LaneOfCall, ResolveGlobalLane

LEMMA QueueConstants == Q!QueueAssumption
  <1>1. Q!IsFiniteSet(Entries)
    BY AgentAssumption DEF Q!IsFiniteSet, IsFiniteSet
  <1>2. LaneOfCall \in [Entries -> Lanes]
    BY LanesOfCalls DEF LaneOfCall
  <1>3. Timed \subseteq Entries /\ Limits \cup {0} \subseteq Int
        /\ TimedWaiters \subseteq Waiters /\ MaxGeneration \in Nat
    BY AgentAssumption
  <1>4. QED
    BY <1>1, <1>2, <1>3 DEF Q!QueueAssumption

LEMMA SameSize == \A S : Q!Cardinality(S) = Cardinality(S)
  BY DEF Q!Cardinality, Cardinality

(***************************************************************************)
(* The definitions of the two instances of CommandQueue agree.             *)
(***************************************************************************)
LEMMA SamePump ==
  ASSUME NEW q, NEW act, NEW max
  PROVE  /\ Q!StartCount(q, act, max) = StartCount(q, act, max)
         /\ Q!Started(q, act, max) = Started(q, act, max)
  BY SameSize DEF Q!Started, Started, Q!StartCount, StartCount, Q!Room, Room

LEMMA SameDrain ==
  ASSUME NEW P, NEW q, NEW act, NEW max, NEW gen, NEW bod
  PROVE  DrainLanes(P, q, act, max, gen, bod) <=> Q!DrainLanes(P, q, act, max, gen, bod)
  BY SamePump DEF Q!DrainLanes, DrainLanes

LEMMA SameType == TypeOK <=> Q!TypeOK
  BY DEF Q!TypeOK, TypeOK, Q!BodyStates, BodyStates, Q!Outcomes, Outcomes,
         Q!WaiterStates, WaiterStates

LEMMA SameInv == QueueInv <=> Q!QueueInv
  <1>1. (QueuedOnce <=> Q!QueuedOnce) /\ (SlotsAreOwned <=> Q!SlotsAreOwned)
    BY DEF Q!QueuedOnce, QueuedOnce, Q!SlotsAreOwned, SlotsAreOwned
  <1>2. (PendingAccounted <=> Q!PendingAccounted) /\ (OnlyAcceptedRun <=> Q!OnlyAcceptedRun)
    BY DEF Q!PendingAccounted, PendingAccounted, Q!OnlyAcceptedRun, OnlyAcceptedRun,
           Q!Queued, Queued
  <1>3. WorkConserving <=> Q!WorkConserving
    BY SameSize DEF Q!WorkConserving, WorkConserving
  <1>4. WaitersHaveCause <=> Q!WaitersHaveCause
    BY DEF Q!WaitersHaveCause, WaitersHaveCause, Q!AllActive, AllActive
  <1>5. QED
    BY SameType, <1>1, <1>2, <1>3, <1>4 DEF Q!QueueInv, QueueInv

LEMMA SameInvNext == QueueInv' <=> Q!QueueInv'
  BY SameInv, PTL

LEMMA SameComplete ==
  ASSUME NEW e, NEW bod
  PROVE  CompleteTask(e, bod) <=> Q!CompleteTask(e, bod)
  BY SameDrain DEF CompleteTask, Q!CompleteTask, NotifyActiveTaskWaiters,
       Q!NotifyActiveTaskWaiters, AllActive, Q!AllActive, waitVars, Q!waitVars

LEMMA SameEntryStep ==
  ASSUME NEW e
  PROVE  /\ EnqueueCommandInLane(e) <=> Q!EnqueueCommandInLane(e)
         /\ RefuseEnqueue(e) <=> Q!RefuseEnqueue(e)
         /\ \A outcome : SettleTask(e, outcome) <=> Q!SettleTask(e, outcome)
         /\ TaskTimeout(e) <=> Q!TaskTimeout(e)
         /\ SettleLate(e) <=> Q!SettleLate(e)
  <1>1. EnqueueCommandInLane(e) <=> Q!EnqueueCommandInLane(e)
    BY SameDrain DEF EnqueueCommandInLane, Q!EnqueueCommandInLane, laneVars, Q!laneVars,
         waitVars, Q!waitVars
  <1>2. /\ RefuseEnqueue(e) <=> Q!RefuseEnqueue(e)
        /\ SettleLate(e) <=> Q!SettleLate(e)
    BY DEF RefuseEnqueue, Q!RefuseEnqueue, SettleLate, Q!SettleLate, laneVars, Q!laneVars,
         waitVars, Q!waitVars
  <1>3. \A outcome : SettleTask(e, outcome) <=> Q!SettleTask(e, outcome)
    BY SameComplete DEF SettleTask, Q!SettleTask, laneVars, Q!laneVars
  <1>4. TaskTimeout(e) <=> Q!TaskTimeout(e)
    BY SameComplete DEF TaskTimeout, Q!TaskTimeout, laneVars, Q!laneVars
  <1>5. QED
    BY <1>1, <1>2, <1>3, <1>4

LEMMA SameControl ==
  /\ \A l, n : SetCommandLaneConcurrency(l, n) <=> Q!SetCommandLaneConcurrency(l, n)
  /\ \A l : ResetCommandLane(l) <=> Q!ResetCommandLane(l)
  /\ ResetAllLanes <=> Q!ResetAllLanes
  /\ MarkGatewayDraining <=> Q!MarkGatewayDraining
  <1>1. ASSUME NEW l, NEW n
        PROVE  SetCommandLaneConcurrency(l, n) <=> Q!SetCommandLaneConcurrency(l, n)
    BY SameDrain DEF SetCommandLaneConcurrency, Q!SetCommandLaneConcurrency, Clamp, Q!Clamp,
         waitVars, Q!waitVars
  <1>2. ASSUME NEW P
        PROVE  ResetLanes(P) <=> Q!ResetLanes(P)
    BY SameDrain DEF ResetLanes, Q!ResetLanes, NotifyActiveTaskWaiters,
         Q!NotifyActiveTaskWaiters, AllActive, Q!AllActive
  <1>3. \A l : ResetCommandLane(l) <=> Q!ResetCommandLane(l)
    BY <1>2 DEF ResetCommandLane, Q!ResetCommandLane
  <1>4. ResetAllLanes <=> Q!ResetAllLanes
    BY <1>2 DEF ResetAllLanes, Q!ResetAllLanes
  <1>5. MarkGatewayDraining <=> Q!MarkGatewayDraining
    BY DEF MarkGatewayDraining, Q!MarkGatewayDraining, waitVars, Q!waitVars
  <1>6. QED
    BY <1>1, <1>3, <1>4, <1>5

LEMMA SameWaiterStep ==
  ASSUME NEW w
  PROVE  /\ \A answer : WaitForActiveTasks(w, answer) <=> Q!WaitForActiveTasks(w, answer)
         /\ WaiterTimeout(w) <=> Q!WaiterTimeout(w)
  BY DEF WaitForActiveTasks, Q!WaitForActiveTasks, WaiterTimeout, Q!WaiterTimeout,
       AllActive, Q!AllActive, laneVars, Q!laneVars

LEMMA QueueFromParts == Q!TypeOK /\ Q!Core /\ Q!WaitersHaveCause => Q!QueueInv
  BY QueueConstants, Q!CoreIsInvariant DEF Q!QueueInv

(***************************************************************************)
(* What a step of the queue does to the agents' invariant                  *)
(***************************************************************************)
\* The step keeps the queue's invariant and starts work within the limits.
QueueKept ==
  /\ QueueInv'
  /\ \A l \in Lanes : active'[l] \ active[l] # {} =>
       Cardinality(active'[l]) <= maxConcurrent'[l]

LEMMA QueueStepsKeep ==
  ASSUME QueueInv, [Q!Next]_(Q!vars)
  PROVE  QueueKept
  <1>1. Q!QueueInv
    BY SameInv
  <1>2. Q!QueueInv'
    BY <1>1, QueueConstants, Q!NextQueueInv
  <1>3. Q!WithinLimit
    <2>1. Q!TypeOK
      BY <1>1 DEF Q!QueueInv
    <2>2. QED
      BY <2>1, QueueConstants, Q!StepByStep
  <1>4. QED
    BY <1>2, <1>3, SameInvNext, SameSize DEF Q!WithinLimit, QueueKept

\* A body is as the handler left it, or the pump has begun it in its lane.
BodiesFrom(bod) ==
  \A e \in Entries :
    \/ body'[e] = bod[e]
    \/ body'[e] = "running" /\ e \in active'[LaneOfCall[e]]

LEMMA PumpBodies ==
  ASSUME NEW P, NEW q, NEW act, NEW max, NEW gen, NEW bod,
         DrainLanes(P, q, act, max, gen, bod)
  PROVE  BodiesFrom(bod)
  BY LanesOfCalls DEF DrainLanes, BodiesFrom

LEMMA CompletionBodies ==
  ASSUME NEW e, NEW bod, CompleteTask(e, bod)
  PROVE  BodiesFrom(bod)
  <1>1. CASE taskGeneration[e] = generation[LaneOfCall[e]]
    BY <1>1, PumpBodies DEF CompleteTask
  <1>2. CASE taskGeneration[e] # generation[LaneOfCall[e]]
    BY <1>2 DEF CompleteTask, BodiesFrom
  <1>3. QED
    BY <1>1, <1>2

\* What each call of the queue does to bodies, promises and limits.
LEMMA EnqueueEffect ==
  ASSUME NEW e, Enqueue(e)
  PROVE  /\ promise[e] = "none" /\ BodiesFrom(body)
         /\ \/ promise' = [promise EXCEPT ![e] = "pending"]
            \/ promise' = [promise EXCEPT ![e] = "refused"]
         /\ maxConcurrent' = maxConcurrent
  <1>1. CASE EnqueueCommandInLane(e)
    BY <1>1, PumpBodies DEF EnqueueCommandInLane, laneVars
  <1>2. CASE RefuseEnqueue(e)
    BY <1>2 DEF RefuseEnqueue, BodiesFrom, laneVars
  <1>3. QED
    BY <1>1, <1>2 DEF Enqueue

LEMMA SettleEffect ==
  ASSUME NEW e, NEW outcome, SettleTask(e, outcome)
  PROVE  /\ body[e] = "running" /\ promise[e] = "pending"
         /\ promise' = [promise EXCEPT ![e] = outcome]
         /\ BodiesFrom([body EXCEPT ![e] = "settled"])
         /\ maxConcurrent' = maxConcurrent
  BY CompletionBodies DEF SettleTask, laneVars

LEMMA TimeoutEffect ==
  ASSUME NEW e, TaskTimeout(e)
  PROVE  /\ body[e] = "running" /\ promise[e] = "pending"
         /\ promise' = [promise EXCEPT ![e] = "timedOut"]
         /\ BodiesFrom(body)
         /\ maxConcurrent' = maxConcurrent
  BY CompletionBodies DEF TaskTimeout, laneVars

LEMMA LimitEffect ==
  ASSUME NEW l, NEW n \in Limits \cup {0}, SetCommandLaneConcurrency(l, n)
  PROVE  /\ maxConcurrent' = [maxConcurrent EXCEPT ![l] = n]
         /\ promise' = promise /\ BodiesFrom(body)
  <1>1. Clamp(l, n) = n
    BY AgentAssumption DEF Clamp
  <1>2. BodiesFrom(body)
    BY PumpBodies DEF SetCommandLaneConcurrency
  <1>3. QED
    BY <1>1, <1>2 DEF SetCommandLaneConcurrency

LEMMA ResetEffect ==
  ASSUME NEW P, ResetLanes(P)
  PROVE  maxConcurrent' = maxConcurrent /\ promise' = promise /\ BodiesFrom(body)
  BY PumpBodies DEF ResetLanes

(***************************************************************************)
(* The agents' part of the invariant after a step                          *)
(***************************************************************************)
UserType ==
  /\ configured \in Configurations
  /\ loaded \in [GlobalLanes -> SUBSET Limits]
  /\ resumeTimer \in [Lanes -> {0} \cup Limits]
  /\ reloads \in 0..MaxReloads
  /\ suspensions \in 0..MaxSuspensions

LEMMA SlotsKept ==
  ASSUME AgentInv, QueueKept,
         \A l \in SessionLanes : maxConcurrent'[l] = maxConcurrent[l] /\ resumeTimer'[l] = 0
  PROVE  OneSlotPerSession'
  <1> SUFFICES ASSUME NEW l \in SessionLanes
               PROVE  maxConcurrent'[l] = 1 /\ resumeTimer'[l] = 0 /\ Cardinality(active'[l]) <= 1
    BY DEF OneSlotPerSession
  <1>1. l \in Lanes
    BY AgentAssumption
  <1>2. maxConcurrent'[l] = 1 /\ Cardinality(active[l]) <= 1
    BY DEF AgentInv, OneSlotPerSession
  <1>3. CASE active'[l] \ active[l] # {}
    BY <1>1, <1>2, <1>3 DEF QueueKept
  <1>4. CASE active'[l] \subseteq active[l]
    <2>1. IsFiniteSet(active[l])
      <3>1. active[l] \subseteq Entries
        BY <1>1 DEF AgentInv, AgentTypeOK, TypeOK
      <3>2. QED
        BY <3>1, AgentAssumption, FS_Subset
    <2>2. /\ IsFiniteSet(active'[l]) /\ Cardinality(active'[l]) <= Cardinality(active[l])
      BY <1>4, <2>1, FS_Subset
    <2>3. Cardinality(active[l]) \in Nat /\ Cardinality(active'[l]) \in Nat
      BY <2>1, <2>2, FS_CardinalityType
    <2>4. QED
      BY <1>2, <2>2, <2>3
  <1>5. QED
    BY <1>2, <1>3, <1>4

\* A body that the pump begins belongs to a call that waits.
LEMMA RunningKept ==
  ASSUME QueueKept, NEW bod, BodiesFrom(bod),
         \A e \in Entries : bod[e] = "running" => promise'[e] \in {"pending", "timedOut"}
  PROVE  RunningUnanswered'
  <1> SUFFICES ASSUME NEW e \in Entries, body'[e] = "running"
               PROVE  promise'[e] \in {"pending", "timedOut"}
    BY DEF RunningUnanswered
  <1>1. CASE e \in active'[LaneOfCall[e]]
    BY <1>1, LanesOfCalls DEF QueueKept, QueueInv, SlotsAreOwned
  <1>2. QED
    BY <1>1 DEF BodiesFrom

LEMMA ParentsKept ==
  ASSUME NEW bod, BodiesFrom(bod),
         \A p \in Parents : promise'[Child[p]] = "pending" =>
           promise'[p] = "pending" /\ bod[p] = "running"
  PROVE  ParentsWait'
  BY AgentAssumption DEF BodiesFrom, ParentsWait

LEMMA Assemble ==
  ASSUME AgentInv, QueueKept, UserType', NEW bod, BodiesFrom(bod),
         \A l \in SessionLanes : maxConcurrent'[l] = maxConcurrent[l] /\ resumeTimer'[l] = 0,
         \A e \in Entries : bod[e] = "running" => promise'[e] \in {"pending", "timedOut"},
         \A p \in Parents : promise'[Child[p]] = "pending" =>
           promise'[p] = "pending" /\ bod[p] = "running"
  PROVE  AgentInv'
  <1>1. OneSlotPerSession' /\ RunningUnanswered' /\ ParentsWait'
    BY SlotsKept, RunningKept, ParentsKept
  <1>2. AgentTypeOK'
    BY DEF QueueKept, QueueInv, UserType, AgentTypeOK
  <1>3. QED
    BY <1>1, <1>2 DEF AgentInv, QueueKept

\* The facts of the invariant the steps below use.
LEMMA Known ==
  ASSUME AgentInv
  PROVE  /\ QueueInv /\ UserType
         /\ promise \in [Entries -> {"none", "pending"} \cup Outcomes]
         /\ body \in [Entries -> BodyStates]
         /\ maxConcurrent \in [Lanes -> Nat]
         /\ SessionLanes \subseteq Lanes
         /\ \A l \in SessionLanes : resumeTimer[l] = 0
         /\ \A e \in Entries : body[e] = "running" => promise[e] \in {"pending", "timedOut"}
         /\ \A p \in Parents : promise[Child[p]] = "pending" =>
              promise[p] = "pending" /\ body[p] = "running"
         /\ \A e \in Entries : promise[e] = "none" => body[e] = "idle"
         /\ \A p \in Parents : p \in Entries /\ Child[p] \in Entries
  BY AgentAssumption DEF AgentInv, AgentTypeOK, TypeOK, UserType, OneSlotPerSession,
       RunningUnanswered, ParentsWait, QueueInv, OnlyAcceptedRun

(***************************************************************************)
(* Runs                                                                    *)
(***************************************************************************)
LEMMA EnqueueIsQueueStep ==
  ASSUME AgentInv, NEW e \in Entries, Enqueue(e)
  PROVE  QueueKept
  <1>1. Q!EntryStep(e)
    BY SameEntryStep DEF Enqueue, Q!EntryStep
  <1>2. QED
    BY <1>1, QueueStepsKeep DEF Q!Next, AgentInv

\* A call that is made: by a task only while its own caller waits.
LEMMA EnqueueKeepsAgents ==
  ASSUME AgentInv, NEW e \in Entries, Enqueue(e), UNCHANGED laneUserVars,
         \A p \in Parents : Child[p] = e => body[p] = "running" /\ promise[p] = "pending"
  PROVE  AgentInv'
  <1>1. QueueKept
    BY EnqueueIsQueueStep
  <1>2. /\ promise[e] = "none" /\ BodiesFrom(body)
        /\ \/ promise' = [promise EXCEPT ![e] = "pending"]
           \/ promise' = [promise EXCEPT ![e] = "refused"]
        /\ maxConcurrent' = maxConcurrent
    BY EnqueueEffect
  <1>3. UserType' /\ \A l \in SessionLanes : resumeTimer'[l] = 0
    BY Known DEF UserType, laneUserVars
  <1>4. \A x \in Entries : body[x] = "running" => promise'[x] \in {"pending", "timedOut"}
    <2> SUFFICES ASSUME NEW x \in Entries, body[x] = "running"
                 PROVE  promise'[x] \in {"pending", "timedOut"}
      OBVIOUS
    <2>1. x # e
      BY <1>2, Known
    <2>2. QED
      BY <1>2, <2>1, Known
  <1>5. \A p \in Parents : promise'[Child[p]] = "pending" =>
          promise'[p] = "pending" /\ body[p] = "running"
    <2> SUFFICES ASSUME NEW p \in Parents, promise'[Child[p]] = "pending"
                 PROVE  promise'[p] = "pending" /\ body[p] = "running"
      OBVIOUS
    <2>1. promise[p] = "pending" /\ body[p] = "running"
      BY <1>2, Known
    <2>2. p # e
      BY <1>2, <2>1
    <2>3. QED
      BY <1>2, <2>1, <2>2, Known
  <1>6. QED
    BY <1>1, <1>2, <1>3, <1>4, <1>5, Assemble

\* An answer: by a task that makes a further call only when that call is not
\* waiting for its own answer.
LEMMA AnswerKeepsAgents ==
  ASSUME AgentInv, QueueKept, NEW e \in Entries, NEW outcome, NEW bod, BodiesFrom(bod),
         UNCHANGED laneUserVars, maxConcurrent' = maxConcurrent,
         body[e] = "running", outcome # "pending",
         promise' = [promise EXCEPT ![e] = outcome],
         \/ bod = body /\ outcome = "timedOut"
         \/ bod = [body EXCEPT ![e] = "settled"],
         e \in Parents => promise[Child[e]] # "pending"
  PROVE  AgentInv'
  <1>1. UserType' /\ \A l \in SessionLanes : resumeTimer'[l] = 0
    BY Known DEF UserType, laneUserVars
  <1>2. \A x \in Entries : bod[x] = "running" => promise'[x] \in {"pending", "timedOut"}
    BY Known
  <1>3. \A p \in Parents : promise'[Child[p]] = "pending" =>
          promise'[p] = "pending" /\ bod[p] = "running"
    <2> SUFFICES ASSUME NEW p \in Parents, promise'[Child[p]] = "pending"
                 PROVE  promise'[p] = "pending" /\ bod[p] = "running"
      OBVIOUS
    <2>1. promise[Child[p]] = "pending" /\ promise[p] = "pending" /\ body[p] = "running"
      BY Known
    <2>2. p # e
      BY <2>1
    <2>3. QED
      BY <2>1, <2>2, Known
  <1>4. QED
    BY <1>1, <1>2, <1>3, Assemble

LEMMA RunStepKeeps ==
  ASSUME AgentInv, RunStep
  PROVE  AgentInv'
  <1>1. ASSUME NEW e \in Entries, CallTop(e)
        PROVE  AgentInv'
    BY <1>1, EnqueueKeepsAgents DEF CallTop, TopCalls, Children
  <1>2. ASSUME NEW p \in Parents, CallChild(p)
        PROVE  AgentInv'
    <2>1. \A r \in Parents : Child[r] = Child[p] => r = p
      BY AgentAssumption
    <2>2. Child[p] \in Entries
      BY Known
    <2>3. QED
      BY <1>2, <2>1, <2>2, EnqueueKeepsAgents DEF CallChild
  <1>3. ASSUME NEW e \in Entries, NEW outcome \in {"resolved", "rejected"},
               SettleTask(e, outcome), UNCHANGED laneUserVars,
               e \in Parents => promise[Child[e]] # "pending"
        PROVE  AgentInv'
    <2>1. QueueKept
      <3>1. Q!EntryStep(e)
        BY <1>3, SameEntryStep DEF Q!EntryStep
      <3>2. QED
        BY <3>1, QueueStepsKeep DEF Q!Next, AgentInv
    <2>2. /\ body[e] = "running" /\ maxConcurrent' = maxConcurrent
          /\ promise' = [promise EXCEPT ![e] = outcome]
          /\ BodiesFrom([body EXCEPT ![e] = "settled"])
      BY <1>3, SettleEffect
    <2>3. outcome # "pending"
      OBVIOUS
    <2>4. QED
      BY <1>3, <2>1, <2>2, <2>3, AnswerKeepsAgents
  <1>4. ASSUME NEW p \in Parents, Abort(p) \/ ReturnChild(p)
        PROVE  AgentInv'
    <2>1. promise[Child[p]] # "pending" /\ UNCHANGED laneUserVars
      BY <1>4 DEF Abort, ReturnChild, Outcomes
    <2>2. SettleTask(p, "resolved") \/ SettleTask(p, "rejected")
      BY <1>4 DEF Abort, ReturnChild
    <2>3. QED
      BY <1>3, <2>1, <2>2, Known
  <1>5. ASSUME NEW e \in Leaves, EndLeaf(e)
        PROVE  AgentInv'
    BY <1>3, <1>5 DEF EndLeaf, SettleSome, Leaves
  <1>6. ASSUME NEW e \in Leaves, TimeOutLeaf(e)
        PROVE  AgentInv'
    <2>1. QueueKept
      <3>1. Q!EntryStep(e)
        BY <1>6, SameEntryStep DEF TimeOutLeaf, Q!EntryStep
      <3>2. QED
        BY <3>1, QueueStepsKeep DEF Q!Next, AgentInv, Leaves
    <2>2. /\ body[e] = "running" /\ maxConcurrent' = maxConcurrent
          /\ promise' = [promise EXCEPT ![e] = "timedOut"]
          /\ BodiesFrom(body)
      BY <1>6, TimeoutEffect DEF TimeOutLeaf
    <2>3. UNCHANGED laneUserVars /\ e \in Entries /\ e \notin Parents
      BY <1>6 DEF TimeOutLeaf, Leaves
    <2>4. QED
      BY <2>1, <2>2, <2>3, AnswerKeepsAgents
  <1>7. ASSUME NEW e \in Leaves, EndLeafLate(e)
        PROVE  AgentInv'
    <2>1. QueueKept
      <3>1. Q!EntryStep(e)
        BY <1>7, SameEntryStep DEF EndLeafLate, Q!EntryStep
      <3>2. QED
        BY <3>1, QueueStepsKeep DEF Q!Next, AgentInv, Leaves
    <2>2. /\ body[e] = "running" /\ promise[e] = "timedOut" /\ UNCHANGED laneUserVars
          /\ body' = [body EXCEPT ![e] = "settled"]
          /\ promise' = promise /\ maxConcurrent' = maxConcurrent
      BY <1>7 DEF EndLeafLate, SettleLate, laneVars
    <2>3. /\ BodiesFrom([body EXCEPT ![e] = "settled"]) /\ e \in Entries
          /\ promise' = [promise EXCEPT ![e] = "timedOut"]
      BY <2>2, Known DEF BodiesFrom, Leaves
    <2>4. "timedOut" # "pending"
      OBVIOUS
    <2>5. e \notin Parents
      BY DEF Leaves
    <2>6. QED
      BY <2>1, <2>2, <2>3, <2>4, <2>5, AnswerKeepsAgents
  <1>8. QED
    BY <1>1, <1>2, <1>4, <1>5, <1>6, <1>7 DEF RunStep

(***************************************************************************)
(* Limits, resets and restarts: no promise changes, no running body stops   *)
(***************************************************************************)
LEMMA ControlKeepsAgents ==
  ASSUME AgentInv, QueueKept, UserType', BodiesFrom(body), promise' = promise,
         \A l \in SessionLanes : maxConcurrent'[l] = maxConcurrent[l] /\ resumeTimer'[l] = 0
  PROVE  AgentInv'
  BY Known, Assemble

LEMMA LimitKeepsAgents ==
  ASSUME AgentInv, NEW l \in Lanes, NEW n \in Limits \cup {0},
         SetCommandLaneConcurrency(l, n), UserType', l \notin SessionLanes,
         \A k \in SessionLanes : resumeTimer'[k] = 0
  PROVE  AgentInv'
  <1>1. QueueKept
    <2>1. Q!LaneStep(l)
      BY SameControl DEF Q!LaneStep
    <2>2. QED
      BY <2>1, QueueStepsKeep DEF Q!Next, AgentInv
  <1>2. /\ maxConcurrent' = [maxConcurrent EXCEPT ![l] = n]
        /\ promise' = promise /\ BodiesFrom(body)
    BY LimitEffect
  <1>3. \A k \in SessionLanes : maxConcurrent'[k] = maxConcurrent[k]
    BY <1>2, Known
  <1>4. QED
    BY <1>1, <1>2, <1>3, ControlKeepsAgents

LEMMA SuspendKeeps ==
  ASSUME AgentInv, NEW l \in GlobalLanes, NEW n \in Limits, SuspendSession(l, n)
  PROVE  AgentInv'
  <1>1. /\ SetCommandLaneConcurrency(l, 0) /\ suspensions < MaxSuspensions
        /\ suspensions' = suspensions + 1
        /\ resumeTimer' = [resumeTimer EXCEPT ![l] = n]
        /\ UNCHANGED <<configured, loaded, reloads>>
    BY DEF SuspendSession
  <1>2. l \in Lanes /\ l \notin SessionLanes
    BY DEF GlobalLanes
  <1>3. UserType'
    BY <1>1, <1>2, Known, AgentAssumption DEF UserType
  <1>4. \A k \in SessionLanes : resumeTimer'[k] = 0
    BY <1>1, <1>2, Known DEF UserType
  <1>5. 0 \in Limits \cup {0}
    OBVIOUS
  <1>6. QED
    BY <1>1, <1>2, <1>3, <1>4, <1>5, LimitKeepsAgents

LEMMA ResumeKeeps ==
  ASSUME AgentInv, NEW l \in Lanes, AutoResume(l)
  PROVE  AgentInv'
  <1>1. /\ resumeTimer[l] # 0 /\ SetCommandLaneConcurrency(l, resumeTimer[l])
        /\ resumeTimer' = [resumeTimer EXCEPT ![l] = 0]
        /\ UNCHANGED <<configured, loaded, reloads, suspensions>>
    BY DEF AutoResume
  <1>2. l \notin SessionLanes /\ resumeTimer[l] \in Limits \cup {0}
    BY <1>1, Known DEF UserType
  <1>3. UserType' /\ \A k \in SessionLanes : resumeTimer'[k] = 0
    BY <1>1, Known DEF UserType
  <1>4. QED
    BY <1>1, <1>2, <1>3, LimitKeepsAgents

\* A reload sets the limits of the global lanes, whatever they were, and pumps
\* them all: the one step that is several calls of the queue.
LEMMA ReloadKeeps ==
  ASSUME AgentInv, NEW limit \in Configurations, ApplyGatewayLaneConcurrency(limit)
  PROVE  AgentInv'
  <1> DEFINE max == EffectiveLimits(limit, maxConcurrent)
  <1>1. /\ limit # configured => reloads < MaxReloads
        /\ reloads' = IF limit # configured THEN reloads + 1 ELSE reloads
        /\ configured' = limit
        /\ loaded' = [l \in GlobalLanes |-> loaded[l] \cup {limit[l]}]
        /\ maxConcurrent' = max
        /\ DrainLanes(GlobalLanes, queue, active, maxConcurrent', generation', body)
        /\ UNCHANGED <<gatewayDraining, generation, promise, waiter, captured,
                       resumeTimer, suspensions>>
    BY DEF ApplyGatewayLaneConcurrency
  <1>2. limit \in [GlobalLanes -> Limits]
    BY DEF Configurations
  <1>3. UserType' /\ \A l \in SessionLanes : resumeTimer'[l] = 0
    <2>1. reloads' \in 0..MaxReloads
      BY <1>1, AgentAssumption, Known DEF UserType
    <2>2. loaded' \in [GlobalLanes -> SUBSET Limits]
      BY <1>1, <1>2, Known DEF UserType
    <2>3. QED
      BY <1>1, <2>1, <2>2, Known DEF UserType
  <1>4. maxConcurrent' \in [Lanes -> Nat]
    BY <1>1, <1>2, AgentAssumption, Known DEF EffectiveLimits
  <1>5. \A l \in Lanes \ GlobalLanes : maxConcurrent'[l] = maxConcurrent[l]
    BY <1>1 DEF EffectiveLimits
  <1>6. BodiesFrom(body)
    BY <1>1, PumpBodies
  <1> HIDE DEF max
  <1>7. QueueKept
    <2>1. Q!TypeOK /\ Q!Core /\ Q!WaitersHaveCause
      <3>1. Q!QueueInv
        BY SameInv DEF AgentInv
      <3>2. QED
        BY <3>1, QueueConstants, Q!CoreIsInvariant DEF Q!QueueInv
    <2>2. Q!DrainLanes(GlobalLanes, queue, active, maxConcurrent', generation', body)
      BY <1>1, SameDrain
    <2>3. /\ queue \in [Lanes -> Seq(Entries)] /\ active \in [Lanes -> SUBSET Entries]
          /\ body \in [Entries -> Q!BodyStates] /\ generation' \in [Lanes -> Nat]
          /\ GlobalLanes \in SUBSET Lanes
      BY <1>1, <2>1 DEF Q!TypeOK, GlobalLanes
    <2>4. /\ Q!QueueOf(queue, body, promise')
          /\ Q!SlotsOf(active, generation', taskGeneration, body, promise')
          /\ Q!PendingOf(queue, active, generation', taskGeneration, body, promise')
          /\ Q!RunOf(body, promise')
      BY <1>1, <2>1 DEF Q!Core, Q!CoreOf
    <2>5. \A l \in Lanes \ GlobalLanes :
            queue[l] # <<>> => Q!Cardinality(active[l]) >= maxConcurrent'[l]
      BY <1>5, <2>1 DEF Q!Core, Q!CoreOf, Q!BusyOf
    <2>6. /\ queue' \in [Lanes -> Seq(Entries)]
          /\ active' \in [Lanes -> SUBSET Entries]
          /\ body' \in [Entries -> Q!BodyStates]
          /\ taskGeneration' \in [Entries -> Nat]
          /\ Q!Core'
          /\ \A l \in Lanes : active[l] \subseteq active'[l]
      BY <1>4, <2>1, <2>2, <2>3, <2>4, <2>5, QueueConstants, Q!PumpKeepsCore
    <2>7. Q!TypeOK'
      BY <1>1, <1>4, <2>1, <2>3, <2>6 DEF Q!TypeOK
    <2>8. Q!WaitersHaveCause'
      BY <1>1, <2>1, <2>6, QueueConstants, Q!WaitUnchangedKeepsCause DEF Q!waitVars
    <2>9. Q!WithinLimit
      BY <1>4, <2>1, <2>2, <2>3, QueueConstants, Q!PumpKeepsLimit
    <2>10. Q!QueueInv'
      BY <2>6, <2>7, <2>8, QueueFromParts, PTL
    <2>11. QED
      BY <2>9, <2>10, SameInvNext, SameSize DEF Q!WithinLimit, QueueKept
  <1>8. \A l \in SessionLanes : maxConcurrent'[l] = maxConcurrent[l]
    BY <1>5, Known DEF GlobalLanes
  <1>9. QED
    BY <1>1, <1>3, <1>6, <1>7, <1>8, ControlKeepsAgents

LEMMA ResetKeepsAgents ==
  ASSUME AgentInv, NEW P, ResetLanes(P), QueueKept, UNCHANGED laneUserVars
  PROVE  AgentInv'
  <1>1. maxConcurrent' = maxConcurrent /\ promise' = promise /\ BodiesFrom(body)
    BY ResetEffect
  <1>2. UserType' /\ \A l \in SessionLanes : resumeTimer'[l] = 0
    BY Known DEF UserType, laneUserVars
  <1>3. QED
    BY <1>1, <1>2, ControlKeepsAgents

LEMMA ControlStepKeeps ==
  ASSUME AgentInv, ControlStep
  PROVE  AgentInv'
  <1>1. ASSUME NEW l \in Lanes, RecoverStuckSession(l)
        PROVE  AgentInv'
    <2>1. ResetCommandLane(l) /\ ResetLanes({l}) /\ UNCHANGED laneUserVars
      BY <1>1 DEF RecoverStuckSession, ResetCommandLane
    <2>2. QueueKept
      <3>1. Q!LaneStep(l)
        BY <2>1, SameControl DEF Q!LaneStep
      <3>2. QED
        BY <3>1, QueueStepsKeep DEF Q!Next, AgentInv
    <2>3. QED
      BY <2>1, <2>2, ResetKeepsAgents
  <1>2. QED
    BY <1>1, SuspendKeeps, ResumeKeeps, ReloadKeeps DEF ControlStep

LEMMA RestartStepKeeps ==
  ASSUME AgentInv, RestartStep
  PROVE  AgentInv'
  <1>1. CASE BeginDrain \/ \E w \in Waiters : WaitForDrain(w) \/ DrainTimeout(w)
    <2>1. QueueKept
      <3>1. Q!MarkGatewayDraining \/ \E w \in Waiters : Q!WaiterStep(w)
        BY <1>1, SameControl, SameWaiterStep
           DEF BeginDrain, WaitForDrain, DrainTimeout, Q!WaiterStep, WaiterStates, Q!WaiterStates
      <3>2. QED
        BY <3>1, QueueStepsKeep DEF Q!Next, AgentInv
    <2>2. UNCHANGED <<body, promise, maxConcurrent, laneUserVars>>
      BY <1>1 DEF BeginDrain, WaitForDrain, DrainTimeout, MarkGatewayDraining,
           WaitForActiveTasks, WaiterTimeout, laneVars
    <2>3. BodiesFrom(body) /\ UserType' /\ \A l \in SessionLanes : resumeTimer'[l] = 0
      BY <2>2, Known DEF BodiesFrom, UserType, laneUserVars
    <2>4. QED
      BY <2>1, <2>2, <2>3, ControlKeepsAgents
  <1>2. CASE RestartIteration
    <2>1. ResetAllLanes /\ ResetLanes(Lanes) /\ UNCHANGED laneUserVars
      BY <1>2 DEF RestartIteration, ResetAllLanes
    <2>2. QueueKept
      BY <2>1, SameControl, QueueStepsKeep DEF Q!Next, AgentInv
    <2>3. QED
      BY <2>1, <2>2, ResetKeepsAgents
  <1>3. QED
    BY <1>1, <1>2 DEF RestartStep

(***************************************************************************)
(* The theorems                                                            *)
(***************************************************************************)
LEMMA AgentInitInv == AgentInit => AgentInv
  <1> SUFFICES ASSUME AgentInit PROVE AgentInv
    OBVIOUS
  <1> DEFINE max == EffectiveLimits(configured, [l \in Lanes |-> 1])
  <1>1. /\ configured \in Configurations /\ IdleLanes(max)
        /\ loaded = [l \in GlobalLanes |-> {configured[l]}]
        /\ resumeTimer = [l \in Lanes |-> 0] /\ reloads = 0 /\ suspensions = 0
    BY DEF AgentInit
  <1>2. configured \in [GlobalLanes -> Limits]
    BY <1>1 DEF Configurations
  <1>3. max \in [Lanes -> Nat] /\ \A l \in SessionLanes : max[l] = 1
    BY <1>2, AgentAssumption DEF EffectiveLimits, GlobalLanes
  <1> HIDE DEF max
  <1>4. TypeOK
    <2>1. <<>> \in Seq(Entries) /\ {} \in SUBSET Entries /\ 0 \in Nat
      BY EmptySeq
    <2>2. /\ queue \in [Lanes -> Seq(Entries)] /\ active \in [Lanes -> SUBSET Entries]
          /\ maxConcurrent \in [Lanes -> Nat] /\ generation \in [Lanes -> Nat]
          /\ taskGeneration \in [Entries -> Nat]
      BY <1>1, <1>3, <2>1 DEF IdleLanes
    <2>3. /\ gatewayDraining \in BOOLEAN /\ body \in [Entries -> BodyStates]
          /\ promise \in [Entries -> {"none", "pending"} \cup Outcomes]
          /\ waiter \in [Waiters -> WaiterStates] /\ captured \in [Waiters -> SUBSET Entries]
      BY <1>1 DEF IdleLanes, BodyStates, WaiterStates
    <2>4. QED
      BY <2>2, <2>3 DEF TypeOK
  <1>5. AgentTypeOK
    BY <1>1, <1>2, <1>4, AgentAssumption DEF AgentTypeOK
  <1>6. QueueInv
    <2>1. QueuedOnce /\ WorkConserving
      BY <1>1 DEF IdleLanes, QueuedOnce, WorkConserving
    <2>2. SlotsAreOwned /\ PendingAccounted /\ OnlyAcceptedRun /\ WaitersHaveCause
      BY <1>1 DEF IdleLanes, SlotsAreOwned, PendingAccounted, OnlyAcceptedRun, WaitersHaveCause
    <2>3. QED
      BY <1>4, <2>1, <2>2 DEF QueueInv
  <1>7. OneSlotPerSession
    BY <1>1, <1>3, AgentAssumption, FS_EmptySet DEF IdleLanes, OneSlotPerSession
  <1>8. ParentsWait /\ RunningUnanswered
    BY <1>1, AgentAssumption DEF IdleLanes, ParentsWait, RunningUnanswered
  <1>9. QED
    BY <1>5, <1>6, <1>7, <1>8 DEF AgentInv

LEMMA StutterKeeps ==
  ASSUME AgentInv, UNCHANGED allVars
  PROVE  AgentInv'
  <1>1. QueueKept
    <2>1. UNCHANGED Q!vars
      BY DEF allVars, queueVars, Q!vars
    <2>2. QED
      BY <2>1, QueueStepsKeep DEF AgentInv
  <1>2. UNCHANGED <<body, promise, maxConcurrent, laneUserVars>>
    BY DEF allVars, queueVars
  <1>3. BodiesFrom(body) /\ UserType' /\ \A l \in SessionLanes : resumeTimer'[l] = 0
    BY <1>2, Known DEF BodiesFrom, UserType, laneUserVars
  <1>4. QED
    BY <1>1, <1>2, <1>3, ControlKeepsAgents

\* The inductive invariant of the agents' lanes: the queue's own invariant
\* goes on to hold with reloads, suspensions and restarts, a session's lane
\* keeps its one slot, and a task that made a call waits for its answer
\* (runEmbeddedPiAgent, applyGatewayLaneConcurrency, suspendSession).
THEOREM AgentInvariant == AgentSpec => []AgentInv
  <1>1. AgentInv /\ [AgentNext]_allVars => AgentInv'
    BY RunStepKeeps, ControlStepKeeps, RestartStepKeeps, StutterKeeps DEF AgentNext
  <1>2. QED
    BY <1>1, AgentInitInv, PTL DEF AgentSpec

\* The calls of a chain: while the leaf runs and its caller waits, so does
\* every call above it.
LEMMA ChainWaits ==
  ASSUME AgentInv, NEW e \in Entries,
         body[LeafOf[e]] = "running", promise[LeafOf[e]] = "pending"
  PROVE  body[e] = "running" /\ promise[e] = "pending"
  <1> DEFINE S == {x \in Entries : ~(body[x] = "running" /\ promise[x] = "pending")}
  <1>1. LeafOf[e] \in Chain(e)
    BY ChainAssumption DEF LeafOf, Leaves
  <1>2. \A p \in S \cap Parents : Child[p] \in S
    BY Known
  <1>3. S \in SUBSET Entries
    OBVIOUS
  <1>4. e \in S => LeafOf[e] \in S
    BY <1>1, <1>2, <1>3 DEF Chain
  <1>5. QED
    BY <1>4

LEMMA TwoRunsExcluded ==
  ASSUME AgentInv
  PROVE  SessionExclusive
  <1> SUFFICES ASSUME NEW l \in SessionLanes, NEW p \in SessionCalls(l),
                      NEW q \in SessionCalls(l), p # q,
                      body[LeafOf[p]] = "running", body[LeafOf[q]] = "running",
                      \A r \in {p, q} : /\ promise[LeafOf[r]] # "timedOut"
                                        /\ ~(taskGeneration[r] < generation[l])
               PROVE  FALSE
    BY DEF SessionExclusive
  <1>1. /\ p \in Entries /\ LaneOfCall[p] = l
        /\ q \in Entries /\ LaneOfCall[q] = l
    BY DEF SessionCalls
  <1>2. ASSUME NEW r \in {p, q}
        PROVE  r \in active[l]
    <2>1. r \in Entries /\ LaneOfCall[r] = l
      BY <1>1
    <2>2. LeafOf[r] \in Entries
      BY <2>1, ChainAssumption DEF LeafOf, Leaves
    <2>3. promise[LeafOf[r]] = "pending"
      BY <2>2, Known
    <2>4. body[r] = "running" /\ promise[r] = "pending"
      BY <2>1, <2>3, ChainWaits
    <2>5. QED
      BY <2>1, <2>4, Known DEF QueueInv, PendingAccounted
  <1>3. l \in Lanes /\ Cardinality(active[l]) <= 1
    BY Known DEF AgentInv, OneSlotPerSession
  <1>4. {p, q} \subseteq active[l] /\ IsFiniteSet(active[l])
    <2>1. active[l] \subseteq Entries
      BY <1>3, Known DEF QueueInv, TypeOK
    <2>2. QED
      BY <1>2, <2>1, AgentAssumption, FS_Subset
  <1>5. Cardinality({p, q}) = 2
    <2>1. IsFiniteSet({p}) /\ Cardinality({p}) = 1
      BY FS_Singleton
    <2>2. q \notin {p} /\ {p} \cup {q} = {p, q}
      OBVIOUS
    <2>3. Cardinality({p} \cup {q}) = Cardinality({p}) + 1
      BY <2>1, <2>2, FS_AddElement
    <2>4. QED
      BY <2>1, <2>2, <2>3
  <1>6. Cardinality({p, q}) <= Cardinality(active[l]) /\ Cardinality(active[l]) \in Nat
    BY <1>4, FS_Subset, FS_CardinalityType
  <1>7. QED
    BY <1>3, <1>5, <1>6

\* Two runs of one session overlap only after the older one's caller was told
\* that it timed out, or its lane was released: for any number of sessions,
\* and however deep the chain of calls between the session's lane and the run
\* (docs/concepts/queue.md:111).
THEOREM RunsOfASessionExclude == AgentSpec => []SessionExclusive
  BY AgentInvariant, TwoRunsExcluded, PTL

\* The queue's promise to its users holds for the agents too: no lane with
\* room leaves a call waiting, whatever is reloaded, suspended or reset.
THEOREM NoRunStranded == AgentSpec => []WorkConserving
  <1>1. AgentInv => WorkConserving
    BY DEF AgentInv, QueueInv
  <1>2. QED
    BY <1>1, AgentInvariant, PTL

(***************************************************************************)
(* The contract of the queue's callers                                     *)
(***************************************************************************)
\* Every step but a reload is one of the queue's own.
LEMMA StepsOfQueue ==
  ASSUME [AgentNext]_allVars, resumeTimer \in [Lanes -> {0} \cup Limits]
  PROVE  \/ [Q!Next]_(Q!vars)
         \/ \E limit \in Configurations : ApplyGatewayLaneConcurrency(limit)
  <1>1. ASSUME NEW e \in Entries, \/ Enqueue(e)
                                  \/ \E outcome \in {"resolved", "rejected"} : SettleTask(e, outcome)
                                  \/ TaskTimeout(e)
                                  \/ SettleLate(e)
        PROVE  Q!Next
    BY <1>1, SameEntryStep DEF Enqueue, Q!EntryStep, Q!Next
  <1>2. CASE RunStep
    <2>1. \A p \in Parents : p \in Entries /\ Child[p] \in Entries
      BY AgentAssumption
    <2>2. ASSUME NEW p \in Parents, CallChild(p) \/ Abort(p) \/ ReturnChild(p)
          PROVE  Q!Next
      BY <1>1, <2>1, <2>2 DEF CallChild, Abort, ReturnChild
    <2>3. ASSUME NEW e \in Entries, \/ CallTop(e) \/ EndLeaf(e)
                                    \/ TimeOutLeaf(e) \/ EndLeafLate(e)
          PROVE  Q!Next
      BY <1>1, <2>3 DEF CallTop, EndLeaf, SettleSome, TimeOutLeaf, EndLeafLate
    <2>4. QED
      BY <1>2, <2>2, <2>3 DEF RunStep, Leaves
  <1>3. ASSUME NEW l \in Lanes, RecoverStuckSession(l)
        PROVE  Q!Next
    BY <1>3, SameControl DEF RecoverStuckSession, Q!LaneStep, Q!Next
  <1>4. ASSUME NEW l \in GlobalLanes, NEW n \in Limits, SuspendSession(l, n)
        PROVE  Q!Next
    BY <1>4, SameControl DEF SuspendSession, GlobalLanes, Q!LaneStep, Q!Next
  <1>5. CASE RestartStep
    BY <1>5, SameControl, SameWaiterStep
       DEF RestartStep, BeginDrain, WaitForDrain, DrainTimeout, RestartIteration,
           Q!WaiterStep, WaiterStates, Q!WaiterStates, Q!Next
  <1>6. CASE UNCHANGED allVars
    BY <1>6 DEF allVars, queueVars, Q!vars
  <1>7. ASSUME NEW l \in Lanes, AutoResume(l)
        PROVE  Q!Next
    BY <1>7, SameControl DEF AutoResume, Q!LaneStep, Q!Next
  <1>8. QED
    BY <1>2, <1>3, <1>4, <1>5, <1>6, <1>7 DEF AgentNext, ControlStep

LEMMA SameContract ==
  /\ Contract!Init <=> Q!Contract!Init
  /\ [Contract!Next]_(Contract!vars) <=> [Q!Contract!Next]_(Q!Contract!vars)
  BY DEF Contract!Init, Q!Contract!Init, Contract!Next, Q!Contract!Next, Contract!vars,
         Q!Contract!vars, Contract!Accept, Q!Contract!Accept, Contract!Refuse,
         Q!Contract!Refuse, Contract!Finish, Q!Contract!Finish, Contract!GiveUp,
         Q!Contract!GiveUp, Contract!EndLate, Q!Contract!EndLate, Contract!Dismiss,
         Q!Contract!Dismiss, Contract!Proceed, Q!Contract!Proceed, Contract!Begin,
         Q!Contract!Begin

\* A reload lets calls at the front of the lines begin and answers nobody.
LEMMA ReloadIsProceed ==
  ASSUME TypeOK, NEW limit \in Configurations, ApplyGatewayLaneConcurrency(limit)
  PROVE  Q!Contract!Proceed
  <1> DEFINE max == EffectiveLimits(limit, maxConcurrent)
  <1>1. /\ Q!DrainLanes(GlobalLanes, queue, active, max, generation, body)
        /\ promise' = promise
    BY SameDrain DEF ApplyGatewayLaneConcurrency
  <1>2. /\ queue \in [Lanes -> Seq(Entries)] /\ active \in [Lanes -> SUBSET Entries]
        /\ generation \in [Lanes -> Nat] /\ body \in [Entries -> Q!BodyStates]
        /\ GlobalLanes \in SUBSET Lanes
    BY SameType DEF Q!TypeOK, GlobalLanes
  <1>3. max \in [Lanes -> Nat]
    BY AgentAssumption DEF TypeOK, Configurations, EffectiveLimits
  <1> HIDE DEF max
  <1>4. Q!Contract!Begin(queue, body)
    BY <1>1, <1>2, <1>3, QueueConstants, Q!PumpBegins
  <1>5. QED
    BY <1>1, <1>4 DEF Q!Contract!Proceed

\* The lanes keep the contract of their callers under reloads, suspensions,
\* recoveries and restarts: calls of a lane begin in the order they were
\* accepted and at most once, and each is answered once, with what happened.
THEOREM AgentsKeepContract == AgentSpec => ImplementsContract
  <1>1. AgentInit => Contract!Init
    BY DEF AgentInit, IdleLanes, Contract!Init
  <1>2. AgentInv /\ [AgentNext]_allVars => [Contract!Next]_(Contract!vars)
    <2> SUFFICES ASSUME AgentInv, [AgentNext]_allVars
                 PROVE  [Q!Contract!Next]_(Q!Contract!vars)
      BY SameContract
    <2>1. TypeOK /\ Q!TypeOK /\ resumeTimer \in [Lanes -> {0} \cup Limits]
      BY SameType DEF AgentInv, AgentTypeOK
    <2>2. CASE [Q!Next]_(Q!vars)
      BY <2>1, <2>2, QueueConstants, Q!StepByStep
    <2>3. CASE \E limit \in Configurations : ApplyGatewayLaneConcurrency(limit)
      BY <2>1, <2>3, ReloadIsProceed DEF Q!Contract!Next
    <2>4. QED
      BY <2>1, <2>2, <2>3, StepsOfQueue
  <1>3. QED
    BY <1>1, <1>2, AgentInvariant, PTL DEF AgentSpec, ImplementsContract, Contract!Spec

=============================================================================

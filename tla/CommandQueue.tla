---------------------------- MODULE CommandQueue ----------------------------
(***************************************************************************)
(* The in-process command queue of src/src/process/command-queue.ts: named *)
(* lanes, each a FIFO of entries with a bound on how many run at once; the  *)
(* draining flag of a gateway restart; the forced resets that give up on    *)
(* work that is still running; and the callers of waitForActiveTasks.       *)
(*                                                                         *)
(* Every exported function runs to its end without an await, so each is    *)
(* one action.  The pump of drainLane is part of each action that calls it. *)
(* What interleaves is the outside: a task body that settles, a timer that *)
(* fires, a caller.                                                        *)
(*                                                                         *)
(* An entry is one call of enqueueCommandInLane.  A task id is drawn when  *)
(* an entry leaves its queue, which happens once, so the entry stands for  *)
(* its task id.                                                            *)
(***************************************************************************)
EXTENDS Integers, FiniteSets, Sequences

CONSTANTS Lanes,          \* normalized lane names
          Entries,        \* calls of enqueueCommandInLane
          LaneOf,         \* the lane each call names
          Timed,          \* the calls that pass a positive taskTimeoutMs
          ProbeLanes,     \* auth-probe: and session:probe- lanes
          Levels,         \* values passed to setCommandLaneConcurrency
          Waiters,        \* callers of waitForActiveTasks
          TimedWaiters,   \* those of them that pass a timeout
          MaxGeneration   \* bound on the resets of one lane (model only)

ASSUME QueueAssumption ==
  /\ IsFiniteSet(Entries)
  /\ LaneOf \in [Entries -> Lanes]
  /\ Timed \subseteq Entries
  /\ ProbeLanes \subseteq Lanes
  /\ Levels \subseteq Int
  /\ TimedWaiters \subseteq Waiters
  /\ MaxGeneration \in Nat

VARIABLES gatewayDraining,  \* queueState.gatewayDraining
          queue,            \* LaneState.queue
          active,           \* LaneState.activeTaskIds
          maxConcurrent,    \* LaneState.maxConcurrent
          generation,       \* LaneState.generation
          taskGeneration,   \* taskGeneration captured by a running entry
          body,             \* the task's own promise: idle, running, settled
          promise,          \* the promise handed to the caller
          waiter,           \* activeTaskWaiters: idle, waiting, drained, timedOut
          captured          \* ActiveTaskWaiter.activeTaskIds

laneVars == <<gatewayDraining, maxConcurrent, generation>>
waitVars == <<waiter, captured>>
vars == <<gatewayDraining, queue, active, maxConcurrent, generation,
          taskGeneration, body, promise, waiter, captured>>

BodyStates == {"idle", "running", "settled"}
Outcomes == {"resolved", "rejected", "timedOut", "cleared", "refused"}
WaiterStates == {"idle", "waiting", "drained", "timedOut"}

TypeOK ==
  /\ gatewayDraining \in BOOLEAN
  /\ queue \in [Lanes -> Seq(Entries)]
  /\ active \in [Lanes -> SUBSET Entries]
  /\ maxConcurrent \in [Lanes -> Nat]
  /\ generation \in [Lanes -> Nat]
  /\ taskGeneration \in [Entries -> Nat]
  /\ body \in [Entries -> BodyStates]
  /\ promise \in [Entries -> {"none", "pending"} \cup Outcomes]
  /\ waiter \in [Waiters -> WaiterStates]
  /\ captured \in [Waiters -> SUBSET Entries]

\* No work, and the limits max.
IdleLanes(max) ==
  /\ gatewayDraining = FALSE
  /\ queue = [l \in Lanes |-> <<>>]
  /\ active = [l \in Lanes |-> {}]
  /\ maxConcurrent = max
  /\ generation = [l \in Lanes |-> 0]
  /\ taskGeneration = [e \in Entries |-> 0]
  /\ body = [e \in Entries |-> "idle"]
  /\ promise = [e \in Entries |-> "none"]
  /\ waiter = [w \in Waiters |-> "idle"]
  /\ captured = [w \in Waiters |-> {}]

Init == IdleLanes([l \in Lanes |-> 1])

Queued(l) == {queue[l][i] : i \in 1..Len(queue[l])}

AllActive(act) == UNION {act[l] : l \in Lanes}

(***************************************************************************)
(* The pump: while a slot is free and an entry waits, start the head.       *)
(***************************************************************************)
Room(act, max) == IF max > Cardinality(act) THEN max - Cardinality(act) ELSE 0

StartCountPastLimit(q, act, max) ==      \* mutant: <= for < in the pump's loop
  IF Room(act, max + 1) < Len(q) THEN Room(act, max + 1) ELSE Len(q)

StartCount(q, act, max) ==
  IF Room(act, max) < Len(q) THEN Room(act, max) ELSE Len(q)

Started(q, act, max) == {q[i] : i \in 1..StartCount(q, act, max)}

\* Pump every lane of P, from the queues, slots, limits, generations and
\* bodies the handler has left behind.
DrainLanes(P, q, act, max, gen, bod) ==
  LET S(l) == IF l \in P THEN Started(q[l], act[l], max[l]) ELSE {}
  IN /\ queue' = [l \in Lanes |->
           IF l \in P THEN SubSeq(q[l], StartCount(q[l], act[l], max[l]) + 1, Len(q[l]))
                      ELSE q[l]]
     /\ active' = [l \in Lanes |-> act[l] \cup S(l)]
     /\ body' = [e \in Entries |-> IF e \in S(LaneOf[e]) THEN "running" ELSE bod[e]]
     /\ taskGeneration' = [e \in Entries |->
           IF e \in S(LaneOf[e]) THEN gen[LaneOf[e]] ELSE taskGeneration[e]]

\* Every waiter none of whose captured tasks still holds a slot is answered.
NotifyActiveTaskWaiters(act) ==
  /\ waiter' = [w \in Waiters |->
        IF waiter[w] = "waiting" /\ captured[w] \cap AllActive(act) = {}
        THEN "drained" ELSE waiter[w]]
  /\ UNCHANGED captured

(***************************************************************************)
(* enqueueCommandInLane                                                    *)
(***************************************************************************)
EnqueueCommandInLane(e) ==
  LET l == LaneOf[e] IN
  /\ promise[e] = "none"
  /\ ~gatewayDraining
  /\ promise' = [promise EXCEPT ![e] = "pending"]
  /\ DrainLanes({l}, [queue EXCEPT ![l] = Append(@, e)], active, maxConcurrent,
                generation, body)
  /\ UNCHANGED <<laneVars, waitVars>>

RefuseEnqueue(e) ==
  /\ promise[e] = "none"
  /\ gatewayDraining
  /\ promise' = [promise EXCEPT ![e] = "refused"]
  /\ UNCHANGED <<laneVars, waitVars, queue, active, taskGeneration, body>>

(***************************************************************************)
(* The end of a running entry, as the lane sees it: a completion of the    *)
(* lane's current generation gives its slot back, answers the waiters and  *)
(* pumps; one of an earlier generation does nothing to the lane.           *)
(***************************************************************************)
CompleteTaskNoPump(e, bod) ==            \* mutant: a completion does not pump
  LET act == [active EXCEPT ![LaneOf[e]] = @ \ {e}] IN
  /\ active' = act
  /\ body' = bod
  /\ NotifyActiveTaskWaiters(act)
  /\ UNCHANGED <<queue, taskGeneration>>

CompleteTask(e, bod) ==
  LET l == LaneOf[e]
      act == [active EXCEPT ![l] = @ \ {e}]
  IN IF taskGeneration[e] = generation[l]
     THEN /\ DrainLanes({l}, queue, act, maxConcurrent, generation, bod)
          /\ NotifyActiveTaskWaiters(act)
     ELSE /\ body' = bod
          /\ UNCHANGED <<queue, active, taskGeneration, waitVars>>

\* The task's promise settles before its timer fires.
SettleTask(e, outcome) ==
  /\ body[e] = "running"
  /\ promise[e] = "pending"
  /\ promise' = [promise EXCEPT ![e] = outcome]
  /\ CompleteTask(e, [body EXCEPT ![e] = "settled"])
  /\ UNCHANGED laneVars

\* The timer of the race fires first: the caller is rejected and the slot
\* freed while the task's body goes on.
TaskTimeoutKeepsSlot(e) ==               \* mutant: only the caller is told
  /\ e \in Timed
  /\ body[e] = "running"
  /\ promise[e] = "pending"
  /\ promise' = [promise EXCEPT ![e] = "timedOut"]
  /\ UNCHANGED <<laneVars, waitVars, queue, active, taskGeneration, body>>

TaskTimeout(e) ==
  /\ e \in Timed
  /\ body[e] = "running"
  /\ promise[e] = "pending"
  /\ promise' = [promise EXCEPT ![e] = "timedOut"]
  /\ CompleteTask(e, body)
  /\ UNCHANGED laneVars

\* A body that outlived its timer ends; nobody listens but a log line.
SettleLate(e) ==
  /\ body[e] = "running"
  /\ promise[e] = "timedOut"
  /\ body' = [body EXCEPT ![e] = "settled"]
  /\ UNCHANGED <<laneVars, waitVars, queue, active, taskGeneration, promise>>

(***************************************************************************)
(* Lane control                                                            *)
(***************************************************************************)
ClampFree(l, n) == n                     \* mutant: the limit may go negative

Clamp(l, n) ==
  LET least == IF l \in ProbeLanes THEN 1 ELSE 0
  IN IF n < least THEN least ELSE n

SetConcurrencyNoDrain(l, n) ==           \* mutant: a raised limit does not pump
  /\ maxConcurrent' = [maxConcurrent EXCEPT ![l] = Clamp(l, n)]
  /\ UNCHANGED <<gatewayDraining, generation, queue, active, taskGeneration, body,
                 promise, waitVars>>

SetCommandLaneConcurrency(l, n) ==
  LET max == [maxConcurrent EXCEPT ![l] = Clamp(l, n)] IN
  /\ maxConcurrent' = max
  /\ DrainLanes(IF max[l] > 0 THEN {l} ELSE {}, queue, active, max, generation, body)
  /\ UNCHANGED <<gatewayDraining, generation, promise, waitVars>>

ClearKeepsEntries(l) ==                  \* mutant: rejects without the splice
  /\ queue[l] # <<>>
  /\ promise' = [e \in Entries |-> IF e \in Queued(l) THEN "cleared" ELSE promise[e]]
  /\ UNCHANGED <<laneVars, waitVars, queue, active, taskGeneration, body>>

ClearForgetsCallers(l) ==                \* mutant: empties without rejecting
  /\ queue[l] # <<>>
  /\ queue' = [queue EXCEPT ![l] = <<>>]
  /\ UNCHANGED <<laneVars, waitVars, active, taskGeneration, body, promise>>

ClearCommandLane(l) ==
  /\ queue[l] # <<>>
  /\ queue' = [queue EXCEPT ![l] = <<>>]
  /\ promise' = [e \in Entries |-> IF e \in Queued(l) THEN "cleared" ELSE promise[e]]
  /\ UNCHANGED <<laneVars, waitVars, active, taskGeneration, body>>

ResetLanesSilently(P) ==                 \* mutant: the waiters are not notified
  LET act == [l \in Lanes |-> IF l \in P THEN {} ELSE active[l]]
      gen == [l \in Lanes |-> IF l \in P THEN generation[l] + 1 ELSE generation[l]]
  IN /\ \A l \in P : generation[l] < MaxGeneration
     /\ generation' = gen
     /\ DrainLanes(P, queue, act, maxConcurrent, gen, body)
     /\ UNCHANGED <<maxConcurrent, promise, waitVars>>

\* The lanes of P go back to idle: their slots are freed although the work
\* in them may still be running, and their queues are pumped.
ResetLanes(P) ==
  LET act == [l \in Lanes |-> IF l \in P THEN {} ELSE active[l]]
      gen == [l \in Lanes |-> IF l \in P THEN generation[l] + 1 ELSE generation[l]]
  IN /\ \A l \in P : generation[l] < MaxGeneration
     /\ generation' = gen
     /\ DrainLanes(P, queue, act, maxConcurrent, gen, body)
     /\ NotifyActiveTaskWaiters(act)
     /\ UNCHANGED <<maxConcurrent, promise>>

ResetCommandLane(l) ==
  /\ ResetLanes({l})
  /\ UNCHANGED gatewayDraining

ResetAllLanes ==
  /\ ResetLanes(Lanes)
  /\ gatewayDraining' = FALSE

MarkGatewayDraining ==
  /\ gatewayDraining' = TRUE
  /\ UNCHANGED <<queue, active, maxConcurrent, generation, taskGeneration, body,
                 promise, waitVars>>

(***************************************************************************)
(* waitForActiveTasks and its timer                                        *)
(***************************************************************************)
WaitForActiveTasks(w, answer) ==
  LET now == AllActive(active) IN
  /\ waiter[w] # "waiting"
  /\ \/ now = {} /\ answer = "drained"
     \/ now # {} /\ answer = "waiting"
     \/ now # {} /\ answer = "timedOut" /\ w \in TimedWaiters  \* timeoutMs <= 0
  /\ waiter' = [waiter EXCEPT ![w] = answer]
  /\ captured' = [captured EXCEPT ![w] = now]
  /\ UNCHANGED <<laneVars, queue, active, taskGeneration, body, promise>>

WaiterTimeout(w) ==
  /\ w \in TimedWaiters
  /\ waiter[w] = "waiting"
  /\ waiter' = [waiter EXCEPT ![w] = "timedOut"]
  /\ UNCHANGED <<laneVars, captured, queue, active, taskGeneration, body, promise>>

EntryStep(e) ==
  \/ EnqueueCommandInLane(e)
  \/ RefuseEnqueue(e)
  \/ \E outcome \in {"resolved", "rejected"} : SettleTask(e, outcome)
  \/ TaskTimeout(e)
  \/ SettleLate(e)

LaneStep(l) ==
  \/ \E n \in Levels : SetCommandLaneConcurrency(l, n)
  \/ ClearCommandLane(l)
  \/ ResetCommandLane(l)

WaiterStep(w) ==
  \/ \E answer \in WaiterStates : WaitForActiveTasks(w, answer)
  \/ WaiterTimeout(w)

Next ==
  \/ \E e \in Entries : EntryStep(e)
  \/ \E l \in Lanes : LaneStep(l)
  \/ \E w \in Waiters : WaiterStep(w)
  \/ ResetAllLanes
  \/ MarkGatewayDraining

Spec == Init /\ [][Next]_vars

(***************************************************************************)
(* Fairness.  Node fires every armed timer; a task's own body may hang for *)
(* ever, which is what taskTimeoutMs is for.  Where a call passes no       *)
(* timeout, its body is assumed to end.                                    *)
(***************************************************************************)
SettleSome(e) == \E outcome \in {"resolved", "rejected"} : SettleTask(e, outcome)

TimersFire == \A e \in Entries : WF_vars(TaskTimeout(e))

BodiesEnd == \A e \in Entries \ Timed : WF_vars(SettleSome(e))

FairSpec == Spec /\ TimersFire /\ BodiesEnd

(***************************************************************************)
(* Safety                                                                  *)
(***************************************************************************)

\* No lost wakeup: a lane with a waiting entry has no free slot.  Nothing
\* polls the lanes, so an entry left beside a free slot would wait for the
\* next unrelated call ("which may never come", command-queue.ts:466-468).
WorkConserving ==
  \A l \in Lanes : queue[l] # <<>> => Cardinality(active[l]) >= maxConcurrent[l]

\* No leaked slot: what holds a slot of a lane is a call of that lane still
\* running and unanswered, of the lane's current generation.  A slot held by
\* anything else would block the lane for ever.
SlotsAreOwned ==
  \A l \in Lanes : \A e \in active[l] :
    /\ LaneOf[e] = l
    /\ body[e] = "running"
    /\ promise[e] = "pending"
    /\ taskGeneration[e] = generation[l]

\* What waits in a lane is a call of that lane, unanswered and not begun, and
\* it waits in one place only.
QueuedOnce ==
  \A l \in Lanes : \A i, j \in 1..Len(queue[l]) :
    /\ LaneOf[queue[l][i]] = l
    /\ body[queue[l][i]] = "idle"
    /\ promise[queue[l][i]] = "pending"
    /\ queue[l][i] = queue[l][j] => i = j

\* No lost call: an unanswered call waits in its lane's queue, or holds a
\* slot, or runs without one because a reset took the slot away.
PendingAccounted ==
  \A e \in Entries : promise[e] = "pending" =>
    \/ body[e] = "idle" /\ e \in Queued(LaneOf[e])
    \/ body[e] = "running" /\ e \in active[LaneOf[e]]
    \/ body[e] = "running" /\ taskGeneration[e] < generation[LaneOf[e]]

\* No orphaned waiter: whoever still waits in waitForActiveTasks waits for a
\* task that holds a slot, whose end will answer it.
WaitersHaveCause ==
  \A w \in Waiters :
    waiter[w] = "waiting" => captured[w] \cap AllActive(active) # {}

\* A call that was never accepted, was refused or was cleared never ran.
OnlyAcceptedRun ==
  \A e \in Entries : body[e] # "idle" => promise[e] \notin {"none", "refused", "cleared"}

\* The inductive invariant of the proofs.
QueueInv ==
  /\ TypeOK
  /\ QueuedOnce
  /\ SlotsAreOwned
  /\ PendingAccounted
  /\ OnlyAcceptedRun
  /\ WorkConserving
  /\ WaitersHaveCause

\* The pump starts work only within the lane's limit of that moment, also in
\* the step that lowers the limit, resets the lane or times a task out.
PumpWithinLimit ==
  [][\A l \in Lanes : active'[l] \ active[l] # {} =>
       Cardinality(active'[l]) <= maxConcurrent'[l]]_vars

\* The queue implements the contract of its callers: order, at most one run
\* of a call, one truthful answer (CallContract).
Contract == INSTANCE CallContract WITH Calls <- Entries, line <- queue

ImplementsContract == Contract!Spec

(***************************************************************************)
(* Liveness                                                                *)
(***************************************************************************)

\* The promise of CommandLaneTaskTimeoutError (command-queue.ts:21-25): "the
\* lane is released so queued work is not blocked forever".  Every accepted
\* call is answered although bodies hang, unless its lane stays suspended
\* (a limit of zero) for ever.
CallsAnswered ==
  \A e \in Entries :
    []<>(maxConcurrent[LaneOf[e]] > 0) =>
      (promise[e] = "pending" ~> promise[e] \in Outcomes)

\* A restart that waits without a timeout is not kept waiting for ever.
WaitersAnswered ==
  \A w \in Waiters : waiter[w] = "waiting" ~> waiter[w] # "waiting"

=============================================================================

----------------------------- MODULE AgentLanes -----------------------------
(***************************************************************************)
(* How agent runs use the lanes of CommandQueue.                           *)
(*                                                                         *)
(* runEmbeddedPiAgent enqueues a task in the lane of its session; that task *)
(* enqueues the run proper in a global lane and returns its promise, so the *)
(* session's slot is held until the run is answered.  A cron run holds a   *)
(* slot of the cron lane around both.  Parents are the calls whose task    *)
(* makes one more call and waits for it; the other calls are leaves.       *)
(*                                                                         *)
(* Around them: the suspension of a lane when a provider's quota is used   *)
(* up, with its resume timer; a reload of the concurrency limits; the       *)
(* release of a stuck session's lane; the restart that drains and resets.  *)
(***************************************************************************)
EXTENDS Integers, FiniteSets, Sequences

CONSTANTS Entries, Lanes, Waiters, TimedWaiters, Timed, MaxGeneration,
          Parents,        \* calls whose task makes a further call
          Child,          \* that further call
          GlobalCalls,    \* calls made through enqueueGlobal
          RequestedLane,  \* the lane each call asks for
          SessionLanes,   \* session:<key> lanes
          Cron, CronNested,
          Limits,         \* configured concurrency limits
          MaxReloads,     \* bound on config reloads (model only)
          MaxSuspensions  \* bound on suspensions (model only)

ASSUME AgentAssumption ==
  /\ IsFiniteSet(Entries)
  /\ Parents \subseteq Entries
  /\ Child \in [Parents -> Entries]
  /\ \A p, q \in Parents : Child[p] = Child[q] => p = q
  /\ Timed \subseteq Entries \ Parents
  /\ TimedWaiters \subseteq Waiters
  /\ RequestedLane \in [Entries -> Lanes]
  /\ SessionLanes \subseteq Lanes
  /\ {Cron, CronNested} \subseteq Lanes \ SessionLanes
  /\ Limits \subseteq Nat \ {0}
  /\ {MaxGeneration, MaxReloads, MaxSuspensions} \subseteq Nat

\* The calls that call e leads to: what is in every set that holds e and,
\* with a call, the further call it makes.
Chain(e) ==
  {x \in Entries : \A S \in SUBSET Entries :
     e \in S /\ (\A p \in S \cap Parents : Child[p] \in S) => x \in S}

\* A task makes calls that were not made before, so its chain ends in a leaf.
ASSUME ChainAssumption ==
  \A e \in Entries : \E x \in Entries \ Parents : x \in Chain(e)

VARIABLES gatewayDraining, queue, active, maxConcurrent, generation,
          taskGeneration, body, promise, waiter, captured,
          configured,    \* the limits of the configuration in force
          loaded,        \* limits of every configuration loaded so far
          resumeTimer,   \* laneResumeTimers: 0, or the limit to restore
          reloads, suspensions   \* counted up to their bounds

ResolveGlobalLaneAsIs(lane) == lane         \* mutant: cron keeps the cron lane

ResolveGlobalLane(lane) == IF lane = Cron THEN CronNested ELSE lane

LaneOfCall == [e \in Entries |->
  IF e \in GlobalCalls THEN ResolveGlobalLane(RequestedLane[e]) ELSE RequestedLane[e]]

INSTANCE CommandQueue WITH LaneOf <- LaneOfCall, ProbeLanes <- {}, Levels <- Limits \cup {0}

laneUserVars == <<configured, loaded, resumeTimer, reloads, suspensions>>
queueVars == <<gatewayDraining, queue, active, maxConcurrent, generation,
               taskGeneration, body, promise, waiter, captured>>
allVars == <<queueVars, laneUserVars>>

Children == {Child[p] : p \in Parents}
TopCalls == Entries \ Children
Leaves == Entries \ Parents
GlobalLanes == Lanes \ SessionLanes

\* What applyGatewayLaneConcurrency reads from a configuration: a limit of
\* each global lane, the same one (cron.maxConcurrentRuns) for the cron lanes.
Configurations ==
  {limit \in [GlobalLanes -> Limits] : limit[Cron] = limit[CronNested]}

EffectiveLimits(limit, max) ==
  [l \in Lanes |-> IF l \in GlobalLanes THEN limit[l] ELSE max[l]]

AgentTypeOK ==
  /\ TypeOK
  /\ configured \in Configurations
  /\ loaded \in [GlobalLanes -> SUBSET Limits]
  /\ resumeTimer \in [Lanes -> {0} \cup Limits]
  /\ reloads \in 0..MaxReloads
  /\ suspensions \in 0..MaxSuspensions

AgentInit ==
  /\ configured \in Configurations
  /\ loaded = [l \in GlobalLanes |-> {configured[l]}]
  /\ IdleLanes(EffectiveLimits(configured, [l \in Lanes |-> 1]))
  /\ resumeTimer = [l \in Lanes |-> 0]
  /\ reloads = 0
  /\ suspensions = 0

Enqueue(e) == EnqueueCommandInLane(e) \/ RefuseEnqueue(e)

(***************************************************************************)
(* Runs                                                                    *)
(***************************************************************************)
CallTop(e) == e \in TopCalls /\ Enqueue(e) /\ UNCHANGED laneUserVars

\* The parent's task calls enqueueGlobal (or, for cron, runEmbeddedPiAgent).
CallChild(p) ==
  /\ body[p] = "running" /\ promise[p] = "pending"
  /\ Enqueue(Child[p])
  /\ UNCHANGED laneUserVars

\* throwIfAborted: the caller's signal was raised before the call was made.
Abort(p) ==
  /\ promise[Child[p]] = "none"
  /\ SettleTask(p, "rejected")
  /\ UNCHANGED laneUserVars

ReturnEarly(p) ==                            \* mutant: does not wait for the child
  /\ promise[Child[p]] # "none"
  /\ SettleTask(p, "resolved")
  /\ UNCHANGED laneUserVars

\* The parent's promise is its child's.
ReturnChild(p) ==
  /\ promise[Child[p]] \in Outcomes
  /\ SettleTask(p, IF promise[Child[p]] = "resolved" THEN "resolved" ELSE "rejected")
  /\ UNCHANGED laneUserVars

EndLeaf(e) == SettleSome(e) /\ UNCHANGED laneUserVars
TimeOutLeaf(e) == TaskTimeout(e) /\ UNCHANGED laneUserVars
EndLeafLate(e) == SettleLate(e) /\ UNCHANGED laneUserVars

(***************************************************************************)
(* Stuck-session recovery: the session has a run in progress that neither   *)
(* the abort nor the wait for it ended, and its lane is released.           *)
(***************************************************************************)
RecoverStuckSession(l) ==
  /\ l \in SessionLanes
  /\ \E p \in active[l] \cap Parents : body[Child[p]] = "running"
  /\ ResetCommandLane(l)
  /\ UNCHANGED laneUserVars

(***************************************************************************)
(* suspendSession and scheduleLaneAutoResume.  The session store is written *)
(* before the lane is closed, so by then the run that hit the quota may    *)
(* have ended; a timer already armed for the lane is replaced.             *)
(***************************************************************************)
SuspendSession(l, n) ==
  /\ \E e \in Leaves : LaneOfCall[e] = l /\ body[e] # "idle"
  /\ n \in loaded[l]   \* the run's own cfg, which may be an earlier one
  /\ suspensions < MaxSuspensions
  /\ suspensions' = suspensions + 1
  /\ SetCommandLaneConcurrency(l, 0)
  /\ resumeTimer' = [resumeTimer EXCEPT ![l] = n]
  /\ UNCHANGED <<configured, loaded, reloads>>

AutoResume(l) ==
  /\ resumeTimer[l] # 0
  /\ SetCommandLaneConcurrency(l, resumeTimer[l])
  /\ resumeTimer' = [resumeTimer EXCEPT ![l] = 0]
  /\ UNCHANGED <<configured, loaded, reloads, suspensions>>

\* applyGatewayLaneConcurrency, at the start of the gateway and at the end
\* of every config reload, whatever the reload changed.
ApplyGatewayLaneConcurrency(limit) ==
  LET max == EffectiveLimits(limit, maxConcurrent) IN
  /\ limit # configured => reloads < MaxReloads
  /\ reloads' = IF limit # configured THEN reloads + 1 ELSE reloads
  /\ configured' = limit
  /\ loaded' = [l \in GlobalLanes |-> loaded[l] \cup {limit[l]}]
  /\ maxConcurrent' = max
  /\ DrainLanes(GlobalLanes, queue, active, max, generation, body)
  /\ UNCHANGED <<gatewayDraining, generation, promise, waiter, captured,
                 resumeTimer, suspensions>>

(***************************************************************************)
(* The restart of the run loop: mark, wait (with or without a timeout),    *)
(* close the server, reset the lanes for the next iteration.               *)
(***************************************************************************)
BeginDrain ==
  /\ ~gatewayDraining
  /\ MarkGatewayDraining
  /\ UNCHANGED laneUserVars

WaitForDrain(w) ==
  /\ gatewayDraining
  /\ waiter[w] = "idle"
  /\ \E answer \in WaiterStates : WaitForActiveTasks(w, answer)
  /\ UNCHANGED laneUserVars

DrainTimeout(w) == WaiterTimeout(w) /\ UNCHANGED laneUserVars

RestartIteration ==
  /\ gatewayDraining
  /\ \A w \in Waiters : waiter[w] \in {"drained", "timedOut"}
  /\ ResetAllLanes
  /\ UNCHANGED laneUserVars

RunStep ==
  \/ \E e \in Entries : CallTop(e)
  \/ \E p \in Parents : CallChild(p) \/ Abort(p) \/ ReturnChild(p)
  \/ \E e \in Leaves : EndLeaf(e) \/ TimeOutLeaf(e) \/ EndLeafLate(e)

ControlStep ==
  \/ \E l \in Lanes : RecoverStuckSession(l) \/ AutoResume(l)
  \/ \E l \in GlobalLanes, n \in Limits : SuspendSession(l, n)
  \/ \E limit \in Configurations : ApplyGatewayLaneConcurrency(limit)

RestartStep ==
  \/ BeginDrain
  \/ \E w \in Waiters : WaitForDrain(w) \/ DrainTimeout(w)
  \/ RestartIteration

AgentNext == RunStep \/ ControlStep \/ RestartStep

AgentSpec == AgentInit /\ [][AgentNext]_allVars

(***************************************************************************)
(* Fairness: the event loop runs what is ready (a task calls its child and  *)
(* returns its answer) and fires the timers of runs and of suspensions.    *)
(* Neither the bodies of timed runs nor aborts, reloads or restarts are     *)
(* assumed to happen.                                                      *)
(***************************************************************************)
AgentFairness ==
  /\ \A p \in Parents : WF_allVars(CallChild(p)) /\ WF_allVars(ReturnChild(p))
  /\ \A e \in Leaves : WF_allVars(TimeOutLeaf(e))
  /\ \A e \in Leaves \ Timed : WF_allVars(EndLeaf(e))
  /\ \A l \in Lanes : WF_allVars(AutoResume(l))

AgentFairSpec == AgentSpec /\ AgentFairness

\* The run that a call leads to.
LeafOf == [e \in Entries |-> CHOOSE x \in Leaves : x \in Chain(e)]

SessionCalls(l) == {e \in Entries : LaneOfCall[e] = l}

\* Two runs of one session overlap only if the older one's caller has been
\* told that it timed out or its lane was released: session slots, global
\* slots and promises together serialize a session (queue.md:111).
SessionExclusive ==
  \A l \in SessionLanes : \A p, q \in SessionCalls(l) :
    p # q /\ body[LeafOf[p]] = "running" /\ body[LeafOf[q]] = "running" =>
      \E r \in {p, q} : \/ promise[LeafOf[r]] = "timedOut"
                        \/ taskGeneration[r] < generation[l]

\* A session's lane runs one call at a time: nobody sets its limit, at the
\* start or by a resume timer.
OneSlotPerSession ==
  \A l \in SessionLanes :
    maxConcurrent[l] = 1 /\ resumeTimer[l] = 0 /\ Cardinality(active[l]) <= 1

\* While a further call is unanswered, the task that made it is running and
\* its own caller waits.
ParentsWait ==
  \A p \in Parents : promise[Child[p]] = "pending" =>
    promise[p] = "pending" /\ body[p] = "running"

\* Whoever called for a running body waits or has been told of a timeout.
RunningUnanswered ==
  \A e \in Entries : body[e] = "running" => promise[e] \in {"pending", "timedOut"}

\* The inductive invariant of the proofs.
AgentInv ==
  /\ AgentTypeOK
  /\ QueueInv
  /\ OneSlotPerSession
  /\ ParentsWait
  /\ RunningUnanswered

\* No deadlock between the cron lane, the session lanes and the global lanes,
\* and no lane closed for ever: every accepted call is answered.
EveryCallAnswered ==
  \A e \in Entries : promise[e] = "pending" ~> promise[e] \in Outcomes

=============================================================================

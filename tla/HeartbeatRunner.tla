-------------------------- MODULE HeartbeatRunner --------------------------
(***************************************************************************)
(* The heartbeat runner over the wake layer (startHeartbeatRunner of        *)
(* src/infra/heartbeat-runner.ts).  A runner registers its handler, keeps   *)
(* one timer for the next interval heartbeat, and re-arms it when a wake    *)
(* has been run; the timer's callback only requests a wake.  Heartbeats may *)
(* be paused (set-heartbeats) and agents configured away meanwhile.        *)
(*                                                                         *)
(* A runner is the registration of its handler.  Abstracted: the interval   *)
(* (an armed timer may fire at any time), the cooldown (a deferred wake is  *)
(* one that is handled), and what the heartbeat says to the agent.         *)
(***************************************************************************)
EXTENDS HeartbeatWake

CONSTANTS Interval,    \* the request of the interval timer
          MaxChanges   \* bound on pauses and configuration changes (model only)

ASSUME RunnerAssumption == Interval \in Requests

VARIABLES live,      \* the runner that is not stopped, or None
          armed,     \* its state.timer
          agents,    \* some agent is configured with a heartbeat (state.agents)
          enabled,   \* heartbeatsEnabled
          admitted,  \* the handler's call of this batch passed its first checks
          changes,
          refused    \* history: it refused a call since it last set its timer

runnerVars == <<live, armed, agents, enabled, admitted, changes, refused>>
rvars == <<wakeVars, runnerVars>>

Events == Requests \ {Interval}

RunnerTypeOK ==
  /\ TypeOK
  /\ live \in 0..registered /\ enabled \in BOOLEAN
  /\ agents \in BOOLEAN /\ armed \in BOOLEAN /\ refused \in BOOLEAN
  /\ armed => agents /\ live # None
  /\ admitted \in [Batches -> BOOLEAN]

RunnerInit ==
  /\ Init
  /\ live = None /\ armed = FALSE
  /\ agents = TRUE /\ enabled = TRUE
  /\ admitted = [b \in Batches |-> FALSE]
  /\ changes = 0
  /\ refused = FALSE

(***************************************************************************)
(* The runner's life                                                       *)
(***************************************************************************)
\* setHeartbeatWakeHandler, then updateConfig.  The run loop has closed the
\* older server, and stopped its runner, by then.
StartHeartbeatRunner(h) ==
  /\ live = None
  /\ SetHandler(h)
  /\ live' = h
  /\ armed' = agents /\ refused' = FALSE
  /\ UNCHANGED <<agents, enabled, admitted, changes>>

\* updateConfig ends with scheduleNext, which clears the timer first.
UpdateConfig(has) ==
  /\ live # None /\ changes < MaxChanges
  /\ changes' = changes + 1
  /\ agents' = has /\ armed' = has /\ refused' = (refused /\ ~has)
  /\ UNCHANGED <<live, enabled, admitted>> /\ UNCHANGED wakeVars

StopKeepsTimer ==                               \* mutant: the timer stays set
  /\ live # None
  /\ Dispose(live)
  /\ live' = None
  /\ refused' = FALSE
  /\ UNCHANGED <<armed, agents, enabled, admitted, changes>>

\* cleanup; what a stopped runner knows is not looked at again.
Stop ==
  /\ live # None
  /\ Dispose(live)
  /\ live' = None
  /\ armed' = FALSE /\ refused' = FALSE
  /\ UNCHANGED <<agents, enabled, admitted, changes>>

SetHeartbeatsEnabled ==
  /\ changes < MaxChanges
  /\ changes' = changes + 1
  /\ enabled' = ~enabled
  /\ UNCHANGED <<live, armed, agents, admitted, refused>> /\ UNCHANGED wakeVars

\* The interval timer's callback.
IntervalDue ==
  /\ armed
  /\ armed' = FALSE
  /\ RequestHeartbeat(Interval)
  /\ UNCHANGED <<live, agents, enabled, admitted, changes, refused>>

\* Anyone else's request, made again only after it was dealt with.
EventWake(r) ==
  /\ r \notin owed
  /\ RequestHeartbeat(r)
  /\ UNCHANGED runnerVars

(***************************************************************************)
(* The handler.  Its checks run when it is called, in the step that hands  *)
(* it a wake; the rest of it when it returns.                              *)
(***************************************************************************)
Admits(h) == h = live /\ enabled /\ agents

\* Runner h is called for batch b; `missed' says whether a refusal stands.
Called(b, h, missed) ==
  /\ admitted' = [admitted EXCEPT ![b] = Admits(h)]
  /\ refused' = (missed \/ (h = live /\ ~Admits(h)))

NotCalled(b, missed) ==
  /\ admitted' = [admitted EXCEPT ![b] = FALSE]
  /\ refused' = missed

TimerFires ==
  \/ (FireUnhandled \/ FireWhileRunning \/ FireEmpty) /\ UNCHANGED runnerVars
  \/ \E b \in Batches, t \in Targets :
       /\ FireBatch(b, t)
       /\ Called(b, handler, refused)
       /\ UNCHANGED <<live, armed, agents, enabled, changes>>

TimeTicks == Tick /\ UNCHANGED runnerVars

\* The handler's call of batch b has ended; the next one is for t, if any.
HandedOver(b, t, missed) ==
  IF t # None THEN Called(b, batches[b].of, missed) ELSE NotCalled(b, missed)

\* scheduleNext in the finally block of the call.
Rearms(b) == batches[b].of = live /\ agents
ScheduleNextForgotten(b) == armed' = armed       \* mutant: no re-arming
ScheduleNext(b) == armed' = (armed \/ Rearms(b))

\* A refused call returns before the block that sets the timer.
CallRefused(b, t) ==
  /\ UnderWay(b) /\ ~admitted[b]
  /\ WakeHandled(b, t)
  /\ HandedOver(b, t, refused)
  /\ UNCHANGED <<live, armed, agents, enabled, changes>>

CallReturns(b, t) ==
  /\ UnderWay(b) /\ admitted[b]
  /\ WakeHandled(b, t)
  /\ ScheduleNext(b)
  /\ HandedOver(b, t, refused /\ ~Rearms(b))
  /\ UNCHANGED <<live, agents, enabled, changes>>

\* A busy skip leaves the timer to the wake layer's retry.
CallBusy(b, t) ==
  /\ UnderWay(b) /\ admitted[b]
  /\ WakeBusy(b, t)
  /\ HandedOver(b, t, refused)
  /\ UNCHANGED <<live, armed, agents, enabled, changes>>

CallThrows(b) ==
  /\ UnderWay(b) /\ admitted[b]
  /\ HandlerThrows(b)
  /\ ScheduleNext(b)
  /\ NotCalled(b, refused /\ ~Rearms(b))
  /\ UNCHANGED <<live, agents, enabled, changes>>

CallEnds(b) ==
  \/ \E t \in Targets \cup {None} :
       CallRefused(b, t) \/ CallReturns(b, t) \/ CallBusy(b, t)
  \/ CallThrows(b)

RunnerNext ==
  \/ \E h \in Handlers : StartHeartbeatRunner(h)
  \/ \E has \in BOOLEAN : UpdateConfig(has)
  \/ Stop \/ SetHeartbeatsEnabled \/ IntervalDue
  \/ \E r \in Events : EventWake(r)
  \/ TimerFires \/ TimeTicks
  \/ \E b \in Batches : CallEnds(b)

RunnerSpec == RunnerInit /\ [][RunnerNext]_rvars

\* The wake timer runs down and fires, and handlers return; nobody has to
\* start, stop or configure, nor the interval to pass.
RunnerFairness ==
  /\ WF_rvars(TimeTicks \/ TimerFires)
  /\ \A b \in Batches : WF_rvars(CallEnds(b))

FairRunnerSpec == RunnerSpec /\ RunnerFairness

(***************************************************************************)
(* Properties                                                              *)
(***************************************************************************)
\* Something will lead the runner to its next interval heartbeat: its timer, a
\* waiting wake, or a call of its handler.
Ticking ==
  \/ armed
  \/ Waiting # {}
  \/ \E b \in Batches : UnderWay(b) /\ batches[b].of = live

Serving == live # None /\ agents /\ enabled

\* A runner in service goes on ticking through busy skips, throwing handlers,
\* other wakes and overlapping batches (heartbeat-runner.ts:2380-2386), unless
\* it refused a call while heartbeats were paused.
ClockKept == Serving => Ticking \/ refused

\* What it rests on, paused or not: the live runner is the one registered, and
\* a call that will set the timer again is one that was not refused.
LiveRegistered == live # None => handler = live
TimerToCome ==
  live # None /\ agents =>
    \/ armed \/ refused
    \/ Waiting # {}
    \/ \E b \in Batches : UnderWay(b) /\ batches[b].of = live /\ admitted[b]

RunnerInv == RunnerTypeOK /\ WakeInv /\ LiveRegistered /\ TimerToCome

\* "Always re-arm the timer" (heartbeat-runner.ts:2381), and `enable' turns
\* heartbeats back on (docs/cli/system.md:64): a pause does not stop the clock.
\* Refuted: a tick refused during the pause is the last one.
ClockSurvivesPause == Serving => Ticking

\* While a handler stays registered, every event that asked for a wake of the
\* interval's own target is at last dealt with, though its wake is merged with
\* the interval's, retried, and queued behind batches of an older lifecycle.
EventsHandled ==
  \A r \in {e \in Events : TargetOf[e] = TargetOf[Interval]} :
    r \in owed ~> (r \notin owed \/ handler = None)
=============================================================================

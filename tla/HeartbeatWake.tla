--------------------------- MODULE HeartbeatWake ---------------------------
(***************************************************************************)
(* The wake layer of the heartbeat (src/infra/heartbeat-wake.ts): wakes    *)
(* wait by target, one timer coalesces them into a batch, and the batch    *)
(* hands them one after the other to the registered handler.  The handler   *)
(* is swapped when the gateway restarts inside the process, which may find  *)
(* a batch of the older lifecycle still under way.                          *)
(*                                                                         *)
(* A wake is a request that stands for all those merged into it.  Time is   *)
(* what is left of the one timer; a timer may fire late.  The order of a    *)
(* batch is any order of its targets.                                      *)
(***************************************************************************)
EXTENDS Integers, FiniteSets

CONSTANTS Requests,      \* the wakes that may be requested
          TargetOf,      \* the agent and session each asks for
          PriorityOf,    \* REASON_PRIORITY of its source, intent and reason
          CoalesceOf,    \* its coalesceMs
          CoalesceDelay, \* DEFAULT_COALESCE_MS
          RetryDelay,    \* DEFAULT_RETRY_MS
          MaxHandlers,   \* bound on registrations (model only)
          Batches,       \* names for the batches under way at once
          MaxFailures    \* bound on busy skips and on throws (model only)

None == 0
Handlers == 1..MaxHandlers
Targets == {TargetOf[r] : r \in Requests}

ASSUME WakeAssumption ==
  /\ PriorityOf \in [Requests -> 0..3]
  /\ CoalesceOf \in [Requests -> Nat]
  /\ CoalesceDelay \in Nat /\ RetryDelay \in Nat
  /\ MaxHandlers \in Nat /\ Batches \subseteq Nat
  /\ None \notin Targets
  /\ Requests # {}

VARIABLES handler,    \* the registered handler, or None
          registered, \* how many handlers were registered
          generation, \* handlerGeneration
          captured,   \* the generation each registration's disposer captured
          pending,    \* pendingWakes
          timer,      \* timer, timerDueAt (as the time left) and timerKind
          scheduled, running,
          batches,    \* the batches whose handler is being awaited
          failures,
          owed,       \* history: requests no handler has dealt with yet
          intruded    \* history: an older lifecycle's batch ended in this one

wakeVars == <<handler, registered, generation, captured, pending, timer,
              scheduled, running, batches, failures, owed, intruded>>

\* [request: whose data the wake carries,
\*  merged: history, the requests it stands for that nobody has dealt with]
Wakes == [request : Requests, merged : SUBSET Requests]
WakeMaps == UNION {[ts -> Wakes] : ts \in SUBSET Targets}
NoWakes == [t \in {} |-> CHOOSE w \in Wakes : TRUE]
Off == [left |-> 0, kind |-> "off", delay |-> 0]
NoBatch == [of |-> None, wakes |-> NoWakes, rest |-> {}, now |-> None, delay |-> 0]

UnderWay(b) == batches[b].of # None
Waiting == DOMAIN pending

TypeOK ==
  /\ handler \in 0..registered
  /\ registered \in 0..MaxHandlers
  /\ pending \in WakeMaps
  /\ \A t \in Waiting : TargetOf[pending[t].request] = t
  /\ timer \in [left : Nat, kind : {"off", "normal", "retry"}, delay : Nat]
  /\ timer.left <= timer.delay
  /\ scheduled \in BOOLEAN /\ running \in BOOLEAN /\ intruded \in BOOLEAN
  /\ batches \in [Batches -> [of : 0..registered, wakes : WakeMaps,
                              rest : SUBSET Targets, now : Targets \cup {None},
                              delay : Nat]]
  /\ \A b \in Batches : UnderWay(b) =>
       /\ batches[b].now \in DOMAIN batches[b].wakes
       /\ batches[b].rest \subseteq DOMAIN batches[b].wakes \ {batches[b].now}
  /\ \A b \in Batches : \A t \in DOMAIN batches[b].wakes :
       TargetOf[batches[b].wakes[t].request] = t
  /\ owed \subseteq Requests

Init ==
  /\ handler = None /\ registered = 0
  /\ generation = 0 /\ captured = [h \in Handlers |-> 0]
  /\ pending = NoWakes
  /\ timer = Off /\ scheduled = FALSE /\ running = FALSE
  /\ batches = [b \in Batches |-> NoBatch]
  /\ failures = 0
  /\ owed = {} /\ intruded = FALSE

(***************************************************************************)
(* Pending wakes and the timer                                             *)
(***************************************************************************)
MergedLatest(old, new) ==                       \* mutant: no priorities
  [request |-> new.request, merged |-> old.merged \cup new.merged]

\* The later request wins unless the waiting one is more urgent.
Merged(old, new) ==
  [request |-> IF PriorityOf[new.request] >= PriorityOf[old.request]
               THEN new.request ELSE old.request,
   merged |-> old.merged \cup new.merged]

QueuePending(ps, ws) ==
  [t \in DOMAIN ps \cup DOMAIN ws |->
     IF t \notin DOMAIN ws THEN ps[t]
     ELSE IF t \notin DOMAIN ps THEN ws[t] ELSE Merged(ps[t], ws[t])]

WakeFor(r) == [t \in {TargetOf[r]} |-> [request |-> r, merged |-> {r}]]

Arm(delay, kind) == [left |-> delay, kind |-> kind, delay |-> delay]

Scheduled(tm, delay, kind) ==
  IF tm.kind = "retry" \/ (tm.kind = "normal" /\ tm.left <= delay)
  THEN tm ELSE Arm(delay, kind)

Tick ==
  /\ timer.left > 0
  /\ timer' = [timer EXCEPT !.left = @ - 1]
  /\ UNCHANGED <<handler, registered, generation, captured, pending, scheduled,
                 running, batches, failures, owed, intruded>>

RequestHeartbeat(r) ==
  /\ pending' = QueuePending(pending, WakeFor(r))
  /\ timer' = Scheduled(timer, CoalesceOf[r], "normal")
  /\ owed' = owed \cup {r}
  /\ UNCHANGED <<handler, registered, generation, captured, scheduled, running,
                 batches, failures, intruded>>

(***************************************************************************)
(* Registration                                                            *)
(***************************************************************************)
RescheduledNever == Off                         \* mutant: waiting wakes are left
RescheduledForHandler == IF Waiting # {} THEN Arm(CoalesceDelay, "normal") ELSE Off

\* setHeartbeatWakeHandler(next), which only a starting runner calls.
SetHandler(h) ==
  /\ registered < MaxHandlers /\ h = registered + 1
  /\ registered' = h
  /\ generation' = generation + 1
  /\ captured' = [captured EXCEPT ![h] = generation + 1]
  /\ handler' = h
  /\ timer' = RescheduledForHandler
  /\ running' = FALSE /\ scheduled' = FALSE
  /\ intruded' = FALSE
  /\ UNCHANGED <<pending, batches, failures, owed>>

\* The disposer of registration h; one that is no longer current does nothing.
Dispose(h) ==
  /\ IF generation = captured[h] /\ handler = h
     THEN generation' = generation + 1 /\ handler' = None
     ELSE UNCHANGED <<generation, handler>>
  /\ UNCHANGED <<registered, captured, pending, timer, scheduled, running,
                 batches, failures, owed, intruded>>

(***************************************************************************)
(* The timer's callback                                                    *)
(***************************************************************************)
Due == timer.kind # "off" /\ timer.left = 0

FireUnhandled ==
  /\ Due /\ handler = None
  /\ timer' = Off /\ scheduled' = FALSE
  /\ UNCHANGED <<handler, registered, generation, captured, pending, running,
                 batches, failures, owed, intruded>>

FireWhileRunning ==
  /\ Due /\ handler # None /\ running
  /\ timer' = Arm(timer.delay, timer.kind) /\ scheduled' = TRUE
  /\ UNCHANGED <<handler, registered, generation, captured, pending, running,
                 batches, failures, owed, intruded>>

FireEmpty ==
  /\ Due /\ handler # None /\ ~running /\ Waiting = {}
  /\ timer' = Off /\ scheduled' = FALSE
  /\ UNCHANGED <<handler, registered, generation, captured, pending, running,
                 batches, failures, owed, intruded>>

MayBeginAnyway == TRUE                          \* mutant: no running guard
MayBegin == ~running

\* The pending wakes become batch b, whose first wake t is handed over.
FireBatch(b, t) ==
  /\ Due /\ handler # None /\ MayBegin /\ t \in Waiting
  /\ ~UnderWay(b) /\ \A c \in Batches : c < b => UnderWay(c)
  /\ batches' = [batches EXCEPT ![b] =
       [of |-> handler, wakes |-> pending, rest |-> Waiting \ {t}, now |-> t,
        delay |-> timer.delay]]
  /\ pending' = NoWakes
  /\ timer' = Off /\ scheduled' = FALSE /\ running' = TRUE
  /\ UNCHANGED <<handler, registered, generation, captured, failures,
                 owed, intruded>>

(***************************************************************************)
(* The end of a wake.  ps and tm are pending and timer as the catch or the *)
(* retry left them; the finally block runs when the batch is done.          *)
(***************************************************************************)
Rescheduled(ps, tm, delay) ==
  IF DOMAIN ps # {} \/ scheduled THEN Scheduled(tm, delay, "normal") ELSE tm

EndBatch(b, ps, tm) ==
  /\ batches' = [batches EXCEPT ![b] = NoBatch]
  /\ running' = FALSE
  /\ timer' = Rescheduled(ps, tm, batches[b].delay)
  /\ intruded' = (intruded \/ (handler # None /\ batches[b].of # handler))

NextWake(b, t, tm) ==
  /\ t \in batches[b].rest
  /\ batches' = [batches EXCEPT ![b].now = t, ![b].rest = @ \ {t}]
  /\ timer' = tm
  /\ UNCHANGED <<running, intruded>>

\* The batch goes on with its wake t, or ends when t is None.
GoOn(b, t, ps, tm) ==
  \/ NextWake(b, t, tm)
  \/ batches[b].rest = {} /\ t = None /\ EndBatch(b, ps, tm)

Current(b) == batches[b].wakes[batches[b].now]
StillWaiting == UNION {pending[t].merged : t \in Waiting}

\* The handler ran, failed, or skipped for a reason that is not worth a retry.
WakeHandled(b, t) ==
  /\ UnderWay(b)
  /\ owed' = owed \ (Current(b).merged \ StillWaiting)
  /\ pending' = pending
  /\ GoOn(b, t, pending, timer)
  /\ UNCHANGED <<handler, registered, generation, captured, scheduled, failures>>

\* It skipped because the session is busy.
WakeBusy(b, t) ==
  /\ UnderWay(b) /\ failures < MaxFailures
  /\ failures' = failures + 1
  /\ pending' = QueuePending(pending, [u \in {batches[b].now} |-> Current(b)])
  /\ GoOn(b, t, pending', Scheduled(timer, RetryDelay, "retry"))
  /\ UNCHANGED <<handler, registered, generation, captured, scheduled, owed>>

RequeuedCurrent(b) == [u \in {batches[b].now} |-> Current(b)]   \* mutant: one wake

\* What the catch block queues again.
Requeued(b) ==
  [t \in DOMAIN batches[b].wakes |->
     [batches[b].wakes[t] EXCEPT !.merged = @ \cap owed]]

HandlerThrows(b) ==
  /\ UnderWay(b) /\ failures < MaxFailures
  /\ failures' = failures + 1
  /\ pending' = QueuePending(pending, Requeued(b))
  /\ EndBatch(b, pending', Scheduled(timer, RetryDelay, "retry"))
  /\ UNCHANGED <<handler, registered, generation, captured, scheduled, owed>>

WakeNext ==
  \/ Tick
  \/ \E r \in Requests : RequestHeartbeat(r)
  \/ \E h \in Handlers : SetHandler(h) \/ Dispose(h)
  \/ FireUnhandled \/ FireWhileRunning \/ FireEmpty
  \/ \E b \in Batches, t \in Targets : FireBatch(b, t)
  \/ \E b \in Batches, t \in Targets \cup {None} : WakeHandled(b, t) \/ WakeBusy(b, t)
  \/ \E b \in Batches : HandlerThrows(b)

WakeSpec == Init /\ [][WakeNext]_wakeVars

(***************************************************************************)
(* Properties                                                              *)
(***************************************************************************)
\* While a handler is registered, whatever waits has a timer, or a batch is
\* under way whose end will set one (heartbeat-wake.ts:262-267, 308-310).
NoStrandedWake ==
  handler # None /\ Waiting # {} =>
    timer.kind # "off" \/ \E b \in Batches : UnderWay(b)

\* The wakes of a batch not yet handed over, and the one being handled.
Unhandled(b) == IF UnderWay(b) THEN batches[b].rest \cup {batches[b].now} ELSE {}

\* A request nobody dealt with is in a waiting wake or in a batch: a busy
\* skip, a handler that throws half way (249-261) and a new handler lose none.
NoForgottenRequest ==
  \A r \in owed :
    \/ r \in StillWaiting
    \/ \E b \in Batches : \E t \in Unhandled(b) : r \in batches[b].wakes[t].merged

Urgent(ws) ==
  \A t \in DOMAIN ws : \A r \in ws[t].merged :
    PriorityOf[ws[t].request] >= PriorityOf[r]

\* A wake is as urgent as the most urgent request merged into it, also when a
\* retry meets a newer request (166-183); a less urgent one might be deferred.
UrgencyKept == Urgent(pending)

\* A handler has one batch at a time (216-220), except after a batch of an
\* older lifecycle has ended and cleared the running flag of this one (263).
OneBatchPerHandler ==
  \A b, c \in Batches :
    b # c /\ UnderWay(b) /\ UnderWay(c) /\ batches[b].of = batches[c].of
      => batches[b].of # handler \/ intruded

\* What the four rest on: a batch carries wakes as urgent as they were when
\* they waited, and the running flag is set while the handler's batch runs.
BatchesUrgent == \A b \in Batches : Urgent(batches[b].wakes)
RunningKnown ==
  \A b \in Batches : UnderWay(b) /\ batches[b].of = handler => running \/ intruded

WakeInv ==
  /\ TypeOK
  /\ NoStrandedWake /\ NoForgottenRequest
  /\ UrgencyKept /\ BatchesUrgent
  /\ OneBatchPerHandler /\ RunningKnown
=============================================================================

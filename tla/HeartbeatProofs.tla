--------------------------- MODULE HeartbeatProofs ---------------------------
(***************************************************************************)
(* Proofs about the heartbeat's wake layer and its runner, for any         *)
(* requests, targets, priorities and delays and any number of lifecycles,  *)
(* batches and failures.                                                   *)
(***************************************************************************)
EXTENDS HeartbeatRunner, TLAPS

(***************************************************************************)
(* Merging and the timer                                                   *)
(***************************************************************************)
OfTarget(ws) == \A t \in DOMAIN ws : TargetOf[ws[t].request] = t

LEMMA WakeMapsAre ==
  ASSUME NEW ws \in WakeMaps
  PROVE  DOMAIN ws \subseteq Targets /\ ws \in [DOMAIN ws -> Wakes]
  BY DEF WakeMaps

LEMMA NoWakesIsEmpty ==
  NoWakes \in WakeMaps /\ DOMAIN NoWakes = {} /\ Urgent(NoWakes) /\ OfTarget(NoWakes)
  <1>1. DOMAIN NoWakes = {} /\ NoWakes \in [{} -> Wakes]
    BY DEF NoWakes
  <1>2. NoWakes \in WakeMaps
    BY <1>1 DEF WakeMaps
  <1>3. QED
    BY <1>1, <1>2 DEF Urgent, OfTarget

\* Of two wakes the merged one stands for all they stood for, and is as urgent.
LEMMA MergedKeeps ==
  ASSUME NEW old \in Wakes, NEW new \in Wakes
  PROVE  /\ Merged(old, new) \in Wakes
         /\ Merged(old, new).request \in {old.request, new.request}
         /\ Merged(old, new).merged = old.merged \cup new.merged
         /\ PriorityOf[Merged(old, new).request] >= PriorityOf[old.request]
         /\ PriorityOf[Merged(old, new).request] >= PriorityOf[new.request]
  BY WakeAssumption DEF Merged, Wakes

LEMMA QueuePendingKeeps ==
  ASSUME NEW ps \in WakeMaps, NEW ws \in WakeMaps
  PROVE  LET qs == QueuePending(ps, ws)
         IN  /\ qs \in WakeMaps
             /\ DOMAIN qs = DOMAIN ps \cup DOMAIN ws
             /\ \A t \in DOMAIN ps : ps[t].merged \subseteq qs[t].merged
             /\ \A t \in DOMAIN ws : ws[t].merged \subseteq qs[t].merged
             /\ OfTarget(ps) /\ OfTarget(ws) => OfTarget(qs)
             /\ Urgent(ps) /\ Urgent(ws) => Urgent(qs)
  <1> DEFINE qs == QueuePending(ps, ws)
  <1>1. /\ DOMAIN ps \subseteq Targets /\ ps \in [DOMAIN ps -> Wakes]
        /\ DOMAIN ws \subseteq Targets /\ ws \in [DOMAIN ws -> Wakes]
    BY WakeMapsAre
  <1>2. DOMAIN qs = DOMAIN ps \cup DOMAIN ws
    BY DEF QueuePending
  <1>3. \A t \in DOMAIN qs :
          qs[t] = IF t \notin DOMAIN ws THEN ps[t]
                  ELSE IF t \notin DOMAIN ps THEN ws[t] ELSE Merged(ps[t], ws[t])
    BY DEF QueuePending
  <1>4. \A t \in DOMAIN ps \cap DOMAIN ws :
          /\ qs[t] \in Wakes
          /\ qs[t].request \in {ps[t].request, ws[t].request}
          /\ qs[t].merged = ps[t].merged \cup ws[t].merged
          /\ PriorityOf[qs[t].request] >= PriorityOf[ps[t].request]
          /\ PriorityOf[qs[t].request] >= PriorityOf[ws[t].request]
    BY <1>1, <1>2, <1>3, MergedKeeps
  <1>5. qs \in [DOMAIN ps \cup DOMAIN ws -> Wakes]
    BY <1>1, <1>3, <1>4 DEF QueuePending
  <1>6. qs \in WakeMaps
    BY <1>1, <1>5 DEF WakeMaps
  <1>7. /\ \A t \in DOMAIN ps : ps[t].merged \subseteq qs[t].merged
        /\ \A t \in DOMAIN ws : ws[t].merged \subseteq qs[t].merged
    BY <1>2, <1>3, <1>4
  <1>8. OfTarget(ps) /\ OfTarget(ws) => OfTarget(qs)
    BY <1>2, <1>3, <1>4 DEF OfTarget
  <1>9. ASSUME Urgent(ps), Urgent(ws)
        PROVE  Urgent(qs)
    <2> SUFFICES ASSUME NEW t \in DOMAIN qs, NEW r \in qs[t].merged
                 PROVE  PriorityOf[qs[t].request] >= PriorityOf[r]
      BY DEF Urgent
    <2>1. CASE t \in DOMAIN ps \cap DOMAIN ws
      <3>1. \/ PriorityOf[ps[t].request] >= PriorityOf[r]
            \/ PriorityOf[ws[t].request] >= PriorityOf[r]
        BY <1>4, <1>9, <2>1 DEF Urgent
      <3>2. /\ ps[t] \in Wakes /\ ws[t] \in Wakes /\ qs[t] \in Wakes
            /\ r \in Requests
        BY <1>1, <1>4, <2>1 DEF Wakes
      <3>3. \A q \in Requests : PriorityOf[q] \in Int
        BY WakeAssumption
      <3>4. /\ PriorityOf[qs[t].request] \in Int /\ PriorityOf[r] \in Int
            /\ PriorityOf[ps[t].request] \in Int /\ PriorityOf[ws[t].request] \in Int
        BY <3>2, <3>3 DEF Wakes
      <3>5. /\ PriorityOf[qs[t].request] >= PriorityOf[ps[t].request]
            /\ PriorityOf[qs[t].request] >= PriorityOf[ws[t].request]
        BY <1>4, <2>1
      <3>6. QED
        BY <3>1, <3>4, <3>5
    <2>2. CASE t \notin DOMAIN ws
      BY <1>2, <1>3, <1>9, <2>2 DEF Urgent
    <2>3. CASE t \in DOMAIN ws /\ t \notin DOMAIN ps
      BY <1>2, <1>3, <1>9, <2>3 DEF Urgent
    <2>4. QED
      BY <1>2, <2>1, <2>2, <2>3
  <1>10. QED
    BY <1>2, <1>6, <1>7, <1>8, <1>9

Timers == [left : Nat, kind : {"off", "normal", "retry"}, delay : Nat]
TimerFine(tm) == tm \in Timers /\ tm.left <= tm.delay

LEMMA TimersAre ==
  /\ TimerFine(Off)
  /\ \A delay \in Nat, kind \in {"normal", "retry"} :
       TimerFine(Arm(delay, kind)) /\ Arm(delay, kind).kind = kind
  BY DEF TimerFine, Timers, Off, Arm

LEMMA ScheduledKeeps ==
  ASSUME NEW tm, TimerFine(tm), NEW delay \in Nat, NEW kind \in {"normal", "retry"}
  PROVE  TimerFine(Scheduled(tm, delay, kind)) /\ Scheduled(tm, delay, kind).kind # "off"
  BY DEF TimerFine, Timers, Arm, Scheduled

(***************************************************************************)
(* The wake layer, one lemma for each action                               *)
(***************************************************************************)
LEMMA WakeInit == ASSUME Init PROVE WakeInv
  <1>1. /\ handler = None /\ registered = 0 /\ pending = NoWakes /\ timer = Off
        /\ scheduled = FALSE /\ running = FALSE /\ owed = {} /\ intruded = FALSE
        /\ batches = [b \in Batches |-> NoBatch]
    BY DEF Init
  <1>2. \A b \in Batches : ~UnderWay(b) /\ batches[b].wakes = NoWakes
    BY <1>1 DEF UnderWay, NoBatch
  <1>3. TypeOK
    <2>1. batches \in [Batches -> [of : 0..registered, wakes : WakeMaps,
                                   rest : SUBSET Targets, now : Targets \cup {None},
                                   delay : Nat]]
      BY <1>1, NoWakesIsEmpty DEF NoBatch, None
    <2>2. handler \in 0..registered /\ registered \in 0..MaxHandlers
      BY <1>1, WakeAssumption DEF None
    <2>3. /\ timer \in [left : Nat, kind : {"off", "normal", "retry"}, delay : Nat]
          /\ timer.left <= timer.delay
      BY <1>1 DEF Off
    <2>4. \A b \in Batches : DOMAIN batches[b].wakes = {}
      BY <1>2, NoWakesIsEmpty
    <2>5. QED
      BY <1>1, <1>2, <2>1, <2>2, <2>3, <2>4, NoWakesIsEmpty DEF TypeOK, Waiting
  <1>4. NoStrandedWake /\ NoForgottenRequest /\ UrgencyKept /\ BatchesUrgent
    BY <1>1, <1>2, NoWakesIsEmpty
       DEF NoStrandedWake, NoForgottenRequest, UrgencyKept, BatchesUrgent
  <1>5. OneBatchPerHandler /\ RunningKnown
    BY <1>2 DEF OneBatchPerHandler, RunningKnown
  <1>6. QED
    BY <1>3, <1>4, <1>5 DEF WakeInv

\* Steps that touch only the timer and the scheduled flag.
LEMMA TimerStepKeeps ==
  ASSUME WakeInv,
         UNCHANGED <<handler, registered, pending, running, batches, owed, intruded>>,
         TimerFine(timer'), scheduled' \in BOOLEAN,
         handler # None /\ Waiting # {} => timer'.kind # "off"
  PROVE  WakeInv'
  <1>1. TypeOK'
    BY DEF WakeInv, TypeOK, TimerFine, Timers, Waiting, UnderWay
  <1>2. NoStrandedWake'
    BY DEF NoStrandedWake, Waiting
  <1>3. NoForgottenRequest'
    BY DEF WakeInv, NoForgottenRequest, StillWaiting, Unhandled, UnderWay, Waiting
  <1>4. UrgencyKept' /\ BatchesUrgent'
    BY DEF WakeInv, UrgencyKept, BatchesUrgent, Urgent
  <1>5. OneBatchPerHandler' /\ RunningKnown'
    BY DEF WakeInv, OneBatchPerHandler, RunningKnown, UnderWay
  <1>6. QED
    BY <1>1, <1>2, <1>3, <1>4, <1>5 DEF WakeInv

LEMMA TickKeeps ==
  ASSUME WakeInv, Tick PROVE WakeInv'
  <1>1. /\ timer \in Timers /\ timer.left <= timer.delay /\ timer.left > 0
        /\ timer' = [timer EXCEPT !.left = @ - 1]
    BY DEF WakeInv, TypeOK, Timers, Tick
  <1>2. TimerFine(timer') /\ timer'.kind = timer.kind
    BY <1>1 DEF TimerFine, Timers
  <1>3. CASE timer.kind # "off"
    <2>1. scheduled \in BOOLEAN
      BY DEF WakeInv, TypeOK
    <2>2. QED
      BY <1>2, <1>3, <2>1, TimerStepKeeps DEF Tick
  <1>4. CASE timer.kind = "off"
    <2>1. TypeOK'
      BY <1>2 DEF Tick, WakeInv, TypeOK, TimerFine, Timers, Waiting, UnderWay
    <2>2. NoStrandedWake'
      BY <1>2 DEF Tick, WakeInv, NoStrandedWake, Waiting, UnderWay
    <2>3. NoForgottenRequest'
      BY DEF Tick, WakeInv, NoForgottenRequest, StillWaiting, Unhandled, UnderWay, Waiting
    <2>4. UrgencyKept' /\ BatchesUrgent'
      BY DEF Tick, WakeInv, UrgencyKept, BatchesUrgent, Urgent
    <2>5. OneBatchPerHandler' /\ RunningKnown'
      BY DEF Tick, WakeInv, OneBatchPerHandler, RunningKnown, UnderWay
    <2>6. QED
      BY <2>1, <2>2, <2>3, <2>4, <2>5 DEF WakeInv
  <1>5. QED
    BY <1>3, <1>4

LEMMA FireUnhandledKeeps ==
  ASSUME WakeInv, FireUnhandled PROVE WakeInv'
  BY TimersAre, TimerStepKeeps DEF FireUnhandled

LEMMA FireEmptyKeeps ==
  ASSUME WakeInv, FireEmpty PROVE WakeInv'
  BY TimersAre, TimerStepKeeps DEF FireEmpty

LEMMA FireWhileRunningKeeps ==
  ASSUME WakeInv, FireWhileRunning PROVE WakeInv'
  <1>1. timer.delay \in Nat /\ timer.kind \in {"normal", "retry"}
    BY DEF WakeInv, TypeOK, FireWhileRunning, Due
  <1>2. TimerFine(timer') /\ timer'.kind # "off"
    BY <1>1, TimersAre DEF FireWhileRunning
  <1>3. QED
    BY <1>2, TimerStepKeeps DEF FireWhileRunning

LEMMA RequestHeartbeatKeeps ==
  ASSUME WakeInv, NEW r \in Requests, RequestHeartbeat(r) PROVE WakeInv'
  <1> DEFINE w == WakeFor(r)
  <1>1. /\ pending' = QueuePending(pending, w)
        /\ timer' = Scheduled(timer, CoalesceOf[r], "normal")
        /\ owed' = owed \cup {r}
        /\ UNCHANGED <<handler, registered, scheduled, running, batches, intruded>>
    BY DEF RequestHeartbeat
  <1>2. /\ DOMAIN w = {TargetOf[r]}
        /\ w[TargetOf[r]] = [request |-> r, merged |-> {r}]
    BY DEF WakeFor
  <1>3. w \in WakeMaps
    <2>1. w \in [{TargetOf[r]} -> Wakes]
      BY DEF WakeFor, Wakes
    <2>2. TargetOf[r] \in Targets
      BY DEF Targets
    <2>3. QED
      BY <2>1, <2>2 DEF WakeMaps
  <1>4. OfTarget(w) /\ Urgent(w)
    <2>1. PriorityOf[r] >= PriorityOf[r]
      BY WakeAssumption
    <2>2. QED
      BY <1>2, <2>1 DEF OfTarget, Urgent
  <1>5. pending \in WakeMaps /\ OfTarget(pending) /\ Urgent(pending)
    BY DEF WakeInv, TypeOK, OfTarget, UrgencyKept, Waiting
  <1>6. /\ pending' \in WakeMaps
        /\ DOMAIN pending' = DOMAIN pending \cup DOMAIN w
        /\ \A t \in DOMAIN pending : pending[t].merged \subseteq pending'[t].merged
        /\ \A t \in DOMAIN w : w[t].merged \subseteq pending'[t].merged
        /\ OfTarget(pending') /\ Urgent(pending')
    BY <1>1, <1>3, <1>4, <1>5, QueuePendingKeeps
  <1>7. TimerFine(timer') /\ timer'.kind # "off"
    <2>1. TimerFine(timer) /\ CoalesceOf[r] \in Nat
      BY WakeAssumption DEF WakeInv, TypeOK, TimerFine, Timers
    <2>2. QED
      BY <1>1, <2>1, ScheduledKeeps
  <1>8. TypeOK'
    BY <1>1, <1>6, <1>7 DEF WakeInv, TypeOK, TimerFine, Timers, OfTarget, Waiting, UnderWay
  <1>9. NoStrandedWake'
    BY <1>7 DEF NoStrandedWake
  <1>10. NoForgottenRequest'
    <2>1. StillWaiting \cup {r} \subseteq StillWaiting'
      BY <1>2, <1>6 DEF StillWaiting, Waiting
    <2>2. QED
      BY <1>1, <2>1 DEF WakeInv, NoForgottenRequest, Unhandled, UnderWay
  <1>11. UrgencyKept' /\ BatchesUrgent'
    BY <1>1, <1>6 DEF WakeInv, UrgencyKept, BatchesUrgent, Urgent
  <1>12. OneBatchPerHandler' /\ RunningKnown'
    BY <1>1 DEF WakeInv, OneBatchPerHandler, RunningKnown, UnderWay
  <1>13. QED
    BY <1>8, <1>9, <1>10, <1>11, <1>12 DEF WakeInv

LEMMA SetHandlerKeeps ==
  ASSUME WakeInv, NEW h \in Handlers, SetHandler(h) PROVE WakeInv'
  <1>1. /\ registered < MaxHandlers /\ h = registered + 1
        /\ registered' = h /\ handler' = h /\ timer' = RescheduledForHandler
        /\ running' = FALSE /\ scheduled' = FALSE /\ intruded' = FALSE
        /\ UNCHANGED <<pending, batches, owed>>
    BY DEF SetHandler
  <1>2. registered \in Nat /\ MaxHandlers \in Nat
    BY WakeAssumption DEF WakeInv, TypeOK
  <1>3. TimerFine(timer') /\ (Waiting # {} => timer'.kind # "off")
    BY <1>1, TimersAre, WakeAssumption DEF RescheduledForHandler
  <1>4. 0..registered \subseteq 0..registered' /\ registered' \in 0..MaxHandlers
    BY <1>1, <1>2
  <1>5. TypeOK'
    <2>1. batches' \in [Batches -> [of : 0..registered', wakes : WakeMaps,
                                    rest : SUBSET Targets, now : Targets \cup {None},
                                    delay : Nat]]
      BY <1>1, <1>4 DEF WakeInv, TypeOK
    <2>2. handler' \in 0..registered'
      BY <1>1, <1>2
    <2>3. QED
      BY <1>1, <1>3, <1>4, <2>1, <2>2
         DEF WakeInv, TypeOK, TimerFine, Timers, Waiting, UnderWay
  <1>6. NoStrandedWake'
    BY <1>1, <1>3 DEF NoStrandedWake, Waiting
  <1>7. NoForgottenRequest'
    BY <1>1 DEF WakeInv, NoForgottenRequest, StillWaiting, Unhandled, UnderWay, Waiting
  <1>8. UrgencyKept' /\ BatchesUrgent'
    BY <1>1 DEF WakeInv, UrgencyKept, BatchesUrgent, Urgent
  <1>9. \A b \in Batches : batches'[b].of # handler'
    <2>1. \A b \in Batches : batches[b].of \in 0..registered
      BY DEF WakeInv, TypeOK
    <2>2. QED
      BY <1>1, <1>2, <2>1
  <1>10. OneBatchPerHandler' /\ RunningKnown'
    BY <1>9 DEF OneBatchPerHandler, RunningKnown
  <1>11. QED
    BY <1>5, <1>6, <1>7, <1>8, <1>10 DEF WakeInv

LEMMA DisposeKeeps ==
  ASSUME WakeInv, NEW h \in Handlers, Dispose(h) PROVE WakeInv'
  <1>1. /\ handler' \in {handler, None}
        /\ UNCHANGED <<registered, pending, timer, scheduled, running, batches,
                       owed, intruded>>
    BY DEF Dispose
  <1>2. registered \in Nat /\ None \in 0..registered
    BY DEF WakeInv, TypeOK, None
  <1>3. TypeOK'
    BY <1>1, <1>2 DEF WakeInv, TypeOK, Waiting, UnderWay
  <1>4. NoStrandedWake'
    BY <1>1 DEF WakeInv, NoStrandedWake, Waiting, UnderWay
  <1>5. NoForgottenRequest'
    BY <1>1 DEF WakeInv, NoForgottenRequest, StillWaiting, Unhandled, UnderWay, Waiting
  <1>6. UrgencyKept' /\ BatchesUrgent'
    BY <1>1 DEF WakeInv, UrgencyKept, BatchesUrgent, Urgent
  <1>7. OneBatchPerHandler' /\ RunningKnown'
    BY <1>1 DEF WakeInv, OneBatchPerHandler, RunningKnown, UnderWay
  <1>8. QED
    BY <1>3, <1>4, <1>5, <1>6, <1>7 DEF WakeInv

(***************************************************************************)
(* Batches                                                                 *)
(***************************************************************************)
BatchRecords ==
  [of : 0..registered, wakes : WakeMaps, rest : SUBSET Targets,
   now : Targets \cup {None}, delay : Nat]

LEMMA FireBatchKeeps ==
  ASSUME WakeInv, NEW b \in Batches, NEW t \in Targets, FireBatch(b, t)
  PROVE  WakeInv'
  <1> DEFINE new == [of |-> handler, wakes |-> pending, rest |-> Waiting \ {t}, now |-> t,
                     delay |-> timer.delay]
  <1>1. /\ handler # None /\ ~running /\ t \in Waiting /\ ~UnderWay(b)
        /\ batches' = [batches EXCEPT ![b] = new]
        /\ pending' = NoWakes /\ timer' = Off
        /\ scheduled' = FALSE /\ running' = TRUE
        /\ UNCHANGED <<handler, registered, owed, intruded>>
    BY DEF FireBatch, MayBegin
  <1>2. /\ pending \in WakeMaps /\ OfTarget(pending) /\ Urgent(pending)
        /\ timer.delay \in Nat /\ handler \in 0..registered
        /\ batches \in [Batches -> BatchRecords]
    BY DEF WakeInv, TypeOK, OfTarget, UrgencyKept, Waiting, BatchRecords
  <1>3. Waiting \subseteq Targets
    BY <1>2, WakeMapsAre DEF Waiting
  <1>4. new \in BatchRecords
    BY <1>2, <1>3 DEF BatchRecords
  <1>5. \A c \in Batches : batches'[c] = IF c = b THEN new ELSE batches[c]
    BY <1>1, <1>2
  <1>6. /\ UnderWay(b)'
        /\ \A c \in Batches \ {b} : (UnderWay(c)' <=> UnderWay(c))
    BY <1>1, <1>5 DEF UnderWay
  <1>7. TypeOK'
    <2>1. batches' \in [Batches -> BatchRecords]
      BY <1>1, <1>2, <1>4
    <2>2. \A c \in Batches : UnderWay(c)' =>
            /\ batches'[c].now \in DOMAIN batches'[c].wakes
            /\ batches'[c].rest \subseteq DOMAIN batches'[c].wakes \ {batches'[c].now}
      BY <1>1, <1>5, <1>6 DEF WakeInv, TypeOK, Waiting
    <2>3. \A c \in Batches : \A u \in DOMAIN batches'[c].wakes :
            TargetOf[batches'[c].wakes[u].request] = u
      BY <1>2, <1>5 DEF WakeInv, TypeOK, OfTarget
    <2>4. QED
      BY <1>1, <2>1, <2>2, <2>3, NoWakesIsEmpty, TimersAre
         DEF WakeInv, TypeOK, BatchRecords, TimerFine, Timers, Waiting
  <1>8. NoStrandedWake'
    BY <1>6 DEF NoStrandedWake
  <1>9. NoForgottenRequest'
    <2> SUFFICES ASSUME NEW r \in owed
                 PROVE  \E c \in Batches : \E u \in Unhandled(c)' :
                          r \in batches'[c].wakes[u].merged
      BY <1>1 DEF NoForgottenRequest
    <2>1. CASE r \in StillWaiting
      <3>1. PICK u \in Waiting : r \in pending[u].merged
        BY <2>1 DEF StillWaiting
      <3>2. u \in Unhandled(b)' /\ r \in batches'[b].wakes[u].merged
        BY <1>5, <1>6, <3>1 DEF Unhandled
      <3>3. QED
        BY <3>2
    <2>2. CASE r \notin StillWaiting
      <3>1. PICK c \in Batches :
              \E u \in Unhandled(c) : r \in batches[c].wakes[u].merged
        BY <2>2 DEF WakeInv, NoForgottenRequest
      <3>2. c # b
        BY <1>1, <3>1 DEF Unhandled
      <3>3. Unhandled(c)' = Unhandled(c) /\ batches'[c].wakes = batches[c].wakes
        BY <1>5, <1>6, <3>2 DEF Unhandled
      <3>4. QED
        BY <3>1, <3>3
    <2>3. QED
      BY <2>1, <2>2
  <1>10. UrgencyKept' /\ BatchesUrgent'
    BY <1>1, <1>2, <1>5, NoWakesIsEmpty DEF WakeInv, UrgencyKept, BatchesUrgent, Urgent
  <1>11. OneBatchPerHandler' /\ RunningKnown'
    <2>1. intruded \/ \A c \in Batches : UnderWay(c) => batches[c].of # handler
      BY <1>1 DEF WakeInv, RunningKnown
    <2>2. intruded' \/ \A c \in Batches \ {b} : UnderWay(c)' => batches'[c].of # handler'
      BY <1>1, <1>5, <1>6, <2>1
    <2>3. running'
      BY <1>1
    <2>4. QED
      BY <2>2, <2>3 DEF OneBatchPerHandler, RunningKnown
  <1>12. QED
    BY <1>7, <1>8, <1>9, <1>10, <1>11 DEF WakeInv

\* The end of a batch leaves a timer if anything waits, and no running flag.
LEMMA EndBatchKeeps ==
  ASSUME TypeOK, BatchesUrgent, OneBatchPerHandler, RunningKnown,
         NEW b \in Batches, NEW tm,
         UnderWay(b), TimerFine(tm),
         EndBatch(b, pending', tm),
         UNCHANGED <<handler, registered, scheduled>>,
         owed' \subseteq owed, pending' \in WakeMaps, OfTarget(pending'), Urgent(pending')
  PROVE  /\ TypeOK' /\ NoStrandedWake' /\ UrgencyKept' /\ BatchesUrgent'
         /\ OneBatchPerHandler' /\ RunningKnown'
         /\ \A c \in Batches \ {b} :
              Unhandled(c)' = Unhandled(c) /\ batches'[c].wakes = batches[c].wakes
  <1>1. batches \in [Batches -> BatchRecords] /\ TypeOK
    BY DEF TypeOK, BatchRecords
  <1>2. /\ batches' = [batches EXCEPT ![b] = NoBatch]
        /\ running' = FALSE
        /\ timer' = Rescheduled(pending', tm, batches[b].delay)
        /\ intruded' = (intruded \/ (handler # None /\ batches[b].of # handler))
    BY DEF EndBatch
  <1>3. NoBatch \in BatchRecords
    BY <1>1, NoWakesIsEmpty DEF BatchRecords, NoBatch, None, TypeOK
  <1>4. \A c \in Batches : batches'[c] = IF c = b THEN NoBatch ELSE batches[c]
    BY <1>1, <1>2
  <1>5. /\ ~UnderWay(b)' /\ batches'[b].wakes = NoWakes
        /\ \A c \in Batches \ {b} : (UnderWay(c)' <=> UnderWay(c))
    BY <1>4 DEF UnderWay, NoBatch
  <1>6. batches[b].delay \in Nat
    BY <1>1 DEF BatchRecords
  <1>7. TimerFine(timer') /\ (Waiting' # {} => timer'.kind # "off")
    BY <1>2, <1>6, ScheduledKeeps DEF Rescheduled, Waiting
  <1>8. TypeOK'
    <2>1. batches' \in [Batches -> BatchRecords]
      BY <1>1, <1>2, <1>3
    <2>2. \A c \in Batches : UnderWay(c)' =>
            /\ batches'[c].now \in DOMAIN batches'[c].wakes
            /\ batches'[c].rest \subseteq DOMAIN batches'[c].wakes \ {batches'[c].now}
      BY <1>1, <1>4, <1>5 DEF TypeOK
    <2>3. \A c \in Batches : \A u \in DOMAIN batches'[c].wakes :
            TargetOf[batches'[c].wakes[u].request] = u
      BY <1>1, <1>4, <1>5, NoWakesIsEmpty DEF TypeOK
    <2>4. intruded' \in BOOLEAN
      BY <1>1, <1>2 DEF TypeOK
    <2>5. QED
      BY <1>1, <1>2, <1>7, <2>1, <2>2, <2>3, <2>4
         DEF TypeOK, BatchRecords, TimerFine, Timers, OfTarget, Waiting
  <1>9. NoStrandedWake'
    BY <1>7 DEF NoStrandedWake
  <1>10. UrgencyKept' /\ BatchesUrgent'
    BY <1>4, <1>5, NoWakesIsEmpty DEF UrgencyKept, BatchesUrgent
  <1>11. OneBatchPerHandler' /\ RunningKnown'
    <2>1. CASE intruded' \/ handler = None
      <3>1. handler = None => \A c \in Batches : UnderWay(c)' => batches'[c].of # handler'
        BY DEF UnderWay
      <3>2. QED
        BY <2>1, <3>1 DEF OneBatchPerHandler, RunningKnown
    <2>2. CASE ~intruded' /\ handler # None
      <3>1. ~intruded /\ batches[b].of = handler
        BY <1>2, <2>2
      <3>2. \A c \in Batches \ {b} : UnderWay(c) => batches[c].of # handler
        BY <3>1 DEF OneBatchPerHandler
      <3>3. \A c \in Batches : UnderWay(c)' => batches'[c].of # handler'
        BY <1>4, <1>5, <3>2
      <3>4. QED
        BY <3>3 DEF OneBatchPerHandler, RunningKnown
    <2>3. QED
      BY <2>1, <2>2
  <1>12. \A c \in Batches \ {b} :
           Unhandled(c)' = Unhandled(c) /\ batches'[c].wakes = batches[c].wakes
    BY <1>4, <1>5 DEF Unhandled
  <1>13. QED
    BY <1>8, <1>9, <1>10, <1>11, <1>12

\* Going on with a batch, or ending it, loses only the wake it was at.
LEMMA GoOnKeeps ==
  ASSUME TypeOK, BatchesUrgent, OneBatchPerHandler, RunningKnown,
         NEW b \in Batches, NEW t \in Targets \cup {None}, NEW tm,
         UnderWay(b), TimerFine(tm),
         GoOn(b, t, pending', tm),
         UNCHANGED <<handler, registered, scheduled>>,
         timer.kind # "off" => tm.kind # "off",
         owed' \subseteq owed, pending' \in WakeMaps, OfTarget(pending'), Urgent(pending')
  PROVE  /\ TypeOK' /\ NoStrandedWake' /\ UrgencyKept' /\ BatchesUrgent'
         /\ OneBatchPerHandler' /\ RunningKnown'
         /\ \A c \in Batches : \A u \in Unhandled(c) :
              (c = b /\ u = batches[b].now) \/
              (u \in Unhandled(c)' /\ batches'[c].wakes = batches[c].wakes)
  <1>1. batches \in [Batches -> BatchRecords] /\ TypeOK
    BY DEF TypeOK, BatchRecords
  <1>2. /\ batches[b].now \in DOMAIN batches[b].wakes /\ batches[b].of # None
        /\ batches[b].rest \subseteq DOMAIN batches[b].wakes \ {batches[b].now}
    BY DEF TypeOK, UnderWay
  <1>3. CASE NextWake(b, t, tm)
    <2>1. /\ t \in batches[b].rest
          /\ batches' = [batches EXCEPT ![b].now = t, ![b].rest = @ \ {t}]
          /\ timer' = tm /\ UNCHANGED <<running, intruded>>
      BY <1>3 DEF NextWake
    <2>2. /\ \A c \in Batches \ {b} : batches'[c] = batches[c]
          /\ batches'[b].of = batches[b].of /\ batches'[b].wakes = batches[b].wakes
          /\ batches'[b].delay = batches[b].delay
          /\ batches'[b].now = t /\ batches'[b].rest = batches[b].rest \ {t}
          /\ batches' \in [Batches -> BatchRecords]
      BY <1>1, <2>1 DEF BatchRecords
    <2>3. \A c \in Batches : /\ batches'[c].of = batches[c].of
                             /\ batches'[c].wakes = batches[c].wakes
                             /\ (UnderWay(c)' <=> UnderWay(c))
      BY <2>2 DEF UnderWay
    <2>4. \A c \in Batches : UnderWay(c)' =>
            /\ batches'[c].now \in DOMAIN batches'[c].wakes
            /\ batches'[c].rest \subseteq DOMAIN batches'[c].wakes \ {batches'[c].now}
      BY <1>1, <1>2, <2>1, <2>2, <2>3 DEF TypeOK
    <2>5. TypeOK'
      BY <1>1, <2>1, <2>2, <2>3, <2>4
         DEF TypeOK, BatchRecords, TimerFine, Timers, OfTarget, Waiting
    <2>6. NoStrandedWake'
      BY <2>3 DEF NoStrandedWake
    <2>7. UrgencyKept' /\ BatchesUrgent'
      BY <2>3 DEF UrgencyKept, BatchesUrgent
    <2>8. OneBatchPerHandler' /\ RunningKnown'
      BY <2>1, <2>3 DEF OneBatchPerHandler, RunningKnown
    <2>9. \A c \in Batches : \A u \in Unhandled(c) :
            (c = b /\ u = batches[b].now) \/ u \in Unhandled(c)'
      BY <2>1, <2>2, <2>3 DEF Unhandled
    <2>10. QED
      BY <2>3, <2>5, <2>6, <2>7, <2>8, <2>9
  <1>4. CASE batches[b].rest = {} /\ t = None /\ EndBatch(b, pending', tm)
    <2>1. /\ TypeOK' /\ NoStrandedWake' /\ UrgencyKept' /\ BatchesUrgent'
          /\ OneBatchPerHandler' /\ RunningKnown'
          /\ \A c \in Batches \ {b} :
               Unhandled(c)' = Unhandled(c) /\ batches'[c].wakes = batches[c].wakes
      BY <1>4, EndBatchKeeps
    <2>2. Unhandled(b) = {batches[b].now}
      BY <1>4 DEF Unhandled
    <2>3. QED
      BY <2>1, <2>2
  <1>5. QED
    BY <1>3, <1>4 DEF GoOn

\* No request is forgotten if the wake the batch was at stays behind in some
\* waiting wake, as far as somebody is still owed it.
LEMMA NothingForgotten ==
  ASSUME NoForgottenRequest, NEW b \in Batches,
         owed' \subseteq owed,
         StillWaiting \cap owed' \subseteq StillWaiting',
         \A u \in Unhandled(b) :
           \/ batches[b].wakes[u].merged \cap owed' \subseteq StillWaiting'
           \/ u \in Unhandled(b)' /\ batches'[b].wakes = batches[b].wakes,
         \A c \in Batches \ {b} : \A u \in Unhandled(c) :
           u \in Unhandled(c)' /\ batches'[c].wakes = batches[c].wakes
  PROVE  NoForgottenRequest'
  <1> SUFFICES ASSUME NEW r \in owed', r \notin StillWaiting'
               PROVE  \E c \in Batches : \E u \in Unhandled(c)' :
                        r \in batches'[c].wakes[u].merged
    BY DEF NoForgottenRequest
  <1>1. r \in owed /\ r \notin StillWaiting
    OBVIOUS
  <1>2. PICK c \in Batches :
          \E u \in Unhandled(c) : r \in batches[c].wakes[u].merged
    BY <1>1 DEF NoForgottenRequest
  <1>3. PICK u \in Unhandled(c) : r \in batches[c].wakes[u].merged
    BY <1>2
  <1>4. u \in Unhandled(c)' /\ batches'[c].wakes = batches[c].wakes
    BY <1>3
  <1>5. QED
    BY <1>3, <1>4

LEMMA CurrentIs ==
  ASSUME TypeOK, BatchesUrgent, NEW b \in Batches, UnderWay(b)
  PROVE  LET ws == [u \in {batches[b].now} |-> Current(b)]
         IN  /\ batches[b].now \in Unhandled(b)
             /\ ws \in WakeMaps /\ OfTarget(ws) /\ Urgent(ws)
             /\ DOMAIN ws = {batches[b].now}
             /\ ws[batches[b].now] = batches[b].wakes[batches[b].now]
  <1> DEFINE ws == [u \in {batches[b].now} |-> Current(b)]
  <1>1. /\ batches[b].wakes \in WakeMaps
        /\ batches[b].now \in DOMAIN batches[b].wakes
        /\ OfTarget(batches[b].wakes) /\ Urgent(batches[b].wakes)
    BY DEF TypeOK, BatchesUrgent, OfTarget
  <1>2. Current(b) \in Wakes /\ batches[b].now \in Targets
    BY <1>1, WakeMapsAre DEF Current
  <1>3. ws \in [{batches[b].now} -> Wakes]
    BY <1>2
  <1>4. ws \in WakeMaps
    BY <1>2, <1>3 DEF WakeMaps
  <1>5. OfTarget(ws) /\ Urgent(ws)
    BY <1>1 DEF OfTarget, Urgent, Current
  <1>6. QED
    BY <1>4, <1>5 DEF Current, Unhandled

LEMMA WakeHandledKeeps ==
  ASSUME WakeInv, NEW b \in Batches, NEW t \in Targets \cup {None}, WakeHandled(b, t)
  PROVE  WakeInv'
  <1>1. /\ UnderWay(b) /\ pending' = pending
        /\ owed' = owed \ (Current(b).merged \ StillWaiting)
        /\ GoOn(b, t, pending', timer)
        /\ UNCHANGED <<handler, registered, scheduled>>
    BY DEF WakeHandled
  <1>2. /\ pending' \in WakeMaps /\ OfTarget(pending') /\ Urgent(pending')
        /\ TimerFine(timer)
    BY <1>1 DEF WakeInv, TypeOK, OfTarget, UrgencyKept, Waiting, TimerFine, Timers
  <1>3. /\ TypeOK' /\ NoStrandedWake' /\ UrgencyKept' /\ BatchesUrgent'
        /\ OneBatchPerHandler' /\ RunningKnown'
        /\ \A c \in Batches : \A u \in Unhandled(c) :
             (c = b /\ u = batches[b].now) \/
             (u \in Unhandled(c)' /\ batches'[c].wakes = batches[c].wakes)
    BY <1>1, <1>2, GoOnKeeps DEF WakeInv
  <1>4. NoForgottenRequest'
    <2>1. StillWaiting' = StillWaiting
      BY <1>1 DEF StillWaiting, Waiting
    <2>2. batches[b].wakes[batches[b].now].merged \cap owed' \subseteq StillWaiting'
      BY <1>1, <2>1 DEF Current
    <2>3. QED
      BY <1>1, <1>3, <2>1, <2>2, NothingForgotten DEF WakeInv
  <1>5. QED
    BY <1>3, <1>4 DEF WakeInv

LEMMA WakeBusyKeeps ==
  ASSUME WakeInv, NEW b \in Batches, NEW t \in Targets \cup {None}, WakeBusy(b, t)
  PROVE  WakeInv'
  <1> DEFINE ws == [u \in {batches[b].now} |-> Current(b)]
             tm == Scheduled(timer, RetryDelay, "retry")
  <1>1. /\ UnderWay(b) /\ pending' = QueuePending(pending, ws)
        /\ GoOn(b, t, pending', tm)
        /\ UNCHANGED <<handler, registered, scheduled, owed>>
    BY DEF WakeBusy
  <1>2. /\ pending \in WakeMaps /\ OfTarget(pending) /\ Urgent(pending)
        /\ TimerFine(timer) /\ TypeOK /\ BatchesUrgent
    BY DEF WakeInv, TypeOK, OfTarget, UrgencyKept, Waiting, TimerFine, Timers
  <1>3. /\ batches[b].now \in Unhandled(b)
        /\ ws \in WakeMaps /\ OfTarget(ws) /\ Urgent(ws)
        /\ DOMAIN ws = {batches[b].now}
        /\ ws[batches[b].now] = batches[b].wakes[batches[b].now]
    BY <1>1, <1>2, CurrentIs
  <1>4. /\ pending' \in WakeMaps /\ OfTarget(pending') /\ Urgent(pending')
        /\ DOMAIN pending' = DOMAIN pending \cup DOMAIN ws
        /\ \A u \in DOMAIN pending : pending[u].merged \subseteq pending'[u].merged
        /\ \A u \in DOMAIN ws : ws[u].merged \subseteq pending'[u].merged
    <2> HIDE DEF ws
    <2>1. QED
      BY <1>1, <1>2, <1>3, QueuePendingKeeps
  <1>5. TimerFine(tm) /\ tm.kind # "off"
    BY <1>2, ScheduledKeeps, WakeAssumption
  <1>6. /\ TypeOK' /\ NoStrandedWake' /\ UrgencyKept' /\ BatchesUrgent'
        /\ OneBatchPerHandler' /\ RunningKnown'
        /\ \A c \in Batches : \A u \in Unhandled(c) :
             (c = b /\ u = batches[b].now) \/
             (u \in Unhandled(c)' /\ batches'[c].wakes = batches[c].wakes)
    <2> HIDE DEF ws, tm
    <2>1. QED
      BY <1>1, <1>4, <1>5, GoOnKeeps DEF WakeInv
  <1>7. NoForgottenRequest'
    <2>1. StillWaiting \subseteq StillWaiting'
      BY <1>4 DEF StillWaiting, Waiting
    <2>2. batches[b].wakes[batches[b].now].merged \subseteq StillWaiting'
      BY <1>3, <1>4 DEF StillWaiting, Waiting
    <2>3. QED
      BY <1>1, <1>6, <2>1, <2>2, NothingForgotten DEF WakeInv
  <1>8. QED
    BY <1>6, <1>7 DEF WakeInv

LEMMA HandlerThrowsKeeps ==
  ASSUME WakeInv, NEW b \in Batches, HandlerThrows(b)
  PROVE  WakeInv'
  <1> DEFINE ws == Requeued(b)
             tm == Scheduled(timer, RetryDelay, "retry")
  <1>1. /\ UnderWay(b) /\ pending' = QueuePending(pending, ws)
        /\ EndBatch(b, pending', tm)
        /\ UNCHANGED <<handler, registered, scheduled, owed>>
    BY DEF HandlerThrows
  <1>2. /\ pending \in WakeMaps /\ OfTarget(pending) /\ Urgent(pending)
        /\ TimerFine(timer) /\ TypeOK /\ BatchesUrgent
        /\ batches[b].wakes \in WakeMaps
        /\ OfTarget(batches[b].wakes) /\ Urgent(batches[b].wakes)
    BY DEF WakeInv, TypeOK, OfTarget, UrgencyKept, BatchesUrgent, Waiting, TimerFine, Timers
  <1>3. /\ DOMAIN ws = DOMAIN batches[b].wakes
        /\ DOMAIN ws \subseteq Targets
        /\ \A u \in DOMAIN ws :
             /\ ws[u] \in Wakes
             /\ ws[u].request = batches[b].wakes[u].request
             /\ ws[u].merged = batches[b].wakes[u].merged \cap owed
    <2>1. /\ DOMAIN batches[b].wakes \subseteq Targets
          /\ \A u \in DOMAIN batches[b].wakes : batches[b].wakes[u] \in Wakes
      BY <1>2, WakeMapsAre
    <2>2. QED
      BY <2>1 DEF Requeued, Wakes
  <1>4. ws \in WakeMaps
    <2>1. ws \in [DOMAIN ws -> Wakes]
      BY <1>3 DEF Requeued
    <2>2. QED
      BY <1>3, <2>1 DEF WakeMaps
  <1>5. OfTarget(ws) /\ Urgent(ws)
    BY <1>2, <1>3 DEF OfTarget, Urgent
  <1>6. /\ pending' \in WakeMaps /\ OfTarget(pending') /\ Urgent(pending')
        /\ DOMAIN pending' = DOMAIN pending \cup DOMAIN ws
        /\ \A u \in DOMAIN pending : pending[u].merged \subseteq pending'[u].merged
        /\ \A u \in DOMAIN ws : ws[u].merged \subseteq pending'[u].merged
    <2> HIDE DEF ws
    <2>1. QED
      BY <1>1, <1>2, <1>4, <1>5, QueuePendingKeeps
  <1>7. TimerFine(tm)
    BY <1>2, ScheduledKeeps, WakeAssumption
  <1>8. /\ TypeOK' /\ NoStrandedWake' /\ UrgencyKept' /\ BatchesUrgent'
        /\ OneBatchPerHandler' /\ RunningKnown'
        /\ \A c \in Batches \ {b} :
             Unhandled(c)' = Unhandled(c) /\ batches'[c].wakes = batches[c].wakes
    <2> HIDE DEF ws, tm
    <2>1. QED
      BY <1>1, <1>6, <1>7, EndBatchKeeps DEF WakeInv
  <1>9. NoForgottenRequest'
    <2>1. StillWaiting \subseteq StillWaiting'
      BY <1>6 DEF StillWaiting, Waiting
    <2>2. Unhandled(b) \subseteq DOMAIN ws
      BY <1>1, <1>2, <1>3 DEF TypeOK, Unhandled
    <2>3. \A u \in Unhandled(b) :
            batches[b].wakes[u].merged \cap owed \subseteq StillWaiting'
      BY <1>3, <1>6, <2>2 DEF StillWaiting, Waiting
    <2>4. QED
      BY <1>1, <1>8, <2>1, <2>3, NothingForgotten DEF WakeInv
  <1>10. QED
    BY <1>8, <1>9 DEF WakeInv

\* Every step of the wake layer keeps its invariant.
LEMMA WakeStep ==
  ASSUME WakeInv, [WakeNext]_wakeVars PROVE WakeInv'
  <1>1. CASE Tick
    BY <1>1, TickKeeps
  <1>2. ASSUME NEW r \in Requests, RequestHeartbeat(r) PROVE WakeInv'
    BY <1>2, RequestHeartbeatKeeps
  <1>3. ASSUME NEW h \in Handlers, SetHandler(h) PROVE WakeInv'
    BY <1>3, SetHandlerKeeps
  <1>4. ASSUME NEW h \in Handlers, Dispose(h) PROVE WakeInv'
    BY <1>4, DisposeKeeps
  <1>5. CASE FireUnhandled \/ FireWhileRunning \/ FireEmpty
    BY <1>5, FireUnhandledKeeps, FireWhileRunningKeeps, FireEmptyKeeps
  <1>6. ASSUME NEW b \in Batches, NEW t \in Targets, FireBatch(b, t) PROVE WakeInv'
    BY <1>6, FireBatchKeeps
  <1>7. ASSUME NEW b \in Batches, NEW t \in Targets \cup {None},
               WakeHandled(b, t) \/ WakeBusy(b, t)
        PROVE  WakeInv'
    BY <1>7, WakeHandledKeeps, WakeBusyKeeps
  <1>8. ASSUME NEW b \in Batches, HandlerThrows(b) PROVE WakeInv'
    BY <1>8, HandlerThrowsKeeps
  <1>9. CASE UNCHANGED wakeVars
    BY <1>9 DEF wakeVars, WakeInv, TypeOK, NoStrandedWake, NoForgottenRequest,
         StillWaiting, Unhandled, UrgencyKept, BatchesUrgent, Urgent,
         OneBatchPerHandler, RunningKnown, Waiting, UnderWay
  <1>10. QED
    BY <1>1, <1>2, <1>3, <1>4, <1>5, <1>6, <1>7, <1>8, <1>9 DEF WakeNext

(***************************************************************************)
(* The runner                                                              *)
(***************************************************************************)
LEMMA RunnerStepIsWakeStep ==
  ASSUME RunnerTypeOK, RunnerNext PROVE [WakeNext]_wakeVars
  <1>1. live # None => live \in Handlers
    BY WakeAssumption DEF RunnerTypeOK, TypeOK, Handlers, None
  <1>2. ASSUME NEW h \in Handlers, StartHeartbeatRunner(h) PROVE WakeNext
    BY <1>2 DEF StartHeartbeatRunner, WakeNext
  <1>3. CASE Stop
    BY <1>1, <1>3 DEF Stop, WakeNext
  <1>4. CASE (\E has \in BOOLEAN : UpdateConfig(has)) \/ SetHeartbeatsEnabled
    BY <1>4 DEF UpdateConfig, SetHeartbeatsEnabled
  <1>5. CASE IntervalDue
    BY <1>5, RunnerAssumption DEF IntervalDue, WakeNext
  <1>6. ASSUME NEW r \in Events, EventWake(r) PROVE WakeNext
    BY <1>6 DEF EventWake, Events, WakeNext
  <1>7. CASE TimerFires \/ TimeTicks
    BY <1>7 DEF TimerFires, TimeTicks, WakeNext
  <1>8. ASSUME NEW b \in Batches, CallEnds(b) PROVE WakeNext
    BY <1>8 DEF CallEnds, CallRefused, CallReturns, CallBusy, CallThrows, WakeNext
  <1>9. QED
    BY <1>2, <1>3, <1>4, <1>5, <1>6, <1>7, <1>8 DEF RunnerNext

\* What the end of a call changes: its own batch, and pending only upwards.
LEMMA CallEndChanges ==
  ASSUME RunnerTypeOK, NEW b \in Batches, CallEnds(b)
  PROVE  /\ UnderWay(b)
         /\ \A c \in Batches \ {b} : batches'[c] = batches[c] /\ admitted'[c] = admitted[c]
         /\ admitted' \in [Batches -> BOOLEAN]
         /\ DOMAIN pending \subseteq DOMAIN pending'
         /\ UNCHANGED <<handler, registered, live, agents, enabled>>
         /\ refused' \in BOOLEAN
         /\ \/ armed' = armed /\ (refused => refused') /\ ~admitted[b]
            \/ armed' = (armed \/ Rearms(b)) /\ (refused => refused' \/ Rearms(b))
            \/ armed' = armed /\ (refused => refused') /\ DOMAIN pending' # {}
  <1>1. /\ batches \in [Batches -> BatchRecords] /\ admitted \in [Batches -> BOOLEAN]
        /\ refused \in BOOLEAN /\ armed \in BOOLEAN
    BY DEF RunnerTypeOK, TypeOK, BatchRecords
  <1>2. ASSUME NEW t, NEW ps, NEW tm, GoOn(b, t, ps, tm)
        PROVE  \A c \in Batches \ {b} : batches'[c] = batches[c]
    BY <1>1, <1>2 DEF GoOn, NextWake, EndBatch
  <1>3. ASSUME NEW t, NEW missed \in BOOLEAN, HandedOver(b, t, missed)
        PROVE  /\ admitted' \in [Batches -> BOOLEAN]
               /\ \A c \in Batches \ {b} : admitted'[c] = admitted[c]
               /\ refused' \in BOOLEAN /\ (missed => refused')
    <2>1. CASE t # None
      <3>1. /\ admitted' = [admitted EXCEPT ![b] = Admits(batches[b].of)]
            /\ refused' = (missed \/ (batches[b].of = live /\ ~Admits(batches[b].of)))
        BY <1>3, <2>1 DEF HandedOver, Called
      <3>2. Admits(batches[b].of) \in BOOLEAN
        BY DEF Admits
      <3>3. QED
        BY <1>1, <3>1, <3>2
    <2>2. CASE t = None
      BY <1>1, <1>3, <2>2 DEF HandedOver, NotCalled
    <2>3. QED
      BY <2>1, <2>2
  <1>4. ASSUME NEW t \in Targets \cup {None}, CallRefused(b, t)
        PROVE  /\ UnderWay(b) /\ ~admitted[b] /\ GoOn(b, t, pending, timer)
               /\ HandedOver(b, t, refused) /\ pending' = pending /\ armed' = armed
               /\ UNCHANGED <<handler, registered, live, agents, enabled>>
    BY <1>4 DEF CallRefused, WakeHandled
  <1>5. ASSUME NEW t \in Targets \cup {None}, CallReturns(b, t)
        PROVE  /\ UnderWay(b) /\ GoOn(b, t, pending, timer)
               /\ HandedOver(b, t, refused /\ ~Rearms(b)) /\ pending' = pending
               /\ armed' = (armed \/ Rearms(b))
               /\ UNCHANGED <<handler, registered, live, agents, enabled>>
    BY <1>5 DEF CallReturns, WakeHandled, ScheduleNext
  <1>6. ASSUME NEW t \in Targets \cup {None}, CallBusy(b, t)
        PROVE  /\ UnderWay(b) /\ GoOn(b, t, pending', Scheduled(timer, RetryDelay, "retry"))
               /\ HandedOver(b, t, refused) /\ armed' = armed
               /\ DOMAIN pending' = DOMAIN pending \cup {batches[b].now}
               /\ UNCHANGED <<handler, registered, live, agents, enabled>>
    BY <1>6 DEF CallBusy, WakeBusy, QueuePending
  <1>7. CASE \E t \in Targets \cup {None} : CallRefused(b, t)
    <2>1. PICK t \in Targets \cup {None} : CallRefused(b, t)
      BY <1>7
    <2>2. QED
      BY <1>1, <1>2, <1>3, <1>4, <2>1
  <1>8. CASE \E t \in Targets \cup {None} : CallReturns(b, t)
    <2>1. PICK t \in Targets \cup {None} : CallReturns(b, t)
      BY <1>8
    <2>2. (refused /\ ~Rearms(b)) \in BOOLEAN
      BY <1>1
    <2>3. QED
      BY <1>1, <1>2, <1>3, <1>5, <2>1, <2>2
  <1>9. CASE \E t \in Targets \cup {None} : CallBusy(b, t)
    <2>1. PICK t \in Targets \cup {None} : CallBusy(b, t)
      BY <1>9
    <2>2. QED
      BY <1>1, <1>2, <1>3, <1>6, <2>1
  <1>10. CASE CallThrows(b)
    <2>1. /\ UnderWay(b)
          /\ batches' = [batches EXCEPT ![b] = NoBatch]
          /\ DOMAIN pending' = DOMAIN pending \cup DOMAIN Requeued(b)
          /\ armed' = (armed \/ Rearms(b))
          /\ admitted' = [admitted EXCEPT ![b] = FALSE]
          /\ refused' = (refused /\ ~Rearms(b))
          /\ UNCHANGED <<handler, registered, live, agents, enabled>>
      BY <1>10 DEF CallThrows, HandlerThrows, EndBatch, QueuePending, ScheduleNext, NotCalled
    <2>2. QED
      BY <1>1, <2>1
  <1>11. QED
    BY <1>7, <1>8, <1>9, <1>10 DEF CallEnds

LEMMA CallEndsKeeps ==
  ASSUME RunnerInv, TypeOK', NEW b \in Batches, CallEnds(b)
  PROVE  RunnerTypeOK' /\ LiveRegistered' /\ TimerToCome'
  <1>1. /\ UnderWay(b)
        /\ \A c \in Batches \ {b} : batches'[c] = batches[c] /\ admitted'[c] = admitted[c]
        /\ admitted' \in [Batches -> BOOLEAN]
        /\ DOMAIN pending \subseteq DOMAIN pending'
        /\ UNCHANGED <<handler, registered, live, agents, enabled>>
        /\ refused' \in BOOLEAN
        /\ \/ armed' = armed /\ (refused => refused') /\ ~admitted[b]
           \/ armed' = (armed \/ Rearms(b)) /\ (refused => refused' \/ Rearms(b))
           \/ armed' = armed /\ (refused => refused') /\ DOMAIN pending' # {}
    BY CallEndChanges DEF RunnerInv
  <1>2. Rearms(b) => agents /\ live # None /\ batches[b].of = live
    BY <1>1 DEF Rearms, UnderWay
  <1>3. RunnerTypeOK'
    BY <1>1, <1>2 DEF RunnerInv, RunnerTypeOK
  <1>4. LiveRegistered'
    BY <1>1 DEF RunnerInv, LiveRegistered
  <1>5. TimerToCome'
    <2> SUFFICES ASSUME live # None, agents, ~armed', ~refused', DOMAIN pending' = {}
                 PROVE  \E c \in Batches :
                          UnderWay(c)' /\ batches'[c].of = live /\ admitted'[c]
      BY <1>1 DEF TimerToCome, Waiting
    <2>1. ~armed /\ ~refused /\ DOMAIN pending = {} /\ (~admitted[b] \/ ~Rearms(b))
      <3>1. DOMAIN pending = {}
        BY <1>1
      <3>2. armed \in BOOLEAN /\ armed' \in BOOLEAN /\ Rearms(b) \in BOOLEAN
        BY <1>3 DEF RunnerInv, RunnerTypeOK, Rearms
      <3>3. CASE armed' = armed /\ (refused => refused') /\ ~admitted[b]
        BY <3>1, <3>3
      <3>4. CASE armed' = (armed \/ Rearms(b)) /\ (refused => refused' \/ Rearms(b))
        BY <3>1, <3>2, <3>4
      <3>5. QED
        BY <1>1, <3>3, <3>4
    <2>2. PICK c \in Batches : UnderWay(c) /\ batches[c].of = live /\ admitted[c]
      BY <2>1 DEF RunnerInv, TimerToCome, Waiting
    <2>3. c # b
      BY <2>1, <2>2 DEF Rearms
    <2>4. QED
      BY <1>1, <2>2, <2>3 DEF UnderWay
  <1>6. QED
    BY <1>3, <1>4, <1>5

\* The wake timer fires: a batch of the live runner is a call that will set
\* the interval timer, or a call refused.
LEMMA TimerFiresKeeps ==
  ASSUME RunnerInv, TypeOK', TimerFires
  PROVE  RunnerTypeOK' /\ LiveRegistered' /\ TimerToCome'
  <1>1. CASE (FireUnhandled \/ FireWhileRunning \/ FireEmpty) /\ UNCHANGED runnerVars
    <2>1. UNCHANGED <<handler, registered, pending, batches, live, armed, agents,
                      enabled, admitted, refused>>
      BY <1>1 DEF FireUnhandled, FireWhileRunning, FireEmpty, runnerVars
    <2>2. QED
      BY <2>1 DEF RunnerInv, RunnerTypeOK, LiveRegistered, TimerToCome, Waiting, UnderWay
  <1>2. ASSUME NEW b \in Batches, NEW t \in Targets,
               FireBatch(b, t), Called(b, handler, refused),
               UNCHANGED <<live, armed, agents, enabled, changes>>
        PROVE  RunnerTypeOK' /\ LiveRegistered' /\ TimerToCome'
    <2>1. /\ batches \in [Batches -> BatchRecords] /\ admitted \in [Batches -> BOOLEAN]
          /\ refused \in BOOLEAN
      BY DEF RunnerInv, RunnerTypeOK, TypeOK, BatchRecords
    <2>2. /\ handler # None /\ batches'[b].of = handler
          /\ \A c \in Batches \ {b} : batches'[c] = batches[c]
          /\ UNCHANGED <<handler, registered>>
      BY <1>2, <2>1 DEF FireBatch
    <2>3. /\ admitted' = [admitted EXCEPT ![b] = Admits(handler)]
          /\ refused' = (refused \/ (handler = live /\ ~Admits(handler)))
          /\ Admits(handler) \in BOOLEAN
      BY <1>2 DEF Called, Admits
    <2>4. RunnerTypeOK'
      BY <1>2, <2>1, <2>2, <2>3 DEF RunnerInv, RunnerTypeOK
    <2>5. LiveRegistered'
      BY <1>2, <2>2 DEF RunnerInv, LiveRegistered
    <2>6. TimerToCome'
      <3>1. CASE live # None /\ ~Admits(handler)
        <4>1. refused'
          BY <2>3, <3>1 DEF RunnerInv, LiveRegistered
        <4>2. QED
          BY <4>1 DEF TimerToCome
      <3>2. CASE live # None /\ Admits(handler)
        <4>1. UnderWay(b)' /\ batches'[b].of = live /\ admitted'[b]
          BY <2>1, <2>2, <2>3, <3>2 DEF RunnerInv, LiveRegistered, UnderWay
        <4>2. QED
          BY <1>2, <4>1 DEF TimerToCome
      <3>3. CASE live = None
        BY <1>2, <3>3 DEF TimerToCome
      <3>4. QED
        BY <3>1, <3>2, <3>3
    <2>7. QED
      BY <2>4, <2>5, <2>6
  <1>3. QED
    BY <1>1, <1>2 DEF TimerFires

LEMMA RunnerStep ==
  ASSUME RunnerInv, [RunnerNext]_rvars PROVE RunnerInv'
  <1>1. WakeInv' /\ TypeOK'
    <2>1. [WakeNext]_wakeVars
      BY RunnerStepIsWakeStep DEF RunnerInv, rvars
    <2>2. QED
      BY <2>1, WakeStep DEF RunnerInv, WakeInv
  <1>2. ASSUME NEW h \in Handlers, StartHeartbeatRunner(h) PROVE RunnerInv'
    <2>1. /\ live' = h /\ handler' = h /\ registered' = h /\ h # None
          /\ armed' = agents /\ refused' = FALSE
          /\ UNCHANGED <<agents, enabled, admitted>>
      BY <1>2 DEF StartHeartbeatRunner, SetHandler, Handlers, None
    <2>2. live' \in 0..registered'
      BY <2>1 DEF Handlers
    <2>3. RunnerTypeOK'
      BY <1>1, <2>1, <2>2 DEF RunnerInv, RunnerTypeOK
    <2>4. LiveRegistered' /\ TimerToCome'
      BY <2>1 DEF LiveRegistered, TimerToCome
    <2>5. QED
      BY <1>1, <2>3, <2>4 DEF RunnerInv
  <1>3. ASSUME NEW has \in BOOLEAN, UpdateConfig(has) PROVE RunnerInv'
    <2>1. /\ live # None
          /\ agents' = has /\ armed' = has /\ refused' = (refused /\ ~has)
          /\ UNCHANGED <<live, enabled, admitted, handler, registered>>
      BY <1>3 DEF UpdateConfig, wakeVars
    <2>2. RunnerTypeOK' /\ LiveRegistered'
      BY <1>1, <2>1 DEF RunnerInv, RunnerTypeOK, LiveRegistered
    <2>3. TimerToCome'
      BY <2>1 DEF TimerToCome
    <2>4. QED
      BY <1>1, <2>2, <2>3 DEF RunnerInv
  <1>4. CASE Stop
    <2>1. /\ live' = None /\ armed' = FALSE /\ refused' = FALSE
          /\ UNCHANGED <<agents, enabled, admitted, registered>>
      BY <1>4 DEF Stop, Dispose
    <2>2. None \in 0..registered
      BY DEF RunnerInv, RunnerTypeOK, TypeOK, None
    <2>3. QED
      BY <1>1, <2>1, <2>2 DEF RunnerInv, RunnerTypeOK, LiveRegistered, TimerToCome
  <1>5. CASE SetHeartbeatsEnabled
    <2>1. /\ enabled' = ~enabled
          /\ UNCHANGED <<live, armed, agents, admitted, refused, handler, registered,
                         pending, batches>>
      BY <1>5 DEF SetHeartbeatsEnabled, wakeVars
    <2>2. QED
      BY <1>1, <2>1
         DEF RunnerInv, RunnerTypeOK, LiveRegistered, TimerToCome, Waiting, UnderWay
  <1>6. CASE IntervalDue
    <2>1. /\ armed' = FALSE /\ DOMAIN pending' # {}
          /\ UNCHANGED <<live, agents, enabled, admitted, refused, handler, registered>>
      BY <1>6 DEF IntervalDue, RequestHeartbeat, QueuePending, WakeFor
    <2>2. QED
      BY <1>1, <2>1 DEF RunnerInv, RunnerTypeOK, LiveRegistered, TimerToCome, Waiting
  <1>7. ASSUME NEW r \in Events, EventWake(r) PROVE RunnerInv'
    <2>1. /\ DOMAIN pending' # {}
          /\ UNCHANGED <<live, armed, agents, enabled, admitted, refused, handler, registered>>
      BY <1>7 DEF EventWake, RequestHeartbeat, QueuePending, WakeFor, runnerVars
    <2>2. QED
      BY <1>1, <2>1 DEF RunnerInv, RunnerTypeOK, LiveRegistered, TimerToCome, Waiting
  <1>8. CASE TimerFires
    BY <1>1, <1>8, TimerFiresKeeps DEF RunnerInv
  <1>9. CASE TimeTicks \/ UNCHANGED rvars
    <2>1. UNCHANGED <<live, armed, agents, enabled, admitted, refused, handler, registered,
                      pending, batches>>
      BY <1>9 DEF TimeTicks, Tick, rvars, wakeVars, runnerVars
    <2>2. QED
      BY <1>1, <2>1
         DEF RunnerInv, RunnerTypeOK, LiveRegistered, TimerToCome, Waiting, UnderWay
  <1>10. ASSUME NEW b \in Batches, CallEnds(b) PROVE RunnerInv'
    BY <1>1, <1>10, CallEndsKeeps DEF RunnerInv
  <1>11. QED
    BY <1>2, <1>3, <1>4, <1>5, <1>6, <1>7, <1>8, <1>9, <1>10 DEF RunnerNext

\* The invariant of the wake layer, which any user of it keeps.
THEOREM WakeInvariant == WakeSpec => []WakeInv
  <1>1. Init => WakeInv
    BY WakeInit
  <1>2. WakeInv /\ [WakeNext]_wakeVars => WakeInv'
    BY WakeStep
  <1>3. QED
    BY <1>1, <1>2, PTL DEF WakeSpec

\* The inductive invariant of the runner over its wake layer.
THEOREM RunnerInvariant == RunnerSpec => []RunnerInv
  <1>1. RunnerInit => RunnerInv
    <2> SUFFICES ASSUME RunnerInit PROVE RunnerInv
      OBVIOUS
    <2>1. WakeInv /\ TypeOK /\ registered = 0 /\ live = None
      BY WakeInit DEF RunnerInit, WakeInv, Init
    <2>2. live \in 0..registered /\ LiveRegistered /\ TimerToCome
      BY <2>1 DEF LiveRegistered, TimerToCome, None
    <2>3. RunnerTypeOK
      BY <2>1, <2>2 DEF RunnerInit, RunnerTypeOK
    <2>4. QED
      BY <2>1, <2>2, <2>3 DEF RunnerInv
  <1>2. RunnerInv /\ [RunnerNext]_rvars => RunnerInv'
    BY RunnerStep
  <1>3. QED
    BY <1>1, <1>2, PTL DEF RunnerSpec

\* The state of the runner and of the wake layer under it keeps its types.
THEOREM RunnerTypeCorrect == RunnerSpec => []RunnerTypeOK
  <1>1. RunnerInv => RunnerTypeOK
    BY DEF RunnerInv
  <1>2. QED
    BY <1>1, RunnerInvariant, PTL

\* While a handler is registered, a waiting wake has a timer, or a batch whose
\* end will set one (heartbeat-wake.ts:262-267, 308-310).
THEOREM NoWakeStranded == RunnerSpec => []NoStrandedWake
  <1>1. RunnerInv => NoStrandedWake
    BY DEF RunnerInv, WakeInv
  <1>2. QED
    BY <1>1, RunnerInvariant, PTL

\* Busy skips, throwing handlers and new handlers lose no request: it waits in
\* a wake or is in a batch, not yet handed over (heartbeat-wake.ts:236-261).
THEOREM NoRequestForgotten == RunnerSpec => []NoForgottenRequest
  <1>1. RunnerInv => NoForgottenRequest
    BY DEF RunnerInv, WakeInv
  <1>2. QED
    BY <1>1, RunnerInvariant, PTL

\* A merged wake is as urgent as each request it stands for, whatever retries
\* it was queued by (heartbeat-wake.ts:166-183).
THEOREM UrgencyIsKept == RunnerSpec => []UrgencyKept
  <1>1. RunnerInv => UrgencyKept
    BY DEF RunnerInv, WakeInv
  <1>2. QED
    BY <1>1, RunnerInvariant, PTL

\* A handler runs one batch at a time, until a batch of an older lifecycle ends
\* and clears the running flag (heartbeat-wake.ts:216-220, 263).
THEOREM OneBatchAtATime == RunnerSpec => []OneBatchPerHandler
  <1>1. RunnerInv => OneBatchPerHandler
    BY DEF RunnerInv, WakeInv
  <1>2. QED
    BY <1>1, RunnerInvariant, PTL

\* The interval clock of a runner in service goes on, unless it refused a call
\* while heartbeats were paused (heartbeat-runner.ts:2195-2213, 2380-2386).
THEOREM ClockGoesOn == RunnerSpec => []ClockKept
  <1>1. RunnerInv => ClockKept
    BY DEF RunnerInv, TimerToCome, ClockKept, Serving, Ticking
  <1>2. QED
    BY <1>1, RunnerInvariant, PTL
=============================================================================

--------------------------- MODULE FollowupQueue ---------------------------
(***************************************************************************)
(* The followup queue of one session key (src/auto-reply/reply/queue).     *)
(*                                                                         *)
(* A message that arrives while a run of the session is active is queued;   *)
(* when the reply run ends it schedules the drain of the key's queue, an    *)
(* async loop that hands the queued messages to runs of their own, one by  *)
(* one or collected.  A cleared key gets a new queue object while the drain *)
(* of the old one still runs, so queue objects are told apart: Queues is a  *)
(* pool of them and `current' the one in the map FOLLOWUP_QUEUES.          *)
(*                                                                         *)
(* Abstracted: texts, images, the debounce clock (a drain may wait for any  *)
(* time), and the summary lines of dropped messages (their number is kept). *)
(***************************************************************************)
EXTENDS Integers, FiniteSets, SequencesExt

CONSTANTS Deliveries,     \* inbound deliveries of messages to the session
          MessageOf,      \* the message each delivers (a redelivery repeats it)
          SenderOf,       \* a message's authorization key
          RouteOf,        \* its channel route, "none", or "unroutable"
          SettingsOf,     \* the settings [mode, policy] each may be enqueued with
          Cap,            \* messages.queue.cap
          Queues,         \* the pool of queue objects
          MaxClears,      \* bound on clears of the key (model only)
          MaxThrows,      \* bound on runs that throw (model only)
          MaxEmbedded     \* bound on runs that are no reply (model only)

None == 0

ASSUME FollowupAssumption ==
  /\ Cap \in Nat \ {0}
  /\ Queues \subseteq Nat \ {0} /\ IsFiniteSet(Queues)
  /\ Deliveries \cap Queues = {}
  /\ {MaxClears, MaxThrows, MaxEmbedded} \subseteq Nat
  /\ MaxClears < Cardinality(Queues)
  /\ \A d \in Deliveries : SettingsOf[d] \subseteq
       [mode : {"followup", "collect"}, policy : {"summarize", "old", "new"}]

VARIABLES queues,    \* the queue objects, each with the state of its drain
          current,   \* FOLLOWUP_QUEUES.get(key), or None
          active,    \* activeRunsByKey: the delivery or drain that runs, or None
          embedded,  \* ACTIVE_EMBEDDED_RUNS: a run that is no reply
          handler,   \* runReplyAgent of each delivery
          recent,    \* RECENT_QUEUE_MESSAGE_IDS (its 5 minutes never pass)
          clears, throws, embeds,
          fate,      \* history: what the queue made of each message
          overflowed,\* history: a message was dropped at the cap
          unattended \* history: messages queued behind a run that drains nothing

vars == <<queues, current, active, embedded, handler, recent,
          clears, throws, embeds, fate, overflowed, unattended>>

Messages == {MessageOf[d] : d \in Deliveries}
Fates == {"none", "queued", "refused", "dropped", "cleared", "ran"}

\* The drain's place: before its wait, after the route check of collect mode,
\* with a run handed to the runner, and with that run under way.
Places == {"idle", "debounce", "collect", "start", "running"}

Fresh(s) ==
  [items |-> <<>>, draining |-> FALSE, mode |-> s.mode, policy |-> s.policy,
   dropped |-> 0, at |-> "idle", force |-> FALSE,
   batch |-> <<>>,       \* the messages whose prompts the run carries
   take |-> 0,           \* how many items it removes when it returns
   summary |-> FALSE,    \* whether it carries (and then clears) the summary
   rest |-> <<>>]        \* the messages of the collected snapshot still to run

Default == [mode |-> "followup", policy |-> "summarize"]

QueueRecords ==
  [items : Seq(Messages), draining : BOOLEAN, mode : {"followup", "collect"},
   policy : {"summarize", "old", "new"}, dropped : Nat, at : Places, force : BOOLEAN,
   batch : Seq(Messages), take : Nat, summary : BOOLEAN, rest : Seq(Messages)]

TypeOK ==
  /\ queues \in [Queues -> QueueRecords]
  /\ \A q \in Queues : /\ Len(queues[q].items) <= Cap
                       /\ queues[q].draining = (queues[q].at # "idle")
  /\ current \in Queues \cup {None}
  /\ active \in Deliveries \cup Queues \cup {None}
  /\ embedded \in BOOLEAN
  /\ handler \in [Deliveries -> {"new", "enqueue", "runNow", "running", "ended", "done"}]
  /\ recent \subseteq Messages
  /\ clears \in 0..MaxClears /\ throws \in 0..MaxThrows /\ embeds \in 0..MaxEmbedded
  /\ fate \in [Messages -> Fates]
  /\ overflowed \in BOOLEAN /\ unattended \subseteq Messages

Init ==
  /\ queues = [q \in Queues |-> Fresh(Default)]
  /\ current = None
  /\ active = None
  /\ embedded = FALSE
  /\ handler = [d \in Deliveries |-> "new"]
  /\ recent = {}
  /\ clears = 0 /\ throws = 0 /\ embeds = 0
  /\ fate = [m \in Messages |-> "none"]
  /\ overflowed = FALSE
  /\ unattended = {}

(***************************************************************************)
(* The drain's bookkeeping                                                 *)
(***************************************************************************)
Idle(Q) == Q.items = <<>> /\ Q.dropped = 0

\* buildQueueSummaryPrompt gives a prompt.
Summarises(Q) == Q.policy = "summarize" /\ Q.dropped > 0

\* scheduleFollowupDrain(key) on the map's entry, up to its first await: the
\* loop of a queue with nothing to do ends at once and the entry is removed.
Schedulable(qs, cur) == cur # None /\ ~qs[cur].draining

QueuesScheduled(qs, cur) ==
  IF Schedulable(qs, cur) /\ ~Idle(qs[cur])
  THEN [qs EXCEPT ![cur].draining = TRUE, ![cur].at = "debounce", ![cur].force = FALSE]
  ELSE qs

EntryScheduled(qs, cur) == IF Schedulable(qs, cur) /\ Idle(qs[cur]) THEN None ELSE cur

ScheduleFollowupDrain(qs, cur) ==
  /\ queues' = QueuesScheduled(qs, cur)
  /\ current' = EntryScheduled(qs, cur)

DeleteEntryAlways(q) == None              \* mutant: no identity check

\* FOLLOWUP_QUEUES.get(key) === queue
DeleteEntry(q) == IF current = q THEN None ELSE current

\* The finally block of q's drain, which ends with the queue object Q.
EndDrain(q, Q) ==
  LET qs == [queues EXCEPT ![q] = [Q EXCEPT !.draining = FALSE, !.at = "idle",
                                            !.force = FALSE, !.batch = <<>>,
                                            !.take = 0, !.summary = FALSE, !.rest = <<>>]]
  IN  IF Idle(Q) THEN queues' = qs /\ current' = DeleteEntry(q)
                 ELSE ScheduleFollowupDrain(qs, current)

\* The condition of the while loop.
NextRound(q, Q) ==
  IF Idle(Q) THEN EndDrain(q, Q)
  ELSE /\ queues' = [queues EXCEPT ![q] = [Q EXCEPT !.at = "debounce", !.batch = <<>>,
                                                    !.take = 0, !.summary = FALSE]]
       /\ UNCHANGED current

HandToRunner(q, batch, take, summary, rest) ==
  queues' = [queues EXCEPT ![q].at = "start", ![q].batch = batch, ![q].take = take,
                           ![q].summary = summary, ![q].rest = rest]

\* hasCrossChannelItems
CrossChannel(items) ==
  LET routes == {RouteOf[items[i]] : i \in DOMAIN items}
  IN  "unroutable" \in routes \/ Cardinality(routes) > 1

TakenItemsStay(items, n) == items              \* mutant: the run items stay

\* items.shift(), items.splice(0, n)
WithoutFirst(items, n) == IF n >= Len(items) THEN <<>> ELSE SubSeq(items, n + 1, Len(items))

OneGroup(items) == Len(items)              \* mutant: one group for everybody

\* splitCollectItemsByAuthorization splits messages into runs of equal
\* authorization keys; this is the length of the first.
GroupLength(items) ==
  Min({n \in 1..Len(items) :
         n < Len(items) => SenderOf[items[n + 1]] # SenderOf[items[1]]})

FirstGroup(items) == SubSeq(items, 1, GroupLength(items))

(***************************************************************************)
(* The drain's steps (after the debounce of each round)                    *)
(***************************************************************************)
drainFrame == <<embedded, handler, recent, clears, embeds, overflowed, unattended>>
roundFrame == <<current, active, throws, fate, drainFrame>>

Individually(Q) == Q.mode # "collect" \/ Q.force \/ CrossChannel(Q.items)

\* drainNextQueueItem: one message, with its own prompt.
TakeNext(q) ==
  /\ queues[q].at = "debounce" /\ queues[q].items # <<>>
  /\ \/ queues[q].mode # "collect" /\ ~Summarises(queues[q])
        /\ HandToRunner(q, <<Head(queues[q].items)>>, 1, FALSE, <<>>)
     \/ queues[q].mode = "collect" /\ Individually(queues[q])
        /\ queues' = [queues EXCEPT ![q].at = "start", ![q].force = TRUE,
                                    ![q].batch = <<Head(queues[q].items)>>, ![q].take = 1]
  /\ UNCHANGED roundFrame

\* Outside collect mode the summary goes out with the route of the next
\* message, whose own prompt is not run, and removes that message.
TakeSummaryTurn(q) ==
  /\ queues[q].at = "debounce" /\ queues[q].mode # "collect"
  /\ Summarises(queues[q]) /\ queues[q].items # <<>>
  /\ HandToRunner(q, <<>>, 1, TRUE, <<>>)
  /\ UNCHANGED roundFrame

\* drainCollectQueueStep finds nothing to run on its own and is awaited.
CheckCollect(q) ==
  /\ queues[q].at = "debounce" /\ queues[q].mode = "collect"
  /\ Individually(queues[q]) => queues[q].items = <<>>
  /\ queues' = [queues EXCEPT ![q].at = "collect"]
  /\ UNCHANGED roundFrame

Collected(Q) == IF Q.force THEN <<>> ELSE Q.items

CollectGroups(q) ==
  /\ queues[q].at = "collect" /\ Collected(queues[q]) # <<>>
  /\ LET items == Collected(queues[q])
         n == GroupLength(items)
     IN  HandToRunner(q, FirstGroup(items), n, Summarises(queues[q]), WithoutFirst(items, n))
  /\ UNCHANGED roundFrame

CollectSummary(q) ==
  /\ queues[q].at = "collect" /\ Collected(queues[q]) = <<>> /\ Summarises(queues[q])
  /\ HandToRunner(q, <<>>, 0, TRUE, <<>>)
  /\ UNCHANGED roundFrame

\* The breaks: nothing to run, though the loop's condition holds.
Break(q) ==
  /\ \/ queues[q].at = "debounce" /\ queues[q].mode # "collect" /\ queues[q].items = <<>>
     \/ queues[q].at = "collect" /\ Collected(queues[q]) = <<>> /\ ~Summarises(queues[q])
  /\ EndDrain(q, queues[q])
  /\ UNCHANGED <<active, throws, fate, drainFrame>>

\* The followup runner has resolved its config and gets the reply operation.
StartRun(q) ==
  /\ queues[q].at = "start" /\ active = None
  /\ queues' = [queues EXCEPT ![q].at = "running"]
  /\ active' = q
  /\ UNCHANGED <<current, throws, fate, drainFrame>>

\* ReplyRunAlreadyActiveError, or the config could not be resolved.
RunRefused(q) ==
  /\ queues[q].at = "start"
  /\ IF active # None THEN UNCHANGED throws
     ELSE throws < MaxThrows /\ throws' = throws + 1
  /\ EndDrain(q, queues[q])
  /\ UNCHANGED <<active, fate, drainFrame>>

ReleasedBy(owner) == active' = IF active = owner THEN None ELSE active

\* The run returns: its items and the summary go, and the next group or the
\* next round follows.
FinishRun(q) ==
  /\ queues[q].at = "running"
  /\ ReleasedBy(q)
  /\ fate' = [m \in Messages |-> IF Contains(queues[q].batch, m) THEN "ran" ELSE fate[m]]
  /\ LET Q == [queues[q] EXCEPT
                 !.items = WithoutFirst(queues[q].items, queues[q].take),
                 !.dropped = IF queues[q].summary THEN 0 ELSE @]
     IN  IF Q.rest # <<>>
         THEN /\ queues' = [queues EXCEPT
                   ![q] = [Q EXCEPT !.at = "start", !.batch = FirstGroup(Q.rest),
                                    !.summary = FALSE, !.take = GroupLength(Q.rest),
                                    !.rest = WithoutFirst(Q.rest, GroupLength(Q.rest))]]
              /\ UNCHANGED current
         ELSE NextRound(q, Q)
  /\ UNCHANGED <<throws, drainFrame>>

\* The reply could not be sent: the run throws after the agent has run.
RunThrows(q) ==
  /\ queues[q].at = "running"
  /\ throws < MaxThrows /\ throws' = throws + 1
  /\ ReleasedBy(q)
  /\ EndDrain(q, queues[q])
  /\ UNCHANGED <<fate, drainFrame>>

Drain(q) ==
  \/ TakeNext(q) \/ TakeSummaryTurn(q) \/ CheckCollect(q) \/ CollectGroups(q)
  \/ CollectSummary(q) \/ Break(q) \/ StartRun(q) \/ RunRefused(q)
  \/ FinishRun(q) \/ RunThrows(q)

(***************************************************************************)
(* The reply agent                                                         *)
(***************************************************************************)
Busy == active # None \/ embedded

\* A run after which nobody schedules the current queue: one that is no reply,
\* or that of a drain whose queue object the map no longer holds.
NoDrainFollows(cur) == Busy /\ (active = None \/ active \in Queues \ {cur})

Receive(d) ==
  /\ handler[d] = "new"
  /\ handler' = [handler EXCEPT ![d] = IF Busy THEN "enqueue" ELSE "runNow"]
  /\ UNCHANGED <<queues, current, active, embedded, recent, clears, throws, embeds,
                 fate, overflowed, unattended>>

\* getFollowupQueue: the key's object with the new settings, or a new one.
Unused == {q \in Queues \ {current} : ~queues[q].draining}
QueueFor == IF current # None THEN current ELSE CHOOSE q \in Unused : TRUE
QueueWith(s) ==
  IF current # None THEN [queues[current] EXCEPT !.mode = s.mode, !.policy = s.policy]
                    ELSE Fresh(s)

ScheduleUnlessBusySkips(qs, cur) ==        \* mutant: no second look at the run
  queues' = qs /\ current' = cur

\* After the enqueue the agent looks at the active run again.
ScheduleUnlessBusy(qs, cur) ==
  IF Busy THEN queues' = qs /\ current' = cur ELSE ScheduleFollowupDrain(qs, cur)

enqueueFrame == <<active, embedded, clears, throws, embeds>>
Enqueued(d) == handler' = [handler EXCEPT ![d] = "done"]

AlreadyQueued(m, items) == m \in recent \/ Contains(items, m)

EnqueueDuplicate(d, s) ==
  /\ handler[d] = "enqueue" /\ AlreadyQueued(MessageOf[d], QueueWith(s).items)
  /\ ScheduleUnlessBusy([queues EXCEPT ![QueueFor] = QueueWith(s)], QueueFor)
  /\ Enqueued(d)
  /\ UNCHANGED <<recent, fate, overflowed, unattended, enqueueFrame>>

\* applyQueueDropPolicy
Full(Q) == Len(Q.items) >= Cap

EnqueueRefused(d, s) ==
  /\ handler[d] = "enqueue" /\ ~AlreadyQueued(MessageOf[d], QueueWith(s).items)
  /\ Full(QueueWith(s)) /\ s.policy = "new"
  /\ ScheduleUnlessBusy([queues EXCEPT ![QueueFor] = QueueWith(s)], QueueFor)
  /\ fate' = [fate EXCEPT ![MessageOf[d]] = "refused"]
  /\ Enqueued(d)
  /\ UNCHANGED <<recent, overflowed, unattended, enqueueFrame>>

EnqueueFollowupRun(d, s) ==
  LET m == MessageOf[d]
      Q == QueueWith(s)
      dropCount == IF Full(Q) THEN Len(Q.items) - Cap + 1 ELSE 0
      pushed == [Q EXCEPT !.items = Append(WithoutFirst(Q.items, dropCount), m),
                          !.dropped = IF s.policy = "summarize" THEN @ + dropCount ELSE @]
  IN  /\ handler[d] = "enqueue" /\ ~AlreadyQueued(m, Q.items)
      /\ Full(Q) => s.policy # "new"
      /\ ScheduleUnlessBusy([queues EXCEPT ![QueueFor] = pushed], QueueFor)
      /\ fate' = [n \in Messages |->
                    IF n = m THEN "queued"
                    ELSE IF \E i \in 1..dropCount : Q.items[i] = n THEN "dropped"
                    ELSE fate[n]]
      /\ overflowed' = (overflowed \/ dropCount > 0)
      /\ unattended' = IF NoDrainFollows(QueueFor) THEN unattended \cup {m} ELSE unattended
      /\ recent' = recent \cup {m}
      /\ Enqueued(d)
      /\ UNCHANGED enqueueFrame

replyFrame == <<embedded, recent, fate, clears, throws, embeds, overflowed, unattended>>

\* createReplyOperation succeeds, or answers that a run is still shutting down.
RunNow(d) ==
  /\ handler[d] = "runNow"
  /\ IF active = None
     THEN active' = d /\ handler' = [handler EXCEPT ![d] = "running"]
     ELSE UNCHANGED active /\ handler' = [handler EXCEPT ![d] = "done"]
  /\ UNCHANGED <<queues, current, replyFrame>>

\* The operation fails, or is aborted while it waits, before the reply is done.
ReleaseEarly(d) ==
  /\ handler[d] = "running" /\ ReleasedBy(d)
  /\ handler' = [handler EXCEPT ![d] = "ended"]
  /\ UNCHANGED <<queues, current, replyFrame>>

\* completeThen(drainQueuedFollowupsAfterClear)
EndReply(d) ==
  /\ handler[d] \in {"running", "ended"}
  /\ ReleasedBy(d)
  /\ handler' = [handler EXCEPT ![d] = "done"]
  /\ ScheduleFollowupDrain(queues, current)
  /\ UNCHANGED replyFrame

Reply(d) ==
  \/ \E s \in SettingsOf[d] : \/ EnqueueDuplicate(d, s) \/ EnqueueRefused(d, s)
                             \/ EnqueueFollowupRun(d, s)
  \/ RunNow(d) \/ EndReply(d)

(***************************************************************************)
(* Runs that are no reply (agent calls, cron), and the clearing of the key *)
(***************************************************************************)
outerFrame == <<active, handler, recent, throws, overflowed, unattended>>

StartEmbedded ==
  /\ ~embedded /\ embeds < MaxEmbedded
  /\ embedded' = TRUE /\ embeds' = embeds + 1
  /\ UNCHANGED <<queues, current, fate, clears, outerFrame>>

EndEmbedded ==
  /\ embedded /\ embedded' = FALSE
  /\ UNCHANGED <<queues, current, fate, clears, embeds, outerFrame>>

ClearedItemsKept(items) == items           \* mutant: only the entry is removed

ClearedItems(items) == <<>>

\* clearSessionQueues, at a stop or a reset of the session.
ClearSessionQueues ==
  /\ clears < MaxClears /\ current # None
  /\ queues' = [queues EXCEPT ![current].items = ClearedItems(@), ![current].dropped = 0]
  /\ current' = None
  /\ clears' = clears + 1
  /\ fate' = [m \in Messages |->
                IF Contains(queues[current].items, m) THEN "cleared" ELSE fate[m]]
  /\ UNCHANGED <<embedded, embeds, outerFrame>>

Next ==
  \/ \E q \in Queues : Drain(q)
  \/ \E d \in Deliveries : Receive(d) \/ ReleaseEarly(d) \/ Reply(d)
  \/ StartEmbedded \/ EndEmbedded \/ ClearSessionQueues

\* Timers fire and awaited work is answered: a drain goes on, an agent that
\* took a delivery finishes it, a run that is no reply ends.
Fairness ==
  /\ \A q \in Queues : WF_vars(Drain(q))
  /\ \A d \in Deliveries : WF_vars(Reply(d))
  /\ WF_vars(EndEmbedded)

Spec == Init /\ [][Next]_vars
FairSpec == Spec /\ Fairness

(***************************************************************************)
(* Properties                                                              *)
(***************************************************************************)

\* As long as the cap was never exceeded, a queued message that has not run is
\* in the queue of the key or in one whose drain goes on: the drain, which
\* removes from the front of the live array what it collected before an await,
\* removes nothing else, and no queue object with messages is forgotten.
NothingLost ==
  overflowed \/ \A m \in Messages : fate[m] = "queued" =>
    \E q \in Queues : Contains(queues[q].items, m) /\ (q = current \/ queues[q].draining)

\* "drop: summarize": a message is run unless it was dropped for the summary.
\* It says of every history what NothingLost says of those without overflow.
DroppedOrRun ==
  \A m \in Messages : fate[m] = "queued" => \E q \in Queues : Contains(queues[q].items, m)

\* No message is given to a second run once a run that carried it has returned,
\* through retries of thrown runs, redeliveries, overflow and clears.
RunsOnce ==
  \A q \in Queues : queues[q].at = "running" =>
    \A m \in Messages : Contains(queues[q].batch, m) => fate[m] # "ran"

\* The prompts of one run come from one sender's authorization, however the
\* queue changed between the snapshot of a batch and its runs.
OneSenderPerRun ==
  \A q \in Queues :
    \A i, j \in DOMAIN queues[q].batch :
      SenderOf[queues[q].batch[i]] = SenderOf[queues[q].batch[j]]

\* A drain takes from the queue only messages that wait: none that ran, was
\* dropped, or was cleared while an older drain of the key went on.
TakesOnlyWaiting ==
  [][\A q \in Queues :
       queues[q].at \in {"debounce", "collect"} /\ queues'[q].at = "start" =>
         \A m \in Messages : Contains(queues'[q].batch, m) => fate[m] = "queued"]_vars

\* Every time messages wait, a time comes when all have been run or cleared,
\* except those queued behind a run that schedules no drain of their queue, and
\* unless the cap was exceeded.
Waiting == {m \in Messages \ unattended : fate[m] = "queued"}
FollowupsHandled == Waiting # {} ~> (Waiting = {} \/ overflowed)

\* queue.md: a followup is enqueued for a later turn after the current run ends.
EveryFollowupHandled ==
  \A m \in Messages : fate[m] = "queued" ~> fate[m] # "queued"

(***************************************************************************)
(* The inductive invariant of the proofs.  Its parts are stated of any queue *)
(* objects, map entry and fates, so that they can be asked of the            *)
(* intermediate ones of a step.                                             *)
(***************************************************************************)
\* Before it has taken something a drain holds nothing.
HoldsNothing(Q) == Q.batch = <<>> /\ Q.rest = <<>> /\ Q.take = 0 /\ ~Q.summary

\* What a drain holds stands at the front of its queue, as far as it is still
\* there, in the order in which it is to be removed.
InOrder(Q) ==
  /\ Len(Q.batch) <= Q.take
  /\ \A i \in DOMAIN Q.items :
       /\ \A k \in DOMAIN Q.batch : Q.items[i] = Q.batch[k] => i <= k
       /\ \A k \in DOMAIN Q.rest : Q.items[i] = Q.rest[k] => i <= Q.take + k
  /\ IsInjective(Q.items) /\ IsInjective(Q.batch) /\ IsInjective(Q.rest)
  /\ \A k \in DOMAIN Q.batch, l \in DOMAIN Q.rest : Q.batch[k] # Q.rest[l]

\* Waiting messages wait, and no message that is held has run.
NotYetRun(Q, fates) ==
  /\ \A i \in DOMAIN Q.items : fates[Q.items[i]] = "queued"
  /\ \A k \in DOMAIN Q.batch : fates[Q.batch[k]] \in {"queued", "dropped", "cleared"}
  /\ \A k \in DOMAIN Q.rest : fates[Q.rest[k]] \in {"queued", "dropped", "cleared"}

SameSender(batch) ==
  \A i, j \in DOMAIN batch : SenderOf[batch[i]] = SenderOf[batch[j]]

QueueSound(Q, fates) ==
  /\ Q \in QueueRecords /\ Len(Q.items) <= Cap
  /\ Q.draining = (Q.at # "idle")
  /\ Q.at \in {"idle", "debounce", "collect"} => HoldsNothing(Q)
  /\ InOrder(Q) /\ NotYetRun(Q, fates) /\ SameSender(Q.batch)

Holds(Q, m) == Contains(Q.items, m) \/ Contains(Q.batch, m) \/ Contains(Q.rest, m)

\* A message is with one queue object, and waits only in the one in the map.
Sound(qs, cur, fates) ==
  /\ qs \in [Queues -> QueueRecords]
  /\ \A q \in Queues : QueueSound(qs[q], fates)
  /\ \A q, r \in Queues : q # r =>
       \A m \in Messages : ~(Holds(qs[q], m) /\ Holds(qs[r], m))
  /\ cur \in Queues \cup {None}
  /\ \A q \in Queues \ {cur} : qs[q].items = <<>>

\* Without overflow nothing is summarised, and what the drain of the queue in the
\* map holds is the front of that queue, ...
Exact(Q) ==
  /\ Q.dropped = 0 /\ ~Q.summary
  /\ Len(Q.batch) = Q.take /\ Q.take + Len(Q.rest) <= Len(Q.items)
  /\ \A k \in DOMAIN Q.batch : Q.items[k] = Q.batch[k]
  /\ \A k \in DOMAIN Q.rest : Q.items[Q.take + k] = Q.rest[k]

\* ... where everything queued is.
Complete(qs, cur, fates) ==
  /\ \A q \in Queues : q = cur => Exact(qs[q])
  /\ \A m \in Messages : fates[m] = "queued" => \E q \in Queues : Contains(qs[q].items, m)

\* Drains of objects that a clear took from the map.
Leftover(qs, cur) == {q \in Queues \ {cur} : qs[q].draining}

FollowupInv ==
  /\ TypeOK
  /\ recent = {m \in Messages : fate[m] \notin {"none", "refused"}}
  /\ Sound(queues, current, fate)
  /\ overflowed \/ Complete(queues, current, fate)
  /\ Cardinality(Leftover(queues, current)) <= clears

=============================================================================

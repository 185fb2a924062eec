# A verification project for ClawMongo

ClawMongo (a fork of OpenClaw) is a personal-assistant gateway: one Node
process that receives messages from chat channels, runs agents on them, sends
the replies, and keeps its memory in MongoDB. This directory holds TLA+
modules of the parts of it whose correctness depends on the order of events,
configurations that check them with TLC, and proofs checked by TLAPS.

Everything concurrent in the gateway happens on one event loop. Code between
two awaits is atomic; whatever is awaited (a file, the database, a platform, a
timer, another task) lets every other callback run. So one action of a module
is one stretch of code from an await to the next, and the interleavings are
those of the event loop. Where a component survives a restart, the death of the
process between two stretches is an action too.

## 1. Inventory

Paths are relative to `src/`. "M" is modelled here, "P" in part, "–" not.

| | component | state it keeps | operations | what makes it correct |
|---|---|---|---|---|
| M | command queue, `src/process/command-queue.ts` | per lane: a FIFO, active task ids, a limit, a generation; the draining flag; waiters | enqueue, pump, completion, task timeout, set limit, clear, reset one / all, mark draining, wait for active tasks | no lost wakeup, no leaked slot, limit respected, every call answered once and truthfully, waiters answered |
| M | agent run lanes, `src/agents/pi-embedded-runner/lanes.ts`, `src/agents/session-suspension.ts`, `src/gateway/server-lanes.ts` | lanes of the queue, resume timers, configured limits | nested session/global/cron calls, suspension and resume, config reload, stuck-session recovery, restart drain | one run per session, no deadlock between nested lanes, limits follow the configuration |
| M | outbound delivery queue, `src/infra/outbound/delivery-queue-*.ts` | a directory of entries, `failed/`, markers; claims in memory | enqueue, ack in two phases, fail, mark, move to failed; startup recovery with a budget; reconnect drain | no message lost, none sent by two at once, none replayed after ack or after an unknown outcome, retries bounded |
| P | outbound send path, `src/infra/outbound/deliver.ts` | – | queue wrapper around the send; hooks, rendering, chunking, adapters | acks exactly what was delivered |
| P | restart sentinel, `src/gateway/server-restart-sentinel.ts` | a sentinel file | notice of a restart, continuation of a session | the notice is sent once |
| M | memory access tracker, `src/memory/mongodb-access-tracker.ts` | a buffer of counts, a pending flush | record, flush, automatic and timed flush, close | each access counted once, none forgotten |
| M | heartbeat wakes, `src/infra/heartbeat-wake.ts` | pending wakes by target, one timer, a running flag, a handler and its generation | request, batch, retry on busy or error, handler swap | a pending wake always has a timer or a batch, none is lost or demoted in a merge, a handler has one batch at a time |
| P | heartbeat runner, `src/infra/heartbeat-runner.ts` | agents, an interval timer, the stopped flag | start, stop, reconfigure, run a wake, re-arm | the interval clock never stops while heartbeats are on |
| P | followup queue, `src/auto-reply/reply/queue/` | per session key: items, dropped count, settings, draining flag; a callback | enqueue with dedupe and drop policy, drain one by one or collected, clear | items run once, in runs of one sender; none is lost, stranded, or run after a clear |
| P | reply agent and reply operations, `src/auto-reply/reply/agent-runner.ts`, `followup-runner.ts`, `reply-run-registry.ts` | the active run of a key | run at once or queue, end of a run | the end of a run drains what was queued behind it |
| P | cron service, `src/cron/service/` | jobs on disk and in memory, one timer, running flag and markers | arm, tick, run, apply outcome, add / update / remove, manual run, startup catch-up | a due job runs once, no job stays marked running, no slot is skipped, the scheduler never stops |
| – | session delivery queue, `src/infra/session-delivery-queue-*.ts` | as the outbound queue | as the outbound queue | as the outbound queue |
| – | query cache, `src/memory/mongodb-query-cache.ts` | cached results by query and scope | look up, store late, invalidate | no result older than the last invalidation |
| – | structured memory, `src/memory/mongodb-structured-memory.ts` | one document per key with a revision, revision history | write, with or without a transaction | revisions are unique and increasing |
| – | consolidation and jobs, `src/memory/mongodb-consolidator.ts`, `-memory-jobs.ts`, `-events.ts` | runs, events and their marks, job status | consolidate, mark, update status | one run per interval, no event marked before it is handled, status never goes back |
| – | change stream, `src/memory/mongodb-change-stream.ts` | resume token, pending paths, debounce timer | start, change, reopen, close | no change lost on resume |
| – | session store, write lock, ACP control plane, task registry, subagent registry, process supervisor | files, locks, registries | – | candidates of later work |
| – | pairing, auth cooldowns, exec approvals, commitments | files under one lock | – | little interleaving |
| – | gateway server, agent runtime, plugins, channels, configuration, CLI, apps, UI | – | – | I/O, parsing and presentation |

How they interact. A channel's message becomes an agent run, which
`runEmbeddedPiAgent` enqueues in the lane of its session and, inside that task,
in a global lane. Cron, followups, heartbeats and restart recovery start runs
the same way. A run's reply goes through `deliverOutboundPayloadsInternal`,
which writes it to the delivery queue, claims it, sends it and acks it; the
gateway's start and a channel's reconnect replay what is left. A message that
arrives while a run of its session is active joins the session's followup queue,
which the end of the run drains. A cron job, a finished command or the
heartbeat runner's own timer requests a wake; the wake layer coalesces wakes and
hands them to the runner, whose finally block sets the timer again. A restart marks
the queue draining, waits for active tasks, closes the server and resets the
lanes. Quota errors suspend a lane; a config reload sets limits.

What is hard: a timeout answers a call whose body goes on; a reset invalidates
completions still to come; snapshots of directories and limits are used after
awaits; the process may die between a platform send and its ack; several
processes rewrite one file. `PROJECT.json` lists each such place under
"hazards", with the properties that watch it.

## 2. Modules

    CallContract            what a caller of the queue may rely on
      ^ implemented by
    CommandQueue            lanes, pump, timeouts, resets, waiters
      ^ INSTANCE              ^ EXTENDS
      |                     CommandQueueProofs      its invariant
      |                       ^ EXTENDS
      |                     CommandQueueContract    limits and the contract
      |                       ^ INSTANCE
    AgentLanes            <- AgentLanesProofs
    DeliveryQueue           write-ahead queue, live send, recovery, sentinel
                                                    <- DeliveryQueueProofs
    AccessTracker           buffered counters       <- AccessTrackerProofs
    FollowupQueue           queued messages, their drain and the reply runs
                                                    <- FollowupQueueProofs
    HeartbeatWake           pending wakes, timer, batches, handlers
      ^ EXTENDS
    HeartbeatRunner         runner lives, interval timer <- HeartbeatProofs
    CronService             store, tick, catch-up, users, crashes
                                                    <- CronProofs
    MC*                     the instances that TLC checks

### CommandQueue

One action per exported function; the pump of `drainLane` runs inside each
action that calls it (`DrainLanes`), as it does in the code, because none of
these functions awaits. What interleaves is outside: bodies that settle
(`SettleTask`, or `SettleLate` after a timeout), timers (`TaskTimeout`,
`WaiterTimeout`), callers. An entry is one call; its task id is drawn when it
leaves its queue, which happens once, so the entry stands for its task id.
`body` is the task's own promise, `promise` what the caller holds: a timeout
answers the second and not the first. `taskGeneration` is the generation a task
captured when it started; a completion counts only if it is still the lane's.

Left out: logging and `onWait`, whose callers only log, so nothing runs inside
the pump and the `draining` flag is never seen set; the reading functions;
creation of a lane on first use (all lanes exist from the start, idle).

### CallContract

The same calls without slots, limits, generations or waiters: calls of a lane
begin in the order they were accepted, each at most once; a refused or cleared
call never begins; a promise is answered once, with what happened.
`ImplementsContract` of CommandQueue is the refinement, with the queue as the
contract's line and the other variables as themselves.

### AgentLanes

INSTANCEs CommandQueue with lanes for a session, the global lanes and cron, and
adds the users: calls whose task makes a further call and returns its answer
(`Parents`, `Child`), leaf calls that are runs, `SuspendSession` and
`AutoResume`, `ApplyGatewayLaneConcurrency`, `RecoverStuckSession`, and the
restart (`BeginDrain`, `WaitForDrain`, `DrainTimeout`, `RestartIteration`).
`SuspendSession` may restore any limit that was ever loaded: it takes the limit
of the configuration its run started with. `Chain` and `LeafOf` name the run a
call leads to, for `SessionExclusive`. A reload sets the limits of all its lanes
in one action, as nothing is awaited between them; `RecoverStuckSession` leaves
out the reset of a session lane in which nothing runs, which only raises the
generation of the lane.

### DeliveryQueue

Each live send, the startup pass and each drain is a process with a program
counter; each await of a file operation or of the platform is a step. The
functions of the store (`FailRead`/`FailWrite`, `AckRename`/`AckUnlink`,
`Move`, `MoveSpent`) are actions shared by whoever calls them. Reads and writes
of `failDelivery` and the marks are separate steps, since they are two awaits.
`claims` is `entriesInProgress`; `Finish` is the `finally` that releases a
claim. `Crash` clears what lives in memory and keeps the files; a message on
its way may have reached the platform.

What a delivery is like decides several branches, so each has a `kind`, chosen
in `Init` from `Kinds`: a set of `Traits`. `bestEffort` and `required` are the
caller's options, `reconciles` an adapter that can tell what became of a send,
`sentinel` the notice of a restart, which `deliverRestartSentinelNotice`
enqueues and sends without a claim. TLC is given all kinds at once where the
instance is small enough.

Abstracted: the backoff clock (an entry with 1 to MAX_RETRIES - 1 retries may be
skipped or taken up; one never replayed is always eligible, as in
`isEntryEligibleForRecoveryRetry`); one payload per delivery; hooks, rendering
and adapters as a choice of outcome; an adapter with `reconcileUnknownSend`
tells the truth or nothing; a drain's `selectEntry` selects by entry when it
takes its snapshot (`Matches`) and, when it reads the entry again, may say no,
which the one caller in the repository never does, as it looks at the channel
and the account only (`extensions/whatsapp/src/auto-reply/monitor.ts:531`). A
failing file operation is a `Fault`, with a bound: the writes of `failDelivery`
and of the marks, the reads of the marks, the rename of an ack, the moves to
`failed/`, and either half of a deferral. What makes no difference to the files
has none of its own: the read of `failDelivery`, whose error ends the attempt as
that of its write does, and the second phase of an ack, after which a marker is
left as it is by a crash. Not covered: an enqueue that fails (nothing is queued
then, the message is sent directly).

History variables record what no file says: `reached` (on the platform),
`acked`, `suspect` (handed to the platform after its mark), `abandoned` (given
up by the caller or a hook), `replays`, and `rewritten`: entries that the
deferral of a pass out of time has set back, as it writes entries it holds no
claim on. `AckedNotReplayed`, `MarkedNotReplayed` and `RetriesBounded` except
those; `AckedNeverReplayed` does not, and is refuted.

Two things hold only with an exception, stated in the properties. A notice of a
restart may be sent twice at once, since its sender holds no claim (`OneSender`
excepts it; the unclaimed `failDelivery` after it may also bring an entry back,
so `AckedNotReplayed` and `RetriesBounded` except it too). A replay passes
`skipQueue` and so never marks its entry: after a crash between its send and its
ack the next start sends again. `MarkedNotReplayed` therefore speaks of live
sends, the only ones that leave a mark.

### AccessTracker

An access is one call of `recordAccess`. The code keeps a count per document;
the module keeps the set of accesses counted, so that a lost or doubled count
shows. `DoFlush` is the part of `doFlush` before its first await, `UpdateOne`
each awaited update, `FlushResumes` the rest of a `flush()` that had to wait.

### FollowupQueue

The queue of one session key, the drain loop and the reply runs around it.
`Queues` is a pool of queue objects: clearing a key removes its object from the
map (`current`), while the drain of the old object still awaits its run, so
identity matters and each object carries its own drain; the pool is larger than
the number of clears, so an object is free when one is needed. One action is one
stretch of the loop: `TakeNext` (one message), `CheckCollect` and
`CollectGroups` (the route check, then the first group of one sender; `rest` is
what remains of the snapshot, whose next group `FinishRun` takes),
`TakeSummaryTurn` and `CollectSummary`, `Break`, then `StartRun`/`RunRefused`,
`FinishRun`/`RunThrows`; the `finally` block (`EndDrain`) belongs to the action
that ends the loop. Each inbound delivery is a process: `Receive` takes the
snapshot of the active run, and `EnqueueDuplicate`, `EnqueueRefused`,
`EnqueueFollowupRun` or `RunNow` acts on it later, with the second look at the
run that `runReplyAgent` takes. `EndReply` is `completeThen` with the drain it
schedules. A run that is no reply (`StartEmbedded`) keeps the session busy and
schedules nothing.

Abstracted: texts, the debounce clock, the content of the summary (its count is
kept). Left out: steering into a run, waiting in interrupt mode,
`refreshQueuedFollowupSession` (fields of queued runs, no control), the `kick`
of a restart that no production caller asks for, the expiry of remembered
message ids, and the announce queue of subagents, a second user of the helpers.

Two things were seen and left without a property. The route check of a
collected batch comes before an await and its snapshot after it, so a message of
another route that arrives in between is collected with the rest
(`drain.ts:196`; the model has both steps). And a drain of single messages whose
items are gone while its count of dropped ones is not zero breaks out of its
loop, and its `finally` block schedules it again, for as long as no message
comes (`drain.ts:294`).

### HeartbeatWake and HeartbeatRunner

`HeartbeatWake` is the wake layer. `pending` maps targets to wakes; a wake
carries the data of one request (`request`) and, as history, the requests merged
into it. The one timer is what is left of it and its kind, since a retry timer
is not replaced by a normal one. The callback of the timer is four actions, one
for each early return and `FireBatch`, which moves all pending wakes into a
batch; `WakeHandled`, `WakeBusy` and `HandlerThrows` are what comes after each
awaited call of the handler, with the `finally` block in the step that ends the
batch. Two batches may be under way, one of them of a lifecycle that ended:
`SetHandler` resets the running flag, and the old batch's end resets the new
one's (`OneBatchPerHandler` says exactly this much).

`HeartbeatRunner` EXTENDS it with the runner: it registers the handler
(`StartHeartbeatRunner`), arms the interval timer (`armed`), refuses wakes at
the start of a call when stopped, paused or without agents (`Admits`), and sets
the timer again in the `finally` block of a call it admitted (`ScheduleNext`).
Every action of the runner is a step of the wake layer or leaves it alone, which
`RunnerStepIsWakeStep` proves. A runner is started only when none is live, as
the gateway stops the old one first; that the disposer of a stale registration
does nothing (`heartbeat-wake.ts:303-308`) therefore shows only in the wake
layer's own specification, where handlers may replace each other.

Abstracted: the interval and the phase of an agent (an armed timer may fire at
any time), the cooldown (a deferred wake is a handled one), the heartbeat's own
turn, the merge of delivery fields. Seen and left without a property: an
immediate request after a retry was scheduled waits for the retry
(`heartbeat-wake.ts:196`), by design of the cooldown.

### CronService

Every section of the code under the store's lock is one action, as nobody else
reads or writes the jobs within it; jobs run between sections. `file` is the
store on disk, `mem` the copy in memory, `loaded` whether it was read. `tick`,
`boot` and `manual` say where `onTimer`, `start()` and each caller of `run`
stand. A tick is `TimerFires`, `CollectDue` (forced reload, markers, write),
`RunDueJob` and `RunEnds` for each job, `ApplyResults` (reload, outcomes,
maintenance, write) and `Finally`. `start()` is `MarkInterrupted`,
`PlanCatchup`, `RunMissedJob`, `ApplyCatchup` and `StartTimer`. Users call
`Add`, `Update`, `Remove`, `Read`, `Preflight`, `Reserve`, `FinishRun`, also
before `start()` has run, as the gateway serves cron methods by then. Any write
may fail, which leaves the file as it was and the memory changed; the process
may die between any two sections. `held` tells whether the job object a tick
marked is still the one in memory, since the start time of a run is written to
the object.

Abstracted: cron expressions (a job is `at` or `every`), the length of backoffs
(one length), what a job does, the timer's delay (an armed timer may fire at any
time, as it wakes at least once a minute). Left out: the second file of the
store, `stop()`, payloads and delivery, the wake of the main session, failure
alerts, the task ledger, the session reaper, jobs whose schedule cannot be
computed, the repair of future slots of cron expressions, and jobs that a hand
edit of the file has made invalid, which a manual run records as skipped before
it looks for a marker (`ops.ts:629-633`). The write of a start that finds no
marker saves the state of jobs only (`ops.ts:168`); the module writes the jobs
whole, which differs only if a user's write before the start has failed.

Histories: `released`, jobs whose marker was cleared under a run (disabled,
marked for longer than `STUCK_RUN_MS`, or taken for interrupted by a start that
came after early calls); `done`, one-shots that have succeeded. The exceptions
in the properties are these and failed writes, counted apart for the service and
its users.

Seen and left without a property: a failed write in `start()` leaves the
scheduler without a timer until some call sets it (`DueJobsRun` excepts it); a
marker left by a failed write blocks manual runs for `STUCK_RUN_MS`, though the
comment at `ops.ts:624-626` reads otherwise; a disabled job that waits in a tick's list is still run; a
one-shot rescheduled during its own run is disabled when the run ends; a crash
longer than `STUCK_RUN_MS` before the restart, with a read before `start()`,
clears the marker of a one-shot, which then runs again; and a service stopped
during a tick is armed again by that tick.

## 3. Runs

| run | what it checks | bounds |
|---|---|---|
| command_queue | types, `WorkConserving`, `SlotsAreOwned`, `PendingAccounted`, `PumpWithinLimit`, `WaitersHaveCause`, `CallsAnswered`, `WaitersAnswered`, refinement of CallContract | 2 lanes (one a probe lane), 3 calls, 1 of them timed, limits -1 (cut to 0 or 1) and 2, 1 reset per lane, 1 waiter with a timeout |
| agent_lanes | `SessionExclusive`, `EveryCallAnswered` | a cron run of three nested calls beside a run of its session, 1 suspension, 1 restart, a reload of the same limits |
| delivery | `OneSender`, `AckedNotReplayed`, `MarkedNotReplayed`, `RetriesBounded`, `ClaimsOwned`, `StrictNotLost` | 1 delivery of any kind, startup pass with a budget and one drain, limit 2, 2 crashes, 2 faults |
| delivery_budget | refutes `AckedNeverReplayed` | 2 deliveries, budget, one drain |
| tracker | types, `EveryAccessOnce`, `BufferBounded`, `NoneForgotten`, `AccessesWritten` | 4 accesses of 2 documents, timer and one caller, threshold 2 |
| followup | `NothingLost`, `RunsOnce`, `OneSenderPerRun`, `TakesOnlyWaiting`, `FollowupsHandled` | 3 messages, one delivered twice, 2 senders, 2 routes, cap 2, 1 clear, 1 run that throws, 1 run that is no reply |
| followup_lost | refutes `DroppedOrRun` | 4 messages, cap 2 |
| followup_stranded | refutes `EveryFollowupHandled` | 3 messages, cap 3, 1 clear |
| heartbeat | types, `NoStrandedWake`, `NoForgottenRequest`, `UrgencyKept`, `OneBatchPerHandler`, `ClockKept`, `EventsHandled` | 3 requests of 2 targets, 2 lifecycles, 2 batches, 1 failure, 1 pause or change |
| heartbeat_pause | refutes `ClockSurvivesPause` | 1 lifecycle, 2 changes |
| cron | `NoOverlap`, `MarkersOwned`, `SchedulerAlive`, `OneShotOnce`, `NoSlotSkipped`, `DueJobsRun` | a one-shot and a recurring job, one caller of `run`, times to 3, 1 user call, failed write or crash |
| cron_add | refutes `NoSlotSkippedByAdd` | as `cron` |

Why the bounds are enough to be of interest. In the queue, two calls in a lane
give a running task and one behind it, limits cut by the probe lane and limits
above the number of calls close and widen it; one reset separates two
generations, and the only comparison made on generations is of a task's with its
lane's. In the lanes, a cron run and a run of its session are the smallest place
where cron, session and global slots wait on each other. In the delivery queue
one entry is enough: no guard of the code reads the file or the claim of another
entry, so others only add delay between steps, which interleaving gives anyway;
two crashes give a live send, a replay and a replay of the replay; the limit is
reached by real retries. In the followup queue, a cap of 2 with 3 messages
overflows while a run is under way, two queue objects are those of a key cleared
once. In the heartbeat, two lifecycles are what a batch that outlives its
handler needs, and three requests meet in every order of urgency. In cron, two
slots of the recurring job and a one-shot fit in three units of time, with the
stuck age at one; one event is a crash, or a user's call, or a failed write of
the service, and the safety properties were also checked with two (4.3 million
states, four minutes, no error), which is too long to keep as a run beside
the liveness property. Between them the passing runs fire every action.

Deadlock checking is on for the command queue, and off where the system comes to
rest when its bounded work is done: all the others.

### What the refuted runs show

- **delivery_budget**: the deferral of a startup pass out of time rewrites
  entries it has not claimed and can bring back an acked one, which is then
  replayed, or erase the mark of one being sent.
- **followup_lost**: the drain awaits the run of the first message and then
  removes the first of the array; when the cap has dropped that message
  meanwhile, the next one is removed instead, neither run nor summarised. A
  summary's run, which takes the first message with it, does the same.
- **followup_stranded**: a message that arrives after a clear, while the run of
  the cleared queue's drain is still ending, is put in a new queue object that
  no drain is scheduled for.
- **heartbeat_pause**: an interval tick during a pause is refused before the
  block that sets the next timer; after `system heartbeat enable` nothing ticks
  until another wake or a reload.
- **cron_add**: adding a job recomputes all jobs; one that is due and has not
  begun is moved to its next slot and not run.

Five more places where the code does less than one might expect are in the
models and in no run of their own. A lane timeout releases the session's slot
while the timed-out body still runs, so "only one active run per session"
(`docs/concepts/queue.md:111`) holds as `SessionExclusive` says it. An entry
preserved in its lane over a restart (`command-queue.ts:464-466`) may start during the drain, and
then its nested enqueue is refused. A best-effort delivery that fails on replay
is acked, so `StrictNotLost` is about the others (`deliver.ts:1246-1249`). The
resume timer of a suspended lane undoes a limit configured meanwhile
(`AutoResume` restores what `SuspendSession` captured). `flush()` of the tracker
awaits only the last automatic flush, which harms nothing, since each flush owns
the snapshot it took (`EveryAccessOnce`).

### Fairness

All is weak fairness, per process: each is a callback that stays ready until
Node runs it.

- `command_queue`: timers of tasks fire (`TaskTimeout`), bodies of calls without
  a timeout end, and nothing else: bodies of timed calls may hang for ever, no
  caller is obliged to call, and the waiter's own timeout is not relied on. A
  call in a lane closed for good waits for ever, so `CallsAnswered` is about
  lanes that are opened again and again (`[]<>(maxConcurrent > 0)`).
- `agent_lanes`: the event loop runs what is ready (a task makes its nested call
  and returns its answer), timers of runs and suspensions fire, runs without a
  timeout end.
- `tracker`: the database answers, the interval timer fires until `close()`,
  awaits resume.
- `followup`: each drain, each delivery and the run that is no reply go on; no
  message has to arrive, no run has to throw.
- `heartbeat`: the wake timer runs down and fires, and called handlers return;
  nobody has to start, stop or configure, nor the interval to pass.
- `cron`: the tick, `start()` and each manual run go on and their jobs end (by
  their timeout if not before); no user has to call.

## 4. Proofs

Eight modules hold theorems. All hold for every value of the constants that
satisfies the modules' named assumptions, which TLC evaluates in every run:
`QueueAssumption`, `AgentAssumption` and `ChainAssumption`,
`DeliveryAssumption`, `TrackerAssumption`, `FollowupAssumption`,
`WakeAssumption` and `RunnerAssumption`, `CronAssumption` and
`RecordAssumption`. They say that constants have their types, that finite sets
are finite and that names of different kinds differ, and four things more: in
`DeliveryAssumption`, that a restart notice is neither best effort nor
`required` (its sender passes neither); in `FollowupAssumption`, that the pool
of queue objects is larger than the number of clears, as the code can always
allocate one; in `AgentAssumption`, that a call has at most one caller and that
calls which wait for another carry no lane timeout of their own, as in
`runEmbeddedPiAgent`; in `ChainAssumption`, that calls do not call each other in
a circle or without end. Each inductive invariant was first checked by TLC, as
an invariant of its component's run (`CronInv` in 245,994 states, `FollowupInv`
in 528,536, `AgentInv` in 93,379), since several were wrong before they were
inductive.

**CommandQueue.** `QueueInvariant` is `Spec => []QueueInv`. `WorkConserving`
(no lane with room leaves a call waiting) is not inductive alone: that the pump
starts what it can depends on the queue holding idle calls of its own lane, each
once (`QueuedOnce`), and on slots belonging to running calls
(`SlotsAreOwned`), so that cardinalities add up. A completion frees exactly one
slot because its call holds one (`PendingAccounted`). A waiter is answered when
the last of its captured tasks loses its slot (`WaitersHaveCause`). `QueueInv`
is their conjunction with the types and `OnlyAcceptedRun`. One lemma says what
`DrainLanes` leaves behind for any state handed to it, and each action is then a
case of it. From the invariant: `TypeCorrect`, `NoLostWakeup`, `NoLeakedSlot`,
`NoLostCall`, `NoOrphanedWaiter`.

`CommandQueueContract` is about steps. `PumpStaysWithinLimit`: what the pump
starts and what held a slot before add up to the limit of that moment, also in
the step that lowers it. `QueueImplementsContract` is the refinement of
CallContract: the number of calls a pump starts in each lane is the witness of
the contract's `Begin` (`PumpBegins`), and each action is one step of the
contract or leaves what callers see alone.

**AgentLanes.** Every step of the runs is a step of the command queue, except
the reload of the limits, which pumps all global lanes at once. So
`AgentLanesProofs` INSTANCEs the queue's theorems for the lanes and calls of the
agents, shows that the definitions of the two instances agree, and takes
`QueueInv` from there; the reload is a case of the queue's lemma about the pump.
`AgentInv` adds that a session's lane keeps its one slot, which neither a
reload nor a resume timer touches (`OneSlotPerSession`), that a task with a
call under way runs and its own caller waits (`ParentsWait`), and that the
caller of a running body waits or was told of a timeout. `SessionExclusive`
follows without induction over the chain of calls: the calls that do not run or
whose caller does not wait are closed under `Child` by `ParentsWait`, so a chain
(`Chain`, the least such set) that begins in one of them ends in one. Hence a
session's call above a running, waiting leaf runs and waits too, and by
`PendingAccounted` it holds the slot or was cut off by a reset; two of them
would be two slots. From the invariant: `RunsOfASessionExclude`,
`NoRunStranded`, and `AgentsKeepContract`, that the lanes as the agents use them
still implement CallContract.

**DeliveryQueue.** The invariant is in layers, each proved over the one below:
`PlaceInv` (types, and who may stand where), `ClaimsInv` (whoever is at work
holds the claim, and nobody else is at work on the entry), then three that use
both. `OnlyEnqueued`: what is not enqueued has left no trace. `LostInv`: a
message is acked only after it was sent or given up, so that a file which is
gone means a message that arrived (`StrictNotLost`). `GuardInv`, for entries
whose file nobody writes without a claim (`Guarded`): what a worker has read is
what the file says when it writes and when it sends (`CopiesFresh`), which is
what the re-read after the claim is for; an acked file stays away (`AckedGone`);
a mark stays in the file and bars a replay (`MarkKept`, `SuspectNotSent`); the
file counts the replays, but for the one under way, a crash or a failed write
(`ReplaysCounted`). From `DeliveryInvariant`: `ClaimsAreOwned`,
`OneSenderHolds`, `AckedStaysAcked`, `MarkedStaysMarked`, `RetriesAreBounded`,
`NothingStrictIsLost`. The two ways an entry is written without its claim, the
deferral of a pass out of time and the notice of a restart, are exactly what
`Guarded` leaves out; `delivery_budget` shows that it has to.

**AccessTracker.** `TrackerInv` adds to `EveryAccessOnce` that a flush not begun
holds nothing (`Unstarted`); without it, a flush could be begun over accesses it
already has. `CountedOnce` is the invariant's part, `NoAccessForgotten` the
action property, from the same step lemma; `TypeCorrect` and
`BufferStaysBounded` need no more than the types and the threshold.

**FollowupQueue.** `FollowupInv` relates what a drain holds (the batch it runs
and the rest of its snapshot) to the queue it came from. `Sound` holds always: a
drain holds its messages in the queue's order, as far as they are still there
(`InOrder`), none of them has run (`NotYetRun`), a batch has one sender
(`SameSender`), a message is with one queue object, and it waits only in the one
in the map. `Complete` holds while nothing was dropped at the cap: what the
drain of the map's queue holds is exactly the front of that queue (`Exact`), and
whatever is queued is in some queue. An earlier `Exact` was asked only while the
front was not empty and turned out not to be inductive: a message pushed onto an
emptied queue whose drain still holds a batch would take the place of that
batch. That an object can be allocated after a clear is part of the invariant:
the drains left over from cleared objects are fewer than the pool (`Leftover`).
From `FollowupInvariant`: `NoFollowupLost`, `NoFollowupRunsTwice`,
`RunsHaveOneSender`, and the action property `OnlyWaitingTaken`. The groups of a
batch need the least position at which the sender changes; `LeastNat` gets it
from the library's theorem on well-founded inclusion of finite sets, since the
induction theorems are out of reach.

**Heartbeat.** `WakeInv` is the conjunction of the types, `NoStrandedWake`,
`NoForgottenRequest`, `UrgencyKept` and `OneBatchPerHandler` with two facts they
rest on: wakes inside a batch are as urgent as they were when they waited, since
a retry brings them back (`BatchesUrgent`), and the running flag is set while
the registered handler's batch runs, unless an older batch has ended meanwhile
(`RunningKnown`). `QueuePendingKeeps` says what a merge of two maps of wakes
keeps, `EndBatchKeeps` and `GoOnKeeps` what the end of a wake leaves behind, and
`NothingForgotten` reduces the second property to the wake a batch is at.
`WakeInvariant` is the theorem for any user of the wake layer. For the runner,
`ClockKept` is not inductive: it speaks of heartbeats that are on, and a pause
may end at any time. `TimerToCome` says it paused or not, and asks of a call in
progress that it was admitted, since a refused one sets no timer;
`LiveRegistered` ties the running runner to the registered handler.
`RunnerInvariant` is the conjunction, kept because every step of the runner is a
step of the wake layer (`RunnerStepIsWakeStep`). From it: `NoWakeStranded`,
`NoRequestForgotten`, `UrgencyIsKept`, `OneBatchAtATime`, `ClockGoesOn`,
`RunnerTypeCorrect`.

**CronService.** A job is in one place (`OnePlace`): waiting in a tick or a
catch-up, running, or with a result to apply, unless its marker was cleared
under its run (`released`). That rests on the marker: a busy job is marked in
memory and on disk (`MarkedWhileBusy`), on disk because a tick reloads the file
before it looks for due jobs. The converse, no marker without a run
(`NoneLeftBehind`), holds while no write has failed, and needs that the marks of
every section reach the disk together with what releases them. `CallersOwn` ties
a caller of `run` to its run and its result, since the section that applies the
result looks it up; `Known` and `Waits` say where nothing can be; `TimerKept` is
`SchedulerAlive` in the form that every section keeps, also while the file and
the memory differ. `CronInvariant` is their conjunction. From it:
`RunsDoNotOverlap`, `MarkersAreOwned`, `SchedulerStaysAlive`.

Checked by TLC only: the liveness properties (TLAPS proves no `ENABLED` and so
nothing from fairness): `CallsAnswered`, `WaitersAnswered`, `EveryCallAnswered`,
`AccessesWritten`, `FollowupsHandled`, `EventsHandled`, `DueJobsRun`; the action
properties `OneShotOnce` and `NoSlotSkipped` of CronService, which need an
invariant on the schedules of all jobs in memory and on disk that is not written
yet; and what the refuted runs show.

## 5. Plan

In this order; each with its MC module, runs and mutants.

1. Memory: `QueryCache` (late writes and invalidation), `StructuredMemory`
   (revisions), `Consolidation` (rate limit, marks, job status), `ChangeStream`
   (resume token). Small modules, one database, several writers.
2. `SessionDelivery`: the pattern of DeliveryQueue for sessions; the restart
   continuation as its user.
3. The parts left out of the modelled components: `stop()` and the in-process
   restart of the cron service, steering and interruption of reply runs.
4. Candidates: the session store writer, the session write lock, the ACP
   session queue, the task and subagent registries.

Proofs to add: `OneShotOnce` and `NoSlotSkipped` of CronService, with an
invariant that says of each job how its slot on disk, its slot in memory and its
last run stand to each other; and, as lemmas, what the pure functions of the
cron schedule keep (`EverySlot`, `ComputeNext`).

## 6. Not modelled

The gateway server and its protocol, the agent runtime and its tools, plugins,
channels, configuration, the command line, applications and interfaces are most
of the repository's lines. They are I/O, parsing, formatting and presentation
around the components above, and the concurrency they have goes through those
components' queues and stores. The components named "–" in the inventory have
state of their own; what each would need is in `PROJECT.json` under
"components". Vendored and generated code, tests and assets are not considered.

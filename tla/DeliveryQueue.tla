----------------------------- MODULE DeliveryQueue -----------------------------
(***************************************************************************)
(* The write-ahead queue of outbound messages: delivery-queue-storage.ts,  *)
(* delivery-queue-recovery.ts and the queue handling of deliver.ts, all in *)
(* src/src/infra/outbound.                                                 *)
(*                                                                         *)
(* A delivery is written to disk before it is sent and renamed away after. *)
(* Three kinds of process work on it: the live send of its caller, the     *)
(* recovery pass of a gateway start, and the drain a channel runs when it  *)
(* reconnects; the notice of a restart sentinel is a live send that does   *)
(* not claim its entry.  Every await of a file operation or of a platform  *)
(* is a point where the others may run, and where the process may die.     *)
(* Claims live in memory and die with it; files stay.                      *)
(***************************************************************************)
EXTENDS Integers, Sequences

CONSTANTS Entries,      \* queue ids, one per enqueueDelivery
          Kinds,        \* the kinds of delivery, each a set of Traits
          Startup,      \* the recovery pass of a gateway start
          Drains,       \* drain keys
          Matches,      \* the entries each drain selects
          Gone,         \* no file {id}.json
          MaxRetries,   \* MAX_RETRIES
          Budget,       \* may the recovery pass run out of time
          MaxCrashes,   \* bound on crashes (model only)
          MaxFaults     \* bound on failing file operations (model only)

\* bestEffort and queuePolicy "required" of the caller; an adapter that has
\* reconcileUnknownSend; the notice of deliverRestartSentinelNotice.
Traits == {"bestEffort", "required", "reconciles", "sentinel"}

SendStates == {"none", "send_attempt_started", "unknown_after_send"}
Files == [retryCount : Nat, recoveryState : SendStates]

ASSUME DeliveryAssumption ==
  /\ Kinds \subseteq SUBSET Traits
  /\ \A k \in Kinds : "sentinel" \in k => k \cap {"bestEffort", "required"} = {}
  /\ Startup \notin Drains
  /\ ({Startup} \cup Drains) \cap Entries = {}
  /\ Gone \notin Files
  /\ Matches \in [Drains -> SUBSET Entries]
  /\ Budget \in BOOLEAN
  /\ MaxRetries \in Nat /\ MaxCrashes \in Nat /\ MaxFaults \in Nat

VARIABLES kind,      \* of each delivery
          files,     \* {id}.json: Gone, or its retryCount and recoveryState
          marker,    \* ids with a file {id}.delivered
          failed,    \* ids in failed/
          claims,    \* entriesInProgress
          pc,        \* where each process stands
          job,       \* the entry a recovery process works on
          copy,      \* the entry a process has read and will write back
          todo,      \* the rest of its snapshot, sorted by enqueuedAt
          marked,    \* platformSendStarted of the live sends
          deferring, \* entries deferRemainingEntriesForBudget has yet to read
          deferCopy, \* entries it has read and will write back
          order,     \* ids by enqueuedAt
          reached,   \* history: ids whose message reached the platform
          abandoned, \* history: aborted by the caller or suppressed by a hook
          acked,     \* history: ids renamed to {id}.delivered
          suspect,   \* history: sent by a live send after its mark
          replays,   \* history: sends begun by recovery processes
          rewritten, \* history: written back by deferRemainingEntriesForBudget
          crashes, faults

disk == <<files, marker, failed>>
defer == <<deferring, deferCopy>>
history == <<kind, reached, abandoned, suspect, replays, rewritten>>
vars == <<disk, claims, pc, job, copy, todo, marked, defer, order, acked, history,
          crashes, faults>>

Having(trait) == {e \in Entries : trait \in kind[e]}
BestEffort == Having("bestEffort")
Required == Having("required")
Reconciling == Having("reconciles")
Sentinels == Having("sentinel")

Recoverers == {Startup} \cup Drains
Processes == Entries \cup Recoverers
JobOf(p) == IF p \in Entries THEN p ELSE job[p]

Places == {"idle", "claim", "prepare", "mark", "markWrite", "send", "sending",
           "unknown", "unknownWrite", "ack", "unlink", "fail", "failWrite",
           "next", "reread", "reconcile", "move", "moveSpent", "defer", "done"}

TypeOK ==
  /\ kind \in [Entries -> Kinds]
  /\ files \in [Entries -> {Gone} \cup Files]
  /\ marker \subseteq Entries /\ failed \subseteq Entries
  /\ claims \subseteq Entries
  /\ pc \in [Processes -> Places]
  /\ job \in [Recoverers -> {Gone} \cup Entries]
  /\ copy \in [Processes -> {Gone} \cup Files]
  /\ todo \in [Recoverers -> SUBSET Entries]
  /\ marked \subseteq Entries
  /\ deferring \subseteq Entries /\ deferCopy \in [Entries -> {Gone} \cup Files]
  /\ order \in Seq(Entries)
  /\ reached \subseteq Entries /\ abandoned \subseteq Entries
  /\ acked \subseteq Entries /\ suspect \subseteq Entries
  /\ replays \in [Entries -> Nat] /\ rewritten \subseteq Entries
  /\ crashes \in 0..MaxCrashes /\ faults \in 0..MaxFaults

Init ==
  /\ kind \in [Entries -> Kinds]
  /\ files = [e \in Entries |-> Gone]
  /\ marker = {} /\ failed = {} /\ claims = {} /\ marked = {}
  /\ pc = [p \in Processes |-> "idle"]
  /\ job = [p \in Recoverers |-> Gone]
  /\ copy = [p \in Processes |-> Gone]
  /\ todo = [p \in Recoverers |-> {}]
  /\ deferring = {} /\ deferCopy = [e \in Entries |-> Gone]
  /\ order = <<>>
  /\ reached = {} /\ abandoned = {} /\ acked = {} /\ suspect = {}
  /\ replays = [e \in Entries |-> 0] /\ rewritten = {}
  /\ crashes = 0 /\ faults = 0

Enqueued == {order[i] : i \in 1..Len(order)}

Goto(p, place) == pc' = [pc EXCEPT ![p] = place]

\* The process is done with its entry: the finally that releases the claim.
\* A sentinel holds none.
Finish(p) ==
  /\ Goto(p, IF p \in Entries THEN "done" ELSE "next")
  /\ claims' = IF p \in Sentinels THEN claims ELSE claims \ {JobOf(p)}

Fault == faults < MaxFaults /\ faults' = faults + 1

(***************************************************************************)
(* File operations, each shared by the processes that await it             *)
(***************************************************************************)

\* failDelivery: read, then write one retry more.
FailRead(p) ==
  /\ pc[p] = "fail"
  /\ IF files[JobOf(p)] = Gone
     THEN Finish(p) /\ UNCHANGED copy           \* ENOENT: already gone
     ELSE /\ copy' = [copy EXCEPT ![p] = files[JobOf(p)]]
          /\ Goto(p, "failWrite")
          /\ UNCHANGED claims
  /\ UNCHANGED <<disk, job, todo, marked, defer, order, acked, history, crashes, faults>>

OneRetryMore(f) == [f EXCEPT !.retryCount = @ + 1]

FailClearsState(p) ==                     \* mutant: the retry forgets the mark
  /\ pc[p] = "failWrite"
  /\ \/ files' = [files EXCEPT ![JobOf(p)] =
                   [retryCount |-> copy[p].retryCount + 1, recoveryState |-> "none"]]
        /\ UNCHANGED faults
     \/ Fault /\ UNCHANGED files
  /\ copy' = [copy EXCEPT ![p] = Gone]
  /\ Finish(p)
  /\ UNCHANGED <<marker, failed, job, todo, marked, defer, order, acked, history, crashes>>

FailWrite(p) ==
  /\ pc[p] = "failWrite"
  /\ \/ files' = [files EXCEPT ![JobOf(p)] = OneRetryMore(copy[p])] /\ UNCHANGED faults
     \/ Fault /\ UNCHANGED files
  /\ copy' = [copy EXCEPT ![p] = Gone]
  /\ Finish(p)
  /\ UNCHANGED <<marker, failed, job, todo, marked, defer, order, acked, history, crashes>>

\* ackDelivery, first phase: {id}.json becomes {id}.delivered; no error if
\* there is none.  A live send goes on without it, a recovery pass counts it
\* as a failed attempt.
AckRename(p) ==
  LET e == JobOf(p) IN
  /\ pc[p] = "ack"
  /\ \/ /\ files' = [files EXCEPT ![e] = Gone]
        /\ IF files[e] = Gone THEN UNCHANGED <<marker, acked>>
           ELSE marker' = marker \cup {e} /\ acked' = acked \cup {e}
        /\ Goto(p, "unlink")
        /\ UNCHANGED <<claims, faults>>
     \/ /\ Fault
        /\ IF p \in Entries THEN Finish(p) ELSE Goto(p, "fail") /\ UNCHANGED claims
        /\ UNCHANGED <<files, marker, acked>>
  /\ UNCHANGED <<failed, job, copy, todo, marked, defer, order, history, crashes>>

\* Second phase; a crash before it leaves a marker that the next load removes.
AckUnlink(p) ==
  /\ pc[p] = "unlink"
  /\ marker' = marker \ {JobOf(p)}
  /\ Finish(p)
  /\ UNCHANGED <<files, failed, job, copy, todo, marked, defer, order, acked, history,
                 crashes, faults>>

MoveDrops(p) ==                           \* mutant: the entry is unlinked
  /\ pc[p] = "move"
  /\ files' = [files EXCEPT ![JobOf(p)] = Gone]
  /\ Finish(p)
  /\ UNCHANGED <<marker, failed, job, copy, todo, marked, defer, order, acked, history,
                 crashes, faults>>

\* moveToFailed; whatever its error, the entry is left and the pass goes on.
Move(p) ==
  LET e == JobOf(p) IN
  /\ pc[p] = "move"
  /\ \/ /\ files' = [files EXCEPT ![e] = Gone]
        /\ failed' = IF files[e] = Gone THEN failed ELSE failed \cup {e}
        /\ UNCHANGED faults
     \/ Fault /\ UNCHANGED <<files, failed>>
  /\ Finish(p)
  /\ UNCHANGED <<marker, job, copy, todo, marked, defer, order, acked, history, crashes>>

\* The same for an entry whose retries are spent, where an error ends a drain.
MoveSpent(p) ==
  LET e == JobOf(p) IN
  /\ pc[p] = "moveSpent"
  /\ \/ /\ files' = [files EXCEPT ![e] = Gone]
        /\ failed' = IF files[e] = Gone THEN failed ELSE failed \cup {e}
        /\ Finish(p)
        /\ UNCHANGED <<todo, faults>>
     \/ /\ Fault
        /\ IF p \in Drains
           THEN /\ Goto(p, "idle") /\ claims' = claims \ {e}
                /\ todo' = [todo EXCEPT ![p] = {}]
           ELSE Finish(p) /\ UNCHANGED todo
        /\ UNCHANGED <<files, failed>>
  /\ UNCHANGED <<marker, job, copy, marked, defer, order, acked, history, crashes>>

(***************************************************************************)
(* The live send                                                           *)
(***************************************************************************)
EnqueueDelivery(e) ==
  /\ pc[e] = "idle"
  /\ files' = [files EXCEPT ![e] = [retryCount |-> 0, recoveryState |-> "none"]]
  /\ order' = Append(order, e)
  /\ Goto(e, IF e \in Sentinels THEN "send" ELSE "claim")
  /\ UNCHANGED <<marker, failed, claims, job, copy, todo, marked, defer, acked, history,
                 crashes, faults>>

LiveClaimShared(e) ==                     \* mutant: does not look at the claims
  /\ pc[e] = "claim"
  /\ claims' = claims \cup {e}
  /\ Goto(e, "prepare")
  /\ UNCHANGED <<disk, job, copy, todo, marked, defer, order, acked, history, crashes, faults>>

LiveClaim(e) ==
  /\ pc[e] = "claim"
  /\ IF e \in claims
     THEN Goto(e, "done") /\ UNCHANGED claims   \* claimed-by-other-owner
     ELSE Goto(e, "prepare") /\ claims' = claims \cup {e}
  /\ UNCHANGED <<disk, job, copy, todo, marked, defer, order, acked, history, crashes, faults>>

\* Hooks, rendering and normalisation before the platform: the payload is to
\* be sent, fails, is suppressed, or its caller has aborted.
LivePrepare(e) ==
  /\ pc[e] = "prepare"
  /\ \/ Goto(e, "mark") /\ UNCHANGED abandoned
     \/ Goto(e, "fail") /\ UNCHANGED abandoned
     \/ Goto(e, "ack") /\ abandoned' = abandoned \cup {e}
  /\ UNCHANGED <<disk, claims, job, copy, todo, marked, defer, order, acked, reached,
                 suspect, replays, rewritten, kind, crashes, faults>>

\* A mark that cannot be read or written stops a required send; the others go
\* on without it.
MarkFails(e, starting) ==
  \/ e \notin Required /\ Goto(e, IF starting THEN "send" ELSE "ack") /\ UNCHANGED claims
  \/ e \in Required /\ starting /\ Goto(e, "fail") /\ UNCHANGED claims
  \/ e \in Required /\ ~starting /\ Finish(e)

\* markDeliveryPlatformSendAttemptStarted and markDeliveryPlatformOutcomeUnknown:
\* read the entry, then write it with its new state.
MarkRead(e) ==
  /\ pc[e] \in {"mark", "unknown"}
  /\ \/ /\ files[e] # Gone
        /\ copy' = [copy EXCEPT ![e] = files[e]]
        /\ Goto(e, IF pc[e] = "mark" THEN "markWrite" ELSE "unknownWrite")
        /\ UNCHANGED <<claims, faults>>
     \/ /\ IF files[e] = Gone THEN UNCHANGED faults ELSE Fault
        /\ MarkFails(e, pc[e] = "mark")
        /\ UNCHANGED copy
  /\ UNCHANGED <<disk, job, todo, marked, defer, order, acked, history, crashes>>

MarkWrite(e) ==
  /\ pc[e] \in {"markWrite", "unknownWrite"}
  /\ files' = [files EXCEPT ![e] = [copy[e] EXCEPT !.recoveryState =
        IF pc[e] = "markWrite" THEN "send_attempt_started" ELSE "unknown_after_send"]]
  /\ marked' = marked \cup {e}
  /\ copy' = [copy EXCEPT ![e] = Gone]
  /\ Goto(e, IF pc[e] = "markWrite" THEN "send" ELSE "ack")
  /\ UNCHANGED <<marker, failed, claims, job, todo, defer, order, acked, history, crashes,
                 faults>>

MarkWriteFails(e) ==
  /\ pc[e] \in {"markWrite", "unknownWrite"}
  /\ Fault
  /\ MarkFails(e, pc[e] = "markWrite")
  /\ copy' = [copy EXCEPT ![e] = Gone]
  /\ UNCHANGED <<disk, job, todo, marked, defer, order, acked, history, crashes>>

(***************************************************************************)
(* The platform                                                            *)
(***************************************************************************)
Send(p) ==
  LET e == JobOf(p) IN
  /\ pc[p] = "send"
  /\ Goto(p, "sending")
  /\ suspect' = IF p \in marked THEN suspect \cup {e} ELSE suspect
  /\ replays' = IF p \in Recoverers THEN [replays EXCEPT ![e] = @ + 1] ELSE replays
  /\ UNCHANGED <<disk, claims, job, copy, todo, marked, defer, order, acked, reached,
                 abandoned, rewritten, kind, crashes, faults>>

\* The adapter returns.
SendSucceeds(p) ==
  /\ pc[p] = "sending"
  /\ reached' = reached \cup {JobOf(p)}
  /\ Goto(p, IF p \in marked THEN "unknown" ELSE "ack")
  /\ UNCHANGED <<disk, claims, job, copy, todo, marked, defer, order, acked, abandoned,
                 suspect, replays, rewritten, kind, crashes, faults>>

\* The adapter throws, the message sent or not.  The caller's abort counts as
\* an answer; a sentinel tries again; a recovery pass of a bestEffort entry
\* sees no error at all, a permanent one sends the entry to failed/.
SendFails(p) ==
  LET e == JobOf(p) IN
  /\ pc[p] = "sending"
  /\ reached' \in {reached, reached \cup {e}}
  /\ \/ Goto(p, IF p \in Recoverers /\ e \in BestEffort THEN "ack" ELSE "fail")
        /\ UNCHANGED abandoned
     \/ p \in Sentinels /\ Goto(p, "send") /\ UNCHANGED abandoned
     \/ p \in Entries \ (Sentinels \cup BestEffort) /\ Goto(p, "ack")
        /\ abandoned' = abandoned \cup {e}
     \/ p \in Recoverers /\ e \notin BestEffort /\ Goto(p, "move") /\ UNCHANGED abandoned
  /\ UNCHANGED <<disk, claims, job, copy, todo, marked, defer, order, acked, suspect,
                 replays, rewritten, kind, crashes, faults>>

(***************************************************************************)
(* recoverPendingDeliveries and drainPendingDeliveries                     *)
(***************************************************************************)
Selects(p, e) == p = Startup \/ e \in Matches[p]

\* Load the snapshot, removing old markers.
BeginPass(p) ==
  LET snapshot == {e \in Entries : files[e] # Gone /\ Selects(p, e)} IN
  /\ pc[p] = "idle"
  /\ p = Startup \/ snapshot # {}
  /\ todo' = [todo EXCEPT ![p] = snapshot]
  /\ marker' = {}
  /\ Goto(p, "next")
  /\ UNCHANGED <<files, failed, claims, job, copy, marked, defer, order, acked, history,
                 crashes, faults>>

EndPass(p) ==
  /\ pc[p] = "next"
  /\ todo[p] = {}
  /\ Goto(p, IF p = Startup THEN "done" ELSE "idle")
  /\ job' = [job EXCEPT ![p] = Gone]
  /\ UNCHANGED <<disk, claims, copy, todo, marked, defer, order, acked, history, crashes,
                 faults>>

Before(d, e) == \E j \in 1..Len(order) : \E i \in 1..(j - 1) : order[i] = d /\ order[j] = e

\* The next entry of the snapshot, unless another process holds it.
ClaimNext(p) ==
  /\ pc[p] = "next"
  /\ \E e \in todo[p] :
       /\ \A d \in todo[p] : ~Before(d, e)
       /\ todo' = [todo EXCEPT ![p] = @ \ {e}]
       /\ IF e \in claims
          THEN UNCHANGED <<claims, job, pc>>
          ELSE /\ claims' = claims \cup {e}
               /\ job' = [job EXCEPT ![p] = e]
               /\ Goto(p, "reread")
  /\ UNCHANGED <<disk, copy, marked, defer, order, acked, history, crashes, faults>>

SkipLeaksClaim(p) ==                      \* mutant: a skip leaves the claim
  /\ pc[p] = "reread"
  /\ \/ files[job[p]] = Gone /\ Goto(p, "next")
     \/ /\ files[job[p]] # Gone
        /\ Goto(p, IF files[job[p]].recoveryState = "none" THEN "send" ELSE "reconcile")
  /\ UNCHANGED <<disk, claims, job, copy, todo, marked, defer, order, acked, history,
                 crashes, faults>>

RereadTrustsSnapshot(p) ==                \* mutant: the file is not read again
  /\ pc[p] = "reread"
  /\ Goto(p, IF files[job[p]] = Gone \/ files[job[p]].recoveryState = "none"
             THEN "send" ELSE "reconcile")
  /\ UNCHANGED <<disk, claims, job, copy, todo, marked, defer, order, acked, history,
                 crashes, faults>>

RereadOffByOne(p) ==                      \* mutant: > for >= MAX_RETRIES
  LET f == files[job[p]] IN
  /\ pc[p] = "reread"
  /\ \/ f = Gone /\ Finish(p)
     \/ f # Gone /\ f.retryCount > MaxRetries /\ Goto(p, "moveSpent") /\ UNCHANGED claims
     \/ /\ f # Gone /\ f.retryCount <= MaxRetries
        /\ Goto(p, IF f.recoveryState = "none" THEN "send" ELSE "reconcile")
        /\ UNCHANGED claims
  /\ UNCHANGED <<disk, job, copy, todo, marked, defer, order, acked, history, crashes, faults>>

\* Read again under the claim: the entry is gone, a drain does not select it
\* any more, its retries are spent, its backoff has not passed (it has none
\* before its first replay), or it is taken up.
Reread(p) ==
  LET f == files[job[p]] IN
  /\ pc[p] = "reread"
  /\ \/ f = Gone /\ Finish(p)
     \/ f # Gone /\ p \in Drains /\ Finish(p)
     \/ f # Gone /\ f.retryCount >= MaxRetries /\ Goto(p, "moveSpent") /\ UNCHANGED claims
     \/ f # Gone /\ f.retryCount \in 1..(MaxRetries - 1) /\ Finish(p)
     \/ /\ f # Gone /\ f.retryCount < MaxRetries
        /\ Goto(p, IF f.recoveryState = "none" THEN "send" ELSE "reconcile")
        /\ UNCHANGED claims
  /\ UNCHANGED <<disk, job, copy, todo, marked, defer, order, acked, history, crashes, faults>>

\* A replay that ends before the platform: no channel or adapter, which may
\* be a permanent error, or a hook suppresses the payload.
ReplayStops(p) ==
  /\ pc[p] = "send"
  /\ \/ Goto(p, "fail") /\ UNCHANGED abandoned
     \/ Goto(p, "move") /\ UNCHANGED abandoned
     \/ Goto(p, "ack") /\ abandoned' = abandoned \cup {job[p]}
  /\ UNCHANGED <<disk, claims, job, copy, todo, marked, defer, order, acked, reached,
                 suspect, replays, rewritten, kind, crashes, faults>>

\* What became of a send that had been started: the adapter, where it can
\* tell, tells the truth or nothing.
Reconcile(p) ==
  LET e == job[p] IN
  /\ pc[p] = "reconcile"
  /\ \/ e \in Reconciling \cap reached /\ Goto(p, "ack") /\ UNCHANGED suspect
     \/ e \in Reconciling \ reached /\ Goto(p, "send") /\ suspect' = suspect \ {e}
     \/ e \in Reconciling /\ Goto(p, "fail") /\ UNCHANGED suspect  \* retryable
     \/ Goto(p, "move") /\ UNCHANGED suspect
  /\ UNCHANGED <<disk, claims, job, copy, todo, marked, defer, order, acked, reached,
                 abandoned, replays, rewritten, kind, crashes, faults>>

\* deferRemainingEntriesForBudget: failDelivery of what is left, side by side,
\* without claims and whatever their errors.
BudgetExceeded ==
  /\ Budget
  /\ pc[Startup] = "next"
  /\ todo[Startup] # {}
  /\ deferring' = todo[Startup]
  /\ todo' = [todo EXCEPT ![Startup] = {}]
  /\ Goto(Startup, "defer")
  /\ UNCHANGED <<disk, claims, job, copy, marked, deferCopy, order, acked, history, crashes,
                 faults>>

DeferRead(e) ==
  /\ e \in deferring
  /\ deferring' = deferring \ {e}
  /\ \/ deferCopy' = [deferCopy EXCEPT ![e] = files[e]] /\ UNCHANGED faults
     \/ Fault /\ UNCHANGED deferCopy
  /\ UNCHANGED <<disk, claims, pc, job, copy, todo, marked, order, acked, history, crashes>>

DeferWrite(e) ==
  /\ deferCopy[e] # Gone
  /\ \/ /\ files' = [files EXCEPT ![e] = OneRetryMore(deferCopy[e])]
        /\ rewritten' = rewritten \cup {e}
        /\ UNCHANGED faults
     \/ Fault /\ UNCHANGED <<files, rewritten>>
  /\ deferCopy' = [deferCopy EXCEPT ![e] = Gone]
  /\ UNCHANGED <<marker, failed, claims, pc, job, copy, todo, marked, deferring, order,
                 acked, kind, reached, abandoned, suspect, replays, crashes>>

DeferDone ==
  /\ pc[Startup] = "defer"
  /\ deferring = {}
  /\ \A e \in Entries : deferCopy[e] = Gone
  /\ Goto(Startup, "done")
  /\ UNCHANGED <<disk, claims, job, copy, todo, marked, defer, order, acked, history,
                 crashes, faults>>

(***************************************************************************)
(* The gateway dies and starts again: the files stay.  A message being     *)
(* sent may have reached the platform.                                     *)
(***************************************************************************)
Crash ==
  /\ crashes < MaxCrashes
  /\ crashes' = crashes + 1
  /\ \E S \in SUBSET {p \in Processes : pc[p] = "sending"} :
       reached' = reached \cup {JobOf(p) : p \in S}
  /\ claims' = {} /\ marked' = {}
  /\ pc' = [p \in Processes |->
        IF p \in Entries /\ pc[p] # "idle" THEN "done" ELSE "idle"]
  /\ job' = [p \in Recoverers |-> Gone]
  /\ copy' = [p \in Processes |-> Gone]
  /\ todo' = [p \in Recoverers |-> {}]
  /\ deferring' = {} /\ deferCopy' = [e \in Entries |-> Gone]
  /\ UNCHANGED <<disk, order, acked, abandoned, suspect, replays, rewritten, kind, faults>>

LiveStep(e) ==
  \/ EnqueueDelivery(e) \/ LiveClaim(e) \/ LivePrepare(e)
  \/ MarkRead(e) \/ MarkWrite(e) \/ MarkWriteFails(e)

StorageStep(p) ==
  \/ FailRead(p) \/ FailWrite(p) \/ AckRename(p) \/ AckUnlink(p)

PlatformStep(p) == Send(p) \/ SendSucceeds(p) \/ SendFails(p)

RecoveryStep(p) ==
  \/ BeginPass(p) \/ EndPass(p) \/ ClaimNext(p) \/ Reread(p) \/ Reconcile(p)
  \/ ReplayStops(p) \/ Move(p) \/ MoveSpent(p)

DeferStep ==
  \/ BudgetExceeded \/ DeferDone
  \/ \E e \in Entries : DeferRead(e) \/ DeferWrite(e)

Next ==
  \/ \E e \in Entries : LiveStep(e)
  \/ \E p \in Processes : StorageStep(p) \/ PlatformStep(p)
  \/ \E p \in Recoverers : RecoveryStep(p)
  \/ DeferStep
  \/ Crash

Spec == Init /\ [][Next]_vars

(***************************************************************************)
(* Properties                                                              *)
(***************************************************************************)
Sending(p, e) == pc[p] = "sending" /\ JobOf(p) = e

\* Two processes never have one entry's message on its way to the platform
\* at once: a drain "that runs while the live send is still writing to the
\* adapter must not re-drive the same entry"
\* (delivery-queue.reconnect-drain.test.ts:503-505).  Notices of a restart,
\* whose sender claims nothing, are excepted.
OneSender ==
  \A e \in Entries \ Sentinels : \A p, q \in Processes :
    Sending(p, e) /\ Sending(q, e) => p = q

\* An acked entry is not sent again by a recovery pass, whatever snapshot it
\* holds (delivery-queue-recovery.ts:513-515, -storage.ts:178-183).
AckedNeverReplayed ==
  \A e \in Entries \ Sentinels : \A p \in Recoverers : Sending(p, e) => e \notin acked

\* ... but for an entry that the unclaimed write of a pass out of time has
\* brought back.
AckedNotReplayed ==
  \A e \in Entries \ (Sentinels \cup rewritten) : \A p \in Recoverers :
    Sending(p, e) => e \notin acked

\* A message that a live send handed to the platform after its mark is not
\* replayed unless the adapter proves that it was not sent, across failed
\* attempts, restarts and other processes' writes: what recoveryState is for
\* (delivery-queue-recovery.ts:152-194).  Excepted are entries that the
\* unclaimed write of a pass out of time has set back.
MarkedNotReplayed ==
  \A e \in Entries \ rewritten : \A p \in Recoverers : Sending(p, e) => e \notin suspect

NotLost(e) ==
  files[e] # Gone \/ e \in failed \cup reached \cup abandoned

\* No message without bestEffort is lost: what was enqueued is pending on
\* disk, or in failed/, or reached the platform, or was given up by its caller
\* or a hook.
StrictNotLost == \A e \in Enqueued \ BestEffort : NotLost(e)

AtWork(p) == pc[p] \notin {"idle", "claim", "next", "defer", "done"}

\* A claim belongs to a process at work on the entry: one left behind would
\* shut out every recovery of the entry until the next restart.
ClaimsOwned ==
  \A e \in claims : \E p \in Processes \ Sentinels : JobOf(p) = e /\ AtWork(p)

\* A message is replayed MAX_RETRIES times at most, but for the attempts
\* whose count was not written: the process died, or the write failed.  (The
\* unclaimed failDelivery of a sentinel can bring back an entry that has
\* used up its retries, and so can that of a pass out of time.)
RetriesBounded ==
  \A e \in Entries \ (Sentinels \cup rewritten) : replays[e] <= MaxRetries + crashes + faults

(***************************************************************************)
(* The inductive invariants of the proofs, one above the other             *)
(***************************************************************************)
\* Which process may stand where, and with what in hand.
PlacesOf(p) ==
  IF p \in Sentinels
  THEN {"idle", "send", "sending", "ack", "unlink", "fail", "failWrite", "done"}
  ELSE IF p \in Entries
  THEN {"idle", "claim", "prepare", "mark", "markWrite", "send", "sending", "unknown",
        "unknownWrite", "ack", "unlink", "fail", "failWrite", "done"}
  ELSE {"idle", "next", "reread", "reconcile", "send", "sending", "ack", "unlink",
        "fail", "failWrite", "move", "moveSpent", "defer", "done"}

Writing(p) == pc[p] \in {"markWrite", "unknownWrite", "failWrite"}

PlacesKept ==
  /\ \A p \in Processes : pc[p] \in PlacesOf(p) /\ (Writing(p) => copy[p] # Gone)
  /\ \A p \in Recoverers : AtWork(p) => job[p] \in Entries
  /\ marked \cap Sentinels = {}

\* Whoever claims, works on the entry alone.
ClaimHeld == \A p \in Processes \ Sentinels : AtWork(p) => JobOf(p) \in claims
OneWorker ==
  \A p, q \in Processes \ Sentinels :
    AtWork(p) /\ AtWork(q) /\ JobOf(p) = JobOf(q) => p = q

PlaceInv == TypeOK /\ PlacesKept
ClaimsKept == ClaimHeld /\ OneWorker /\ ClaimsOwned
ClaimsInv == PlaceInv /\ ClaimsKept

\* What is not enqueued has left no trace.
OnlyEnqueued ==
  /\ \A e \in Entries : pc[e] = "idle" <=> e \notin Enqueued
  /\ acked \cup suspect \cup marked \cup deferring \subseteq Enqueued
  /\ \A e \in Entries :
       files[e] # Gone \/ deferCopy[e] # Gone \/ replays[e] # 0 => e \in Enqueued
  /\ \A p \in Recoverers :
       todo[p] \subseteq Enqueued /\ (AtWork(p) => job[p] \in Enqueued)

\* A message is acked only after it was sent, or given up.
AckEarned ==
  \A p \in Processes :
    /\ pc[p] = "ack" => JobOf(p) \in reached \cup abandoned \cup BestEffort
    /\ pc[p] \in {"unknown", "unknownWrite"} => JobOf(p) \in reached

\* An entry whose file nobody writes without its claim.
Guarded == Entries \ (Sentinels \cup rewritten)

\* What its worker has read is what the file says, when it writes and when it
\* sends; once renamed away the file stays away.
Fresh(p) ==
  /\ Writing(p) => files[JobOf(p)] # Gone /\ copy[p] = files[JobOf(p)]
  /\ p \in Recoverers /\ pc[p] \in {"send", "reconcile"} =>
       files[JobOf(p)] # Gone /\ files[JobOf(p)].retryCount < MaxRetries
  /\ pc[p] = "unlink" => files[JobOf(p)] = Gone
CopiesFresh == \A p \in Processes \ Sentinels : JobOf(p) \in Guarded => Fresh(p)

AckedGone ==
  \A e \in acked \cap Guarded :
    /\ files[e] = Gone
    /\ \A p \in Recoverers : AtWork(p) /\ job[p] = e => pc[p] \in {"reread", "unlink"}

\* The mark stays in the file, and what may have been sent is not sent again.
MarkKept ==
  \A e \in (marked \cup suspect) \ rewritten :
    /\ e \notin Sentinels
    /\ files[e] # Gone => files[e].recoveryState # "none"
SuspectNotSent ==
  \A e \in suspect \ rewritten : \A p \in Recoverers :
    pc[p] \in {"send", "sending"} => job[p] # e

\* The file counts the replays of an entry, but for the one under way.
Replaying(p, e) ==
  pc[p] \in {"sending", "ack", "unlink", "fail", "failWrite", "move"} /\ job[p] = e
ReplaysCounted ==
  \A e \in Guarded : files[e] # Gone =>
    \/ replays[e] <= files[e].retryCount + crashes + faults
    \/ /\ replays[e] <= files[e].retryCount + 1 + crashes + faults
       /\ \E p \in Recoverers : Replaying(p, e)

LostInv == AckEarned /\ StrictNotLost
MarkInv == MarkKept /\ SuspectNotSent
ReplayInv == ReplaysCounted /\ RetriesBounded
GuardInv == CopiesFresh /\ AckedGone /\ MarkInv /\ ReplayInv

DeliveryInv == ClaimsInv /\ OnlyEnqueued /\ LostInv /\ GuardInv

=============================================================================

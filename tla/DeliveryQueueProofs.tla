------------------------- MODULE DeliveryQueueProofs -------------------------
(***************************************************************************)
(* Theorems about DeliveryQueue, for any entries, kinds of delivery, drains *)
(* and numbers of retries, crashes and failing file operations.            *)
(***************************************************************************)
EXTENDS DeliveryQueue, SequenceTheorems, TLAPS

LEMMA Names ==
  /\ Recoverers \cap Entries = {}
  /\ Startup \in Recoverers /\ Drains \subseteq Recoverers
  /\ Processes = Entries \cup Recoverers
  /\ Gone \notin Files /\ MaxRetries \in Nat /\ MaxCrashes \in Nat /\ MaxFaults \in Nat
  BY DeliveryAssumption DEF Recoverers, Processes

LEMMA SentinelsAreEntries == Sentinels \subseteq Entries
  BY DEF Sentinels, Having

\* A process at work has an entry.
LEMMA Working ==
  ASSUME PlaceInv, NEW p \in Processes, AtWork(p)
  PROVE  JobOf(p) \in Entries
  BY Names DEF PlaceInv, PlacesKept, JobOf

(***************************************************************************)
(* Types and places                                                        *)
(***************************************************************************)
\* The kinds of delivery never change.
LEMMA KindFixed ==
  ASSUME UNCHANGED kind
  PROVE  /\ Sentinels' = Sentinels /\ BestEffort' = BestEffort
         /\ Required' = Required /\ Reconciling' = Reconciling
         /\ \A p : PlacesOf(p)' = PlacesOf(p)
  BY DEF Sentinels, BestEffort, Required, Reconciling, Having, PlacesOf

LEMMA PlacesArePlaces == \A p : PlacesOf(p) \subseteq Places
  BY DEF PlacesOf, Places

\* A process moves to a place of its own, with a copy in hand if it is to
\* write, and works on an entry.
MovesWithin(p) ==
  /\ pc' = [pc EXCEPT ![p] = pc'[p]] /\ pc'[p] \in PlacesOf(p)
  /\ \A q \in Processes \ {p} : copy'[q] = copy[q]
  /\ Writing(p)' => copy'[p] # Gone
  /\ \A q \in Recoverers \ {p} : job'[q] = job[q]
  /\ p \in Recoverers /\ AtWork(p)' => job'[p] \in Entries
  /\ marked' \cap Sentinels = {}
  /\ UNCHANGED kind

LEMMA Moves ==
  ASSUME PlaceInv, NEW p \in Processes, MovesWithin(p)
  PROVE  PlacesKept' /\ pc' \in [Processes -> Places]
  <1>1. pc' = [pc EXCEPT ![p] = pc'[p]] /\ pc \in [Processes -> Places]
    BY DEF MovesWithin, PlaceInv, TypeOK
  <1>2. pc' \in [Processes -> Places]
    BY <1>1, PlacesArePlaces DEF MovesWithin
  <1>3. \A q \in Processes \ {p} : pc'[q] = pc[q]
    BY <1>1
  <1>4. \A q \in Processes : pc'[q] \in PlacesOf(q)' /\ (Writing(q)' => copy'[q] # Gone)
    BY <1>3, KindFixed DEF PlaceInv, PlacesKept, Writing, MovesWithin
  <1>5. ASSUME NEW q \in Recoverers, AtWork(q)' PROVE job'[q] \in Entries
    BY <1>3, <1>5, Names DEF PlaceInv, PlacesKept, AtWork, MovesWithin
  <1>6. QED
    BY <1>2, <1>4, <1>5, KindFixed DEF PlacesKept, MovesWithin

LEMMA RetryIsFile ==
  ASSUME NEW f \in Files
  PROVE  /\ OneRetryMore(f) \in Files
         /\ OneRetryMore(f).retryCount = f.retryCount + 1
         /\ OneRetryMore(f).recoveryState = f.recoveryState
  <1>1. OneRetryMore(f) = [retryCount |-> f.retryCount + 1, recoveryState |-> f.recoveryState]
    BY DEF OneRetryMore, Files
  <1>2. f.retryCount + 1 \in Nat /\ f.recoveryState \in SendStates
    BY DEF Files
  <1>3. QED
    BY <1>1, <1>2 DEF Files

LEMMA StorageKeepsPlaces ==
  ASSUME PlaceInv, NEW p \in Processes,
         FailRead(p) \/ FailWrite(p) \/ AckRename(p) \/ AckUnlink(p)
  PROVE  PlaceInv'
  <1>a. /\ JobOf(p) \in {Gone} \cup Entries /\ (AtWork(p) => JobOf(p) \in Entries)
        /\ pc[p] \in PlacesOf(p) /\ (Writing(p) => copy[p] # Gone)
        /\ p \in Entries \/ p \in Recoverers
    BY Working, Names DEF PlaceInv, TypeOK, PlacesKept, JobOf
  <1> USE Names, SentinelsAreEntries DEF PlaceInv, TypeOK, disk, defer, history
  <1>1. CASE FailRead(p)
    <2>1. MovesWithin(p)
      BY <1>1, <1>a DEF FailRead, Finish, Goto, MovesWithin, PlacesOf, AtWork, Writing, PlacesKept, JobOf
    <2>2. TypeOK'
      BY <1>1, <1>a, <2>1, Moves DEF FailRead, Finish, Fault, AtWork, Writing
    <2>3. QED
      BY <2>1, <2>2, Moves DEF PlaceInv
  <1>2. CASE FailWrite(p)
    <2>1. MovesWithin(p)
      BY <1>2, <1>a DEF FailWrite, Finish, Goto, MovesWithin, PlacesOf, AtWork, Writing, PlacesKept, JobOf
    <2>2. JobOf(p) \in Entries /\ copy[p] \in Files
      BY <1>2, <1>a DEF FailWrite, AtWork, Writing
    <2>3. /\ \/ files' = [files EXCEPT ![JobOf(p)] = OneRetryMore(copy[p])]
             \/ files' = files
          /\ claims' \subseteq claims /\ faults' \in 0..MaxFaults
      BY <1>2 DEF FailWrite, Finish, Fault
    <2>4. files' \in [Entries -> {Gone} \cup Files]
      <3>1. OneRetryMore(copy[p]) \in Files
        BY <2>2, RetryIsFile
      <3>2. files \in [Entries -> {Gone} \cup Files]
        OBVIOUS
      <3> HIDE DEF PlaceInv, TypeOK, disk, defer, history
      <3>3. QED
        BY <2>2, <2>3, <3>1, <3>2
    <2>5. copy' \in [Processes -> {Gone} \cup Files]
      BY <1>2 DEF FailWrite
    <2>6. TypeOK'
      BY <1>2, <2>1, <2>3, <2>4, <2>5, Moves DEF FailWrite
    <2>7. QED
      BY <2>1, <2>6, Moves DEF PlaceInv
  <1>3. CASE AckRename(p)
    <2>1. MovesWithin(p)
      BY <1>3, <1>a DEF AckRename, Finish, Goto, MovesWithin, PlacesOf, AtWork, Writing, PlacesKept, JobOf
    <2>2. JobOf(p) \in Entries
      BY <1>3, <1>a DEF AckRename, AtWork
    <2>3. /\ files' = [files EXCEPT ![JobOf(p)] = Gone] \/ files' = files
          /\ marker' \subseteq marker \cup {JobOf(p)} /\ acked' \subseteq acked \cup {JobOf(p)}
          /\ claims' \subseteq claims /\ faults' \in 0..MaxFaults
      BY <1>3 DEF AckRename, Finish, Fault
    <2>4. TypeOK'
      BY <1>3, <2>1, <2>2, <2>3, Moves DEF AckRename
    <2>5. QED
      BY <2>1, <2>4, Moves DEF PlaceInv
  <1>4. CASE AckUnlink(p)
    <2>1. MovesWithin(p)
      BY <1>4, <1>a DEF AckUnlink, Finish, Goto, MovesWithin, PlacesOf, AtWork, Writing, PlacesKept, JobOf
    <2>2. TypeOK'
      BY <1>4, <1>a, <2>1, Moves DEF AckUnlink, Finish, Fault, AtWork, Writing
    <2>3. QED
      BY <2>1, <2>2, Moves DEF PlaceInv
  <1>5. QED
    BY <1>1, <1>2, <1>3, <1>4

\* The live send.
LEMMA LiveKeepsPlaces ==
  ASSUME PlaceInv, NEW p \in Entries, LiveStep(p)
  PROVE  PlaceInv'
  <1> p \in Processes
    BY Names
  <1>a. /\ JobOf(p) \in {Gone} \cup Entries /\ (AtWork(p) => JobOf(p) \in Entries)
        /\ pc[p] \in PlacesOf(p) /\ (Writing(p) => copy[p] # Gone)
        /\ p \in Entries \/ p \in Recoverers
    BY Working, Names DEF PlaceInv, TypeOK, PlacesKept, JobOf
  <1> USE Names, SentinelsAreEntries DEF PlaceInv, TypeOK, disk, defer, history
  <1>1. CASE EnqueueDelivery(p)
    <2>1. MovesWithin(p)
      BY <1>1, <1>a DEF EnqueueDelivery, Finish, Goto, MovesWithin, PlacesOf, AtWork, Writing, PlacesKept, JobOf
    <2>2. files' = [files EXCEPT ![p] = [retryCount |-> 0, recoveryState |-> "none"]]
      BY <1>1 DEF EnqueueDelivery
    <2>3. [retryCount |-> 0, recoveryState |-> "none"] \in Files
      BY DEF Files, SendStates
    <2>4. files' \in [Entries -> {Gone} \cup Files] /\ order' \in Seq(Entries)
      BY <1>1, <2>2, <2>3, AppendProperties DEF EnqueueDelivery
    <2>5. TypeOK'
      BY <1>1, <2>1, <2>2, <2>3, <2>4, Moves DEF EnqueueDelivery
    <2>6. QED
      BY <2>1, <2>5, Moves DEF PlaceInv
  <1>2. CASE LiveClaim(p)
    <2>1. MovesWithin(p)
      BY <1>2, <1>a DEF LiveClaim, Finish, Goto, MovesWithin, PlacesOf, AtWork, Writing, PlacesKept, JobOf
    <2>2. TypeOK'
      BY <1>2, <1>a, <2>1, Moves DEF LiveClaim, Finish, Fault, AtWork, Writing
    <2>3. QED
      BY <2>1, <2>2, Moves DEF PlaceInv
  <1>3. CASE LivePrepare(p)
    <2>1. MovesWithin(p)
      BY <1>3, <1>a DEF LivePrepare, Finish, Goto, MovesWithin, PlacesOf, AtWork, Writing, PlacesKept, JobOf
    <2>2. TypeOK'
      BY <1>3, <1>a, <2>1, Moves DEF LivePrepare, Finish, Fault, AtWork, Writing
    <2>3. QED
      BY <2>1, <2>2, Moves DEF PlaceInv
  <1>4. CASE MarkRead(p)
    <2>1. MovesWithin(p)
      BY <1>4, <1>a DEF MarkRead, MarkFails, Finish, Goto, MovesWithin, PlacesOf, AtWork, Writing, PlacesKept, JobOf
    <2>2. copy' = [copy EXCEPT ![p] = files[p]] \/ copy' = copy
      BY <1>4 DEF MarkRead, MarkFails
    <2>3. claims' \subseteq claims /\ faults' \in 0..MaxFaults
      BY <1>4 DEF MarkRead, MarkFails, Finish, Fault
    <2>4. TypeOK'
      BY <1>4, <2>1, <2>2, <2>3, Moves DEF MarkRead, MarkFails
    <2>5. QED
      BY <2>1, <2>4, Moves DEF PlaceInv
  <1>5. CASE MarkWrite(p)
    <2>1. MovesWithin(p)
      BY <1>5, <1>a DEF MarkWrite, Finish, Goto, MovesWithin, PlacesOf, AtWork, Writing, PlacesKept, JobOf
    <2>2. JobOf(p) = p /\ copy[p] \in Files
      BY <1>5, <1>a DEF MarkWrite, Writing, JobOf
    <2>3. \E state \in SendStates : files' = [files EXCEPT ![p] = [copy[p] EXCEPT !.recoveryState = state]]
      BY <1>5 DEF MarkWrite, SendStates
    <2>4. files' \in [Entries -> {Gone} \cup Files]
      <3>1. PICK state \in SendStates :
              files' = [files EXCEPT ![p] = [copy[p] EXCEPT !.recoveryState = state]]
        BY <2>3
      <3>2. [copy[p] EXCEPT !.recoveryState = state] \in Files
        BY <2>2 DEF Files
      <3>3. QED
        BY <3>1, <3>2
    <2>5. TypeOK'
      BY <1>5, <2>1, <2>2, <2>3, <2>4, Moves DEF MarkWrite
    <2>6. QED
      BY <2>1, <2>5, Moves DEF PlaceInv
  <1>6. CASE MarkWriteFails(p)
    <2>1. MovesWithin(p)
      BY <1>6, <1>a DEF MarkWriteFails, MarkFails, Finish, Goto, MovesWithin, PlacesOf, AtWork, Writing, PlacesKept, JobOf
    <2>2. copy' = [copy EXCEPT ![p] = Gone]
      BY <1>6 DEF MarkWriteFails
    <2>3. claims' \subseteq claims /\ faults' \in 0..MaxFaults
      BY <1>6 DEF MarkWriteFails, MarkFails, Finish, Fault
    <2>4. TypeOK'
      BY <1>6, <2>1, <2>2, <2>3, Moves DEF MarkWriteFails, MarkFails
    <2>5. QED
      BY <2>1, <2>4, Moves DEF PlaceInv
  <1>7. QED
    BY <1>1, <1>2, <1>3, <1>4, <1>5, <1>6 DEF LiveStep

LEMMA PlatformKeepsPlaces ==
  ASSUME PlaceInv, NEW p \in Processes, PlatformStep(p)
  PROVE  PlaceInv'
  <1> p \in Processes
    BY Names
  <1>a. /\ JobOf(p) \in {Gone} \cup Entries /\ (AtWork(p) => JobOf(p) \in Entries)
        /\ pc[p] \in PlacesOf(p) /\ (Writing(p) => copy[p] # Gone)
        /\ p \in Entries \/ p \in Recoverers
    BY Working, Names DEF PlaceInv, TypeOK, PlacesKept, JobOf
  <1> USE Names, SentinelsAreEntries DEF PlaceInv, TypeOK, disk, defer, history
  <1>1. CASE Send(p)
    <2>1. MovesWithin(p)
      BY <1>1, <1>a DEF Send, Finish, Goto, MovesWithin, PlacesOf, AtWork, Writing, PlacesKept, JobOf
    <2>2. JobOf(p) \in Entries
      BY <1>1, <1>a DEF Send, AtWork
    <2>3. /\ suspect' \subseteq suspect \cup {JobOf(p)}
          /\ replays' = [replays EXCEPT ![JobOf(p)] = @ + 1] \/ replays' = replays
      BY <1>1 DEF Send
    <2>4. TypeOK'
      BY <1>1, <2>1, <2>2, <2>3, Moves DEF Send
    <2>5. QED
      BY <2>1, <2>4, Moves DEF PlaceInv
  <1>2. CASE SendSucceeds(p)
    <2>1. MovesWithin(p)
      BY <1>2, <1>a DEF SendSucceeds, Finish, Goto, MovesWithin, PlacesOf, AtWork, Writing, PlacesKept, JobOf
    <2>2. TypeOK'
      BY <1>2, <1>a, <2>1, Moves DEF SendSucceeds, Finish, Fault, AtWork, Writing
    <2>3. QED
      BY <2>1, <2>2, Moves DEF PlaceInv
  <1>3. CASE SendFails(p)
    <2>1. MovesWithin(p)
      BY <1>3, <1>a DEF SendFails, Finish, Goto, MovesWithin, PlacesOf, AtWork, Writing, PlacesKept, JobOf
    <2>2. TypeOK'
      BY <1>3, <1>a, <2>1, Moves DEF SendFails, Finish, Fault, AtWork, Writing
    <2>3. QED
      BY <2>1, <2>2, Moves DEF PlaceInv
  <1>4. QED
    BY <1>1, <1>2, <1>3 DEF PlatformStep

LEMMA RecoveryKeepsPlaces ==
  ASSUME PlaceInv, NEW p \in Recoverers, RecoveryStep(p)
  PROVE  PlaceInv'
  <1> p \in Processes
    BY Names
  <1>a. /\ JobOf(p) \in {Gone} \cup Entries /\ (AtWork(p) => JobOf(p) \in Entries)
        /\ pc[p] \in PlacesOf(p) /\ (Writing(p) => copy[p] # Gone)
        /\ p \in Entries \/ p \in Recoverers
    BY Working, Names DEF PlaceInv, TypeOK, PlacesKept, JobOf
  <1> USE Names, SentinelsAreEntries DEF PlaceInv, TypeOK, disk, defer, history
  <1>1. CASE BeginPass(p)
    <2>1. MovesWithin(p)
      BY <1>1, <1>a DEF BeginPass, Finish, Goto, MovesWithin, PlacesOf, AtWork, Writing, PlacesKept, JobOf
    <2>2. TypeOK'
      BY <1>1, <1>a, <2>1, Moves DEF BeginPass, Finish, Fault, AtWork, Writing
    <2>3. QED
      BY <2>1, <2>2, Moves DEF PlaceInv
  <1>2. CASE EndPass(p)
    <2>1. MovesWithin(p)
      BY <1>2, <1>a DEF EndPass, Finish, Goto, MovesWithin, PlacesOf, AtWork, Writing, PlacesKept, JobOf
    <2>2. TypeOK'
      BY <1>2, <1>a, <2>1, Moves DEF EndPass, Finish, Fault, AtWork, Writing
    <2>3. QED
      BY <2>1, <2>2, Moves DEF PlaceInv
  <1>3. CASE ClaimNext(p)
    <2>1. MovesWithin(p)
      BY <1>3, <1>a DEF ClaimNext, Finish, Goto, MovesWithin, PlacesOf, AtWork, Writing, PlacesKept, JobOf
    <2>2. PICK e \in todo[p] : /\ todo' = [todo EXCEPT ![p] = @ \ {e}]
                               /\ claims' \subseteq claims \cup {e}
                               /\ job' = [job EXCEPT ![p] = e] \/ job' = job
      BY <1>3 DEF ClaimNext
    <2>3. e \in Entries
      OBVIOUS
    <2>4. /\ todo' \in [Recoverers -> SUBSET Entries] /\ claims' \subseteq Entries
          /\ job' \in [Recoverers -> {Gone} \cup Entries]
      BY <2>2, <2>3
    <2>5. TypeOK'
      BY <1>3, <2>1, <2>4, Moves DEF ClaimNext
    <2>6. QED
      BY <2>1, <2>5, Moves DEF PlaceInv
  <1>4. CASE Reread(p)
    <2>1. MovesWithin(p)
      BY <1>4, <1>a DEF Reread, Finish, Goto, MovesWithin, PlacesOf, AtWork, Writing, PlacesKept, JobOf
    <2>2. TypeOK'
      BY <1>4, <1>a, <2>1, Moves DEF Reread, Finish, Fault, AtWork, Writing
    <2>3. QED
      BY <2>1, <2>2, Moves DEF PlaceInv
  <1>5. CASE Reconcile(p)
    <2>1. MovesWithin(p)
      BY <1>5, <1>a DEF Reconcile, Finish, Goto, MovesWithin, PlacesOf, AtWork, Writing, PlacesKept, JobOf
    <2>2. TypeOK'
      BY <1>5, <1>a, <2>1, Moves DEF Reconcile, Finish, Fault, AtWork, Writing
    <2>3. QED
      BY <2>1, <2>2, Moves DEF PlaceInv
  <1>6. CASE ReplayStops(p)
    <2>1. MovesWithin(p)
      BY <1>6, <1>a DEF ReplayStops, Finish, Goto, MovesWithin, PlacesOf, AtWork, Writing, PlacesKept, JobOf
    <2>2. JobOf(p) \in Entries
      BY <1>6, <1>a DEF ReplayStops, AtWork
    <2>3. abandoned' \subseteq abandoned \cup {JobOf(p)}
      BY <1>6, <1>a DEF ReplayStops, JobOf
    <2>4. TypeOK'
      BY <1>6, <2>1, <2>2, <2>3, Moves DEF ReplayStops
    <2>5. QED
      BY <2>1, <2>4, Moves DEF PlaceInv
  <1>7. CASE Move(p)
    <2>1. MovesWithin(p)
      BY <1>7, <1>a DEF Move, Finish, Goto, MovesWithin, PlacesOf, AtWork, Writing, PlacesKept, JobOf
    <2>2. JobOf(p) \in Entries
      BY <1>7, <1>a DEF Move, AtWork
    <2>3. /\ files' = [files EXCEPT ![JobOf(p)] = Gone] \/ files' = files
          /\ failed' \subseteq failed \cup {JobOf(p)} /\ claims' \subseteq claims
          /\ faults' \in 0..MaxFaults
      BY <1>7 DEF Move, Finish, Fault
    <2>4. TypeOK'
      BY <1>7, <2>1, <2>2, <2>3, Moves DEF Move
    <2>5. QED
      BY <2>1, <2>4, Moves DEF PlaceInv
  <1>8. CASE MoveSpent(p)
    <2>1. MovesWithin(p)
      BY <1>8, <1>a DEF MoveSpent, Finish, Goto, MovesWithin, PlacesOf, AtWork, Writing, PlacesKept, JobOf
    <2>2. JobOf(p) \in Entries
      BY <1>8, <1>a DEF MoveSpent, AtWork
    <2>3. /\ files' = [files EXCEPT ![JobOf(p)] = Gone] \/ files' = files
          /\ failed' \subseteq failed \cup {JobOf(p)} /\ claims' \subseteq claims
          /\ todo' = [todo EXCEPT ![p] = {}] \/ todo' = todo
          /\ faults' \in 0..MaxFaults
      BY <1>8 DEF MoveSpent, Finish, Fault
    <2>4. TypeOK'
      BY <1>8, <2>1, <2>2, <2>3, Moves DEF MoveSpent
    <2>5. QED
      BY <2>1, <2>4, Moves DEF PlaceInv
  <1>9. QED
    BY <1>1, <1>2, <1>3, <1>4, <1>5, <1>6, <1>7, <1>8 DEF RecoveryStep

LEMMA DeferKeepsPlaces ==
  ASSUME PlaceInv, DeferStep
  PROVE  PlaceInv'
  <1> USE Names, SentinelsAreEntries DEF PlaceInv, TypeOK, disk, defer, history
  <1>1. CASE BudgetExceeded \/ DeferDone
    <2>1. MovesWithin(Startup)
      BY <1>1 DEF BudgetExceeded, DeferDone, Goto, MovesWithin, PlacesOf, AtWork, Writing,
                  PlacesKept, JobOf
    <2>2. TypeOK'
      BY <1>1, <2>1, Moves DEF BudgetExceeded, DeferDone
    <2>3. QED
      BY <2>1, <2>2, Moves DEF PlaceInv
  <1>2. ASSUME NEW e \in Entries, DeferRead(e) PROVE PlaceInv'
    <2>1. /\ deferring' \subseteq deferring /\ faults' \in 0..MaxFaults
          /\ deferCopy' = [deferCopy EXCEPT ![e] = files[e]] \/ deferCopy' = deferCopy
      BY <1>2 DEF DeferRead, Fault
    <2>2. TypeOK'
      BY <1>2, <2>1 DEF DeferRead
    <2>3. UNCHANGED <<kind, pc, job, copy, marked>>
      BY <1>2 DEF DeferRead
    <2>4. PlacesKept'
      BY <2>3, KindFixed DEF PlacesKept, Writing, AtWork
    <2>5. QED
      BY <2>2, <2>4
  <1>3. ASSUME NEW e \in Entries, DeferWrite(e) PROVE PlaceInv'
    <2>1. deferCopy[e] \in Files
      BY <1>3 DEF DeferWrite
    <2>2. OneRetryMore(deferCopy[e]) \in Files
      BY <2>1, RetryIsFile
    <2>3. /\ files' = [files EXCEPT ![e] = OneRetryMore(deferCopy[e])] \/ files' = files
          /\ deferCopy' = [deferCopy EXCEPT ![e] = Gone]
          /\ rewritten' \subseteq rewritten \cup {e} /\ faults' \in 0..MaxFaults
      BY <1>3 DEF DeferWrite, Fault
    <2>4. files' \in [Entries -> {Gone} \cup Files]
      <3>1. files \in [Entries -> {Gone} \cup Files]
        OBVIOUS
      <3> HIDE DEF PlaceInv, TypeOK, disk, defer, history
      <3>2. QED
        BY <2>2, <2>3, <3>1
    <2>5. /\ deferCopy' \in [Entries -> {Gone} \cup Files] /\ rewritten' \subseteq Entries
          /\ faults' \in 0..MaxFaults
      BY <2>3
    <2>6. TypeOK'
      BY <1>3, <2>4, <2>5 DEF DeferWrite
    <2>7. UNCHANGED <<kind, pc, job, copy, marked>>
      BY <1>3 DEF DeferWrite
    <2>8. PlacesKept'
      BY <2>7, KindFixed DEF PlacesKept, Writing, AtWork
    <2>9. QED
      BY <2>6, <2>8
  <1>4. QED
    BY <1>1, <1>2, <1>3 DEF DeferStep

LEMMA CrashKeepsPlaces ==
  ASSUME PlaceInv, Crash
  PROVE  PlaceInv'
  <1> USE Names, SentinelsAreEntries DEF PlaceInv
  <1>1. /\ \A p \in Processes : pc'[p] \in {"idle", "done"} \cap PlacesOf(p)
        /\ pc' \in [Processes -> Places]
    BY DEF Crash, PlacesOf, Places
  <1>2. PlacesKept'
    <2>1. \A p \in Processes : pc'[p] \in {"idle", "done"} /\ pc'[p] \in PlacesOf(p)
      BY <1>1
    <2>2. kind' = kind /\ marked' = {}
      BY DEF Crash, history
    <2>3. QED
      BY <2>1, <2>2, KindFixed DEF PlacesKept, Writing, AtWork
  <1>3. PICK S \in SUBSET {p \in Processes : pc[p] = "sending"} :
          reached' = reached \cup {JobOf(p) : p \in S}
    BY DEF Crash
  <1>4. reached' \subseteq Entries
    <2>1. \A p \in S : JobOf(p) \in Entries
      BY Working DEF AtWork
    <2>2. QED
      BY <1>3, <2>1 DEF TypeOK
  <1>5. TypeOK'
    BY <1>1, <1>4 DEF Crash, TypeOK, disk, history
  <1>6. QED
    BY <1>2, <1>5

LEMMA NextPlaces == PlaceInv /\ [Next]_vars => PlaceInv'
  <1> SUFFICES ASSUME PlaceInv, [Next]_vars PROVE PlaceInv'
    OBVIOUS
  <1>1. ASSUME NEW e \in Entries, LiveStep(e) PROVE PlaceInv'
    BY <1>1, LiveKeepsPlaces
  <1>2. ASSUME NEW p \in Processes, StorageStep(p) \/ PlatformStep(p) PROVE PlaceInv'
    BY <1>2, StorageKeepsPlaces, PlatformKeepsPlaces DEF StorageStep
  <1>3. ASSUME NEW p \in Recoverers, RecoveryStep(p) PROVE PlaceInv'
    BY <1>3, RecoveryKeepsPlaces
  <1>4. CASE UNCHANGED vars
    <2>1. TypeOK'
      BY <1>4 DEF vars, disk, defer, history, PlaceInv, TypeOK
    <2>2. PlacesKept'
      BY <1>4, KindFixed DEF vars, history, PlaceInv, PlacesKept, Writing, AtWork
    <2>3. QED
      BY <2>1, <2>2 DEF PlaceInv
  <1>5. QED
    BY <1>1, <1>2, <1>3, <1>4, DeferKeepsPlaces, CrashKeepsPlaces DEF Next

LEMMA InitPlaces == Init => PlaceInv
  <1> SUFFICES ASSUME Init PROVE PlaceInv
    OBVIOUS
  <1>1. TypeOK
    BY Names, EmptySeq DEF Init, TypeOK, Places
  <1>2. PlacesKept
    BY Names DEF Init, PlacesKept, PlacesOf, Writing, AtWork
  <1>3. QED
    BY <1>1, <1>2 DEF PlaceInv

(***************************************************************************)
(* Claims: who claims, works on the entry alone                            *)
(***************************************************************************)
\* What a step of a process may do to its claim: a sentinel has none, work
\* begins with a claim nobody holds and ends with its release.
ClaimStep(p) ==
  /\ \A q \in Processes \ {p} : pc'[q] = pc[q] /\ JobOf(q)' = JobOf(q)
  /\ UNCHANGED kind
  /\ \/ p \in Sentinels /\ claims' = claims
     \/ ~AtWork(p) /\ ~AtWork(p)' /\ claims' = claims
     \/ AtWork(p) /\ AtWork(p)' /\ JobOf(p)' = JobOf(p) /\ claims' = claims
     \/ p \notin Sentinels /\ AtWork(p) /\ ~AtWork(p)' /\ claims' = claims \ {JobOf(p)}
     \/ /\ p \notin Sentinels /\ ~AtWork(p) /\ AtWork(p)' /\ JobOf(p)' \notin claims
        /\ claims' = claims \cup {JobOf(p)'}

LEMMA ClaimStepKeeps ==
  ASSUME PlaceInv, ClaimsKept, NEW p \in Processes, ClaimStep(p)
  PROVE  ClaimsKept'
  <1>1. Sentinels' = Sentinels
    BY KindFixed DEF ClaimStep
  <1>2. \A q \in Processes \ {p} : (AtWork(q)' <=> AtWork(q)) /\ JobOf(q)' = JobOf(q)
    BY DEF ClaimStep, AtWork
  <1>3. \A q, r \in Processes \ Sentinels :
          AtWork(q) /\ AtWork(r) /\ JobOf(q) = JobOf(r) => q = r
    BY DEF ClaimsKept, OneWorker
  <1>4. \A q \in Processes \ Sentinels : AtWork(q) => JobOf(q) \in claims
    BY DEF ClaimsKept, ClaimHeld
  <1>5. \A e \in claims : \E q \in Processes \ Sentinels : JobOf(q) = e /\ AtWork(q)
    BY DEF ClaimsKept, ClaimsOwned
  <1>6. \/ p \in Sentinels /\ claims' = claims
        \/ ~AtWork(p) /\ ~AtWork(p)' /\ claims' = claims
        \/ AtWork(p) /\ AtWork(p)' /\ JobOf(p)' = JobOf(p) /\ claims' = claims
        \/ p \notin Sentinels /\ AtWork(p) /\ ~AtWork(p)' /\ claims' = claims \ {JobOf(p)}
        \/ /\ p \notin Sentinels /\ ~AtWork(p) /\ AtWork(p)' /\ JobOf(p)' \notin claims
           /\ claims' = claims \cup {JobOf(p)'}
    BY DEF ClaimStep
  <1> HIDE DEF PlaceInv, ClaimsKept
  <1>7. ClaimHeld'
    <2> SUFFICES ASSUME NEW q \in Processes \ Sentinels, AtWork(q)'
                 PROVE  JobOf(q)' \in claims'
      BY <1>1 DEF ClaimHeld, Processes, Recoverers
    <2>1. CASE q = p
      BY <2>1, <1>4, <1>6
    <2>2. CASE q # p
      <3>1. AtWork(q) /\ JobOf(q)' = JobOf(q) /\ JobOf(q) \in claims
        BY <2>2, <1>2, <1>4
      <3>2. AtWork(p) /\ p \notin Sentinels => JobOf(p) # JobOf(q)
        BY <2>2, <3>1, <1>3
      <3>3. QED
        BY <3>1, <3>2, <1>6
    <2>3. QED
      BY <2>1, <2>2
  <1>8. OneWorker'
    <2> SUFFICES ASSUME NEW q \in Processes \ Sentinels, NEW r \in Processes \ Sentinels,
                        AtWork(q)', AtWork(r)', JobOf(q)' = JobOf(r)', q # r
                 PROVE  FALSE
      BY <1>1 DEF OneWorker, Processes, Recoverers
    <2>1. CASE q # p /\ r # p
      BY <2>1, <1>2, <1>3
    <2>2. ASSUME NEW s \in Processes \ Sentinels, s # p, p \notin Sentinels,
                 AtWork(p)', AtWork(s)', JobOf(p)' = JobOf(s)'
          PROVE  FALSE
      <3>1. AtWork(s) /\ JobOf(s) \in claims /\ JobOf(s)' = JobOf(s)
        BY <2>2, <1>2, <1>4
      <3>2. QED
        BY <2>2, <3>1, <1>3, <1>6
    <2>3. QED
      BY <2>1, <2>2
  <1>9. ClaimsOwned'
    <2> SUFFICES ASSUME NEW e \in claims'
                 PROVE  \E q \in Processes \ Sentinels : JobOf(q)' = e /\ AtWork(q)'
      BY <1>1 DEF ClaimsOwned, Processes, Recoverers
    <2>1. CASE p \notin Sentinels /\ AtWork(p)' /\ JobOf(p)' = e
      BY <2>1
    <2>2. CASE ~(p \notin Sentinels /\ AtWork(p)' /\ JobOf(p)' = e)
      <3>1. e \in claims
        BY <2>2, <1>6
      <3>2. PICK q \in Processes \ Sentinels : JobOf(q) = e /\ AtWork(q)
        BY <3>1, <1>5
      <3>3. q # p
        BY <2>2, <3>2, <1>6
      <3>4. QED
        BY <3>2, <3>3, <1>2
    <2>3. QED
      BY <2>1, <2>2
  <1>10. QED
    BY <1>7, <1>8, <1>9 DEF ClaimsKept

\* Every step of a process is of this form: the live send,
LEMMA LiveClaimStep ==
  ASSUME PlaceInv, NEW p \in Entries, LiveStep(p)
  PROVE  ClaimStep(p)
  <1>a. /\ p \in Processes /\ pc[p] \in PlacesOf(p) /\ (AtWork(p) => JobOf(p) \in Entries)
        /\ pc \in [Processes -> Places] /\ job \in [Recoverers -> {Gone} \cup Entries]
        /\ Recoverers \cap Entries = {} /\ Sentinels \subseteq Entries
        /\ Processes = Entries \cup Recoverers
    BY Names, Working, SentinelsAreEntries DEF PlaceInv, TypeOK, PlacesKept
  <1>1. CASE EnqueueDelivery(p)
    BY <1>1, <1>a DEF EnqueueDelivery, ClaimStep, Finish, Goto, AtWork, JobOf, PlacesOf, history, disk, defer
  <1>2. CASE LiveClaim(p)
    BY <1>2, <1>a DEF LiveClaim, ClaimStep, Finish, Goto, AtWork, JobOf, PlacesOf, history, disk, defer
  <1>3. CASE LivePrepare(p)
    BY <1>3, <1>a DEF LivePrepare, ClaimStep, Finish, Goto, AtWork, JobOf, PlacesOf, history, disk, defer
  <1>4. CASE MarkRead(p)
    BY <1>4, <1>a DEF MarkRead, MarkFails, ClaimStep, Finish, Goto, AtWork, JobOf, PlacesOf, history, disk, defer
  <1>5. CASE MarkWrite(p)
    BY <1>5, <1>a DEF MarkWrite, ClaimStep, Finish, Goto, AtWork, JobOf, PlacesOf, history, disk, defer
  <1>6. CASE MarkWriteFails(p)
    BY <1>6, <1>a DEF MarkWriteFails, MarkFails, ClaimStep, Finish, Goto, AtWork, JobOf, PlacesOf, history, disk, defer
  <1>7. QED
    BY <1>1, <1>2, <1>3, <1>4, <1>5, <1>6 DEF LiveStep

\* the file operations,
LEMMA StorageClaimStep ==
  ASSUME PlaceInv, NEW p \in Processes, StorageStep(p)
  PROVE  ClaimStep(p)
  <1>a. /\ p \in Processes /\ pc[p] \in PlacesOf(p) /\ (AtWork(p) => JobOf(p) \in Entries)
        /\ pc \in [Processes -> Places] /\ job \in [Recoverers -> {Gone} \cup Entries]
        /\ Recoverers \cap Entries = {} /\ Sentinels \subseteq Entries
        /\ Processes = Entries \cup Recoverers
    BY Names, Working, SentinelsAreEntries DEF PlaceInv, TypeOK, PlacesKept
  <1>1. CASE FailRead(p)
    BY <1>1, <1>a DEF FailRead, ClaimStep, Finish, Goto, AtWork, JobOf, PlacesOf, history, disk, defer
  <1>2. CASE FailWrite(p)
    BY <1>2, <1>a DEF FailWrite, ClaimStep, Finish, Goto, AtWork, JobOf, PlacesOf, history, disk, defer
  <1>3. CASE AckRename(p)
    BY <1>3, <1>a DEF AckRename, ClaimStep, Finish, Goto, AtWork, JobOf, PlacesOf, history, disk, defer
  <1>4. CASE AckUnlink(p)
    BY <1>4, <1>a DEF AckUnlink, ClaimStep, Finish, Goto, AtWork, JobOf, PlacesOf, history, disk, defer
  <1>5. QED
    BY <1>1, <1>2, <1>3, <1>4 DEF StorageStep

\* the platform,
LEMMA PlatformClaimStep ==
  ASSUME PlaceInv, NEW p \in Processes, PlatformStep(p)
  PROVE  ClaimStep(p)
  <1>a. /\ p \in Processes /\ pc[p] \in PlacesOf(p) /\ (AtWork(p) => JobOf(p) \in Entries)
        /\ pc \in [Processes -> Places] /\ job \in [Recoverers -> {Gone} \cup Entries]
        /\ Recoverers \cap Entries = {} /\ Sentinels \subseteq Entries
        /\ Processes = Entries \cup Recoverers
    BY Names, Working, SentinelsAreEntries DEF PlaceInv, TypeOK, PlacesKept
  <1>1. CASE Send(p)
    BY <1>1, <1>a DEF Send, ClaimStep, Finish, Goto, AtWork, JobOf, PlacesOf, history, disk, defer
  <1>2. CASE SendSucceeds(p)
    BY <1>2, <1>a DEF SendSucceeds, ClaimStep, Finish, Goto, AtWork, JobOf, PlacesOf, history, disk, defer
  <1>3. CASE SendFails(p)
    BY <1>3, <1>a DEF SendFails, ClaimStep, Finish, Goto, AtWork, JobOf, PlacesOf, history, disk, defer
  <1>4. QED
    BY <1>1, <1>2, <1>3 DEF PlatformStep

\* and the recovery passes.
LEMMA RecoveryClaimStep ==
  ASSUME PlaceInv, NEW p \in Recoverers, RecoveryStep(p)
  PROVE  ClaimStep(p)
  <1>a. /\ p \in Processes /\ pc[p] \in PlacesOf(p) /\ (AtWork(p) => JobOf(p) \in Entries)
        /\ pc \in [Processes -> Places] /\ job \in [Recoverers -> {Gone} \cup Entries]
        /\ Recoverers \cap Entries = {} /\ Sentinels \subseteq Entries
        /\ Processes = Entries \cup Recoverers
    BY Names, Working, SentinelsAreEntries DEF PlaceInv, TypeOK, PlacesKept
  <1>1. CASE BeginPass(p)
    BY <1>1, <1>a DEF BeginPass, ClaimStep, Finish, Goto, AtWork, JobOf, PlacesOf, history, disk, defer
  <1>2. CASE EndPass(p)
    BY <1>2, <1>a DEF EndPass, ClaimStep, Finish, Goto, AtWork, JobOf, PlacesOf, history, disk, defer
  <1>3. CASE ClaimNext(p)
    BY <1>3, <1>a DEF ClaimNext, ClaimStep, Finish, Goto, AtWork, JobOf, PlacesOf, history, disk, defer
  <1>4. CASE Reread(p)
    BY <1>4, <1>a DEF Reread, ClaimStep, Finish, Goto, AtWork, JobOf, PlacesOf, history, disk, defer
  <1>5. CASE Reconcile(p)
    BY <1>5, <1>a DEF Reconcile, ClaimStep, Finish, Goto, AtWork, JobOf, PlacesOf, history, disk, defer
  <1>6. CASE ReplayStops(p)
    BY <1>6, <1>a DEF ReplayStops, ClaimStep, Finish, Goto, AtWork, JobOf, PlacesOf, history, disk, defer
  <1>7. CASE Move(p)
    BY <1>7, <1>a DEF Move, ClaimStep, Finish, Goto, AtWork, JobOf, PlacesOf, history, disk, defer
  <1>8. CASE MoveSpent(p)
    BY <1>8, <1>a DEF MoveSpent, ClaimStep, Finish, Goto, AtWork, JobOf, PlacesOf, history, disk, defer
  <1>9. QED
    BY <1>1, <1>2, <1>3, <1>4, <1>5, <1>6, <1>7, <1>8 DEF RecoveryStep

LEMMA SameClaims ==
  ASSUME ClaimsKept, UNCHANGED <<kind, pc, job, claims>>
  PROVE  ClaimsKept'
  <1>1. Sentinels' = Sentinels /\ \A p : (AtWork(p)' <=> AtWork(p)) /\ JobOf(p)' = JobOf(p)
    BY KindFixed DEF AtWork, JobOf
  <1>2. QED
    BY <1>1 DEF ClaimsKept, ClaimHeld, OneWorker, ClaimsOwned, Processes, Recoverers

LEMMA NextClaims == PlaceInv /\ ClaimsKept /\ [Next]_vars => ClaimsKept'
  <1> SUFFICES ASSUME PlaceInv, ClaimsKept, [Next]_vars PROVE ClaimsKept'
    OBVIOUS
  <1>1. ASSUME NEW e \in Entries, LiveStep(e) PROVE ClaimsKept'
    BY <1>1, Names, LiveClaimStep, ClaimStepKeeps
  <1>2. ASSUME NEW p \in Processes, StorageStep(p) \/ PlatformStep(p) PROVE ClaimsKept'
    BY <1>2, StorageClaimStep, PlatformClaimStep, ClaimStepKeeps
  <1>3. ASSUME NEW p \in Recoverers, RecoveryStep(p) PROVE ClaimsKept'
    BY <1>3, Names, RecoveryClaimStep, ClaimStepKeeps
  <1>4. CASE BudgetExceeded \/ DeferDone
    <2>1. ClaimStep(Startup)
      BY <1>4, Names DEF BudgetExceeded, DeferDone, ClaimStep, Goto, AtWork, JobOf,
           PlaceInv, TypeOK, history
    <2>2. QED
      BY <2>1, Names, ClaimStepKeeps
  <1>5. CASE (\E e \in Entries : DeferRead(e) \/ DeferWrite(e)) \/ UNCHANGED vars
    <2>1. UNCHANGED <<kind, pc, job, claims>>
      BY <1>5 DEF DeferRead, DeferWrite, vars, history
    <2>2. QED
      BY <2>1, SameClaims
  <1>6. CASE Crash
    <2>1. claims' = {} /\ \A p \in Processes : ~AtWork(p)'
      BY <1>6 DEF Crash, AtWork
    <2>2. Processes' = Processes
      BY DEF Processes, Recoverers
    <2>3. QED
      BY <2>1, <2>2 DEF ClaimsKept, ClaimHeld, OneWorker, ClaimsOwned
  <1>7. QED
    BY <1>1, <1>2, <1>3, <1>4, <1>5, <1>6 DEF Next, DeferStep

LEMMA InitClaims == Init => ClaimsKept
  BY DEF Init, ClaimsKept, ClaimHeld, OneWorker, ClaimsOwned, AtWork

(***************************************************************************)
(* What is not enqueued has left no trace                                  *)
(***************************************************************************)
LEMMA EnqueuedGrows ==
  ASSUME order \in Seq(Entries), NEW e \in Entries, order' = Append(order, e)
  PROVE  Enqueued' = Enqueued \cup {e}
  <1>1. /\ Len(order') = Len(order) + 1 /\ Len(order) \in Nat
        /\ order'[Len(order) + 1] = e
        /\ \A i \in 1..Len(order) : order'[i] = order[i]
    BY AppendProperties, LenProperties
  <1>2. QED
    BY <1>1 DEF Enqueued

LEMMA LiveOnlyEnqueued ==
  ASSUME PlaceInv, OnlyEnqueued, NEW p \in Entries, LiveStep(p)
  PROVE  OnlyEnqueued'
  <1>a. /\ p \in Processes /\ pc[p] \in PlacesOf(p) /\ pc \in [Processes -> Places]
        /\ Recoverers \cap Entries = {} /\ Entries \subseteq Processes
        /\ Recoverers \subseteq Processes
    BY Names DEF PlaceInv, TypeOK, PlacesKept
  <1>b. AtWork(p) => JobOf(p) \in Enqueued /\ JobOf(p) \in Entries
    BY Working, Names DEF OnlyEnqueued, AtWork, JobOf, Processes
  <1>c. /\ files \in [Entries -> {Gone} \cup Files] /\ copy \in [Processes -> {Gone} \cup Files]
        /\ todo \in [Recoverers -> SUBSET Entries] /\ job \in [Recoverers -> {Gone} \cup Entries]
        /\ replays \in [Entries -> Nat]
    BY DEF PlaceInv, TypeOK
  <1>d. order' = order => Enqueued' = Enqueued
    BY DEF Enqueued
  <1>1. CASE EnqueueDelivery(p)
    <2>1. Enqueued' = Enqueued \cup {p}
      BY <1>1, EnqueuedGrows DEF EnqueueDelivery, PlaceInv, TypeOK
    <2>2. QED
      BY <1>1, <2>1, <1>a, <1>b, <1>c DEF EnqueueDelivery, Goto, AtWork, OnlyEnqueued,
         disk, defer, history
  <1>2. CASE LiveClaim(p)
    BY <1>2, <1>a, <1>b, <1>c, <1>d DEF LiveClaim, Finish, Goto, AtWork, JobOf, PlacesOf,
         OnlyEnqueued, disk, defer, history
  <1>3. CASE LivePrepare(p)
    BY <1>3, <1>a, <1>b, <1>c, <1>d DEF LivePrepare, Finish, Goto, AtWork, JobOf, PlacesOf,
         OnlyEnqueued, disk, defer, history
  <1>4. CASE MarkRead(p)
    BY <1>4, <1>a, <1>b, <1>c, <1>d DEF MarkRead, MarkFails, Finish, Goto, AtWork, JobOf, PlacesOf,
         OnlyEnqueued, disk, defer, history
  <1>5. CASE MarkWrite(p)
    BY <1>5, <1>a, <1>b, <1>c, <1>d DEF MarkWrite, Finish, Goto, AtWork, JobOf, PlacesOf,
         OnlyEnqueued, disk, defer, history
  <1>6. CASE MarkWriteFails(p)
    BY <1>6, <1>a, <1>b, <1>c, <1>d DEF MarkWriteFails, MarkFails, Finish, Goto, AtWork, JobOf, PlacesOf,
         OnlyEnqueued, disk, defer, history
  <1>7. QED
    BY <1>1, <1>2, <1>3, <1>4, <1>5, <1>6 DEF LiveStep

LEMMA StorageOnlyEnqueued ==
  ASSUME PlaceInv, OnlyEnqueued, NEW p \in Processes, StorageStep(p)
  PROVE  OnlyEnqueued'
  <1>a. /\ p \in Processes /\ pc[p] \in PlacesOf(p) /\ pc \in [Processes -> Places]
        /\ Recoverers \cap Entries = {} /\ Entries \subseteq Processes
        /\ Recoverers \subseteq Processes
    BY Names DEF PlaceInv, TypeOK, PlacesKept
  <1>b. AtWork(p) => JobOf(p) \in Enqueued /\ JobOf(p) \in Entries
    BY Working, Names DEF OnlyEnqueued, AtWork, JobOf, Processes
  <1>c. /\ files \in [Entries -> {Gone} \cup Files] /\ copy \in [Processes -> {Gone} \cup Files]
        /\ todo \in [Recoverers -> SUBSET Entries] /\ job \in [Recoverers -> {Gone} \cup Entries]
        /\ replays \in [Entries -> Nat]
    BY DEF PlaceInv, TypeOK
  <1>d. order' = order => Enqueued' = Enqueued
    BY DEF Enqueued
  <1>1. CASE FailRead(p)
    BY <1>1, <1>a, <1>b, <1>c, <1>d DEF FailRead, Finish, Goto, AtWork, JobOf, PlacesOf,
         OnlyEnqueued, disk, defer, history
  <1>2. CASE FailWrite(p)
    BY <1>2, <1>a, <1>b, <1>c, <1>d DEF FailWrite, Finish, Goto, AtWork, JobOf, PlacesOf,
         OnlyEnqueued, disk, defer, history
  <1>3. CASE AckRename(p)
    BY <1>3, <1>a, <1>b, <1>c, <1>d DEF AckRename, Finish, Goto, AtWork, JobOf, PlacesOf,
         OnlyEnqueued, disk, defer, history
  <1>4. CASE AckUnlink(p)
    BY <1>4, <1>a, <1>b, <1>c, <1>d DEF AckUnlink, Finish, Goto, AtWork, JobOf, PlacesOf,
         OnlyEnqueued, disk, defer, history
  <1>5. QED
    BY <1>1, <1>2, <1>3, <1>4 DEF StorageStep

LEMMA PlatformOnlyEnqueued ==
  ASSUME PlaceInv, OnlyEnqueued, NEW p \in Processes, PlatformStep(p)
  PROVE  OnlyEnqueued'
  <1>a. /\ p \in Processes /\ pc[p] \in PlacesOf(p) /\ pc \in [Processes -> Places]
        /\ Recoverers \cap Entries = {} /\ Entries \subseteq Processes
        /\ Recoverers \subseteq Processes
    BY Names DEF PlaceInv, TypeOK, PlacesKept
  <1>b. AtWork(p) => JobOf(p) \in Enqueued /\ JobOf(p) \in Entries
    BY Working, Names DEF OnlyEnqueued, AtWork, JobOf, Processes
  <1>c. /\ files \in [Entries -> {Gone} \cup Files] /\ copy \in [Processes -> {Gone} \cup Files]
        /\ todo \in [Recoverers -> SUBSET Entries] /\ job \in [Recoverers -> {Gone} \cup Entries]
        /\ replays \in [Entries -> Nat]
    BY DEF PlaceInv, TypeOK
  <1>d. order' = order => Enqueued' = Enqueued
    BY DEF Enqueued
  <1>1. CASE Send(p)
    BY <1>1, <1>a, <1>b, <1>c, <1>d DEF Send, Finish, Goto, AtWork, JobOf, PlacesOf,
         OnlyEnqueued, disk, defer, history
  <1>2. CASE SendSucceeds(p)
    BY <1>2, <1>a, <1>b, <1>c, <1>d DEF SendSucceeds, Finish, Goto, AtWork, JobOf,
         PlacesOf, OnlyEnqueued, disk, defer, history
  <1>3. CASE SendFails(p)
    BY <1>3, <1>a, <1>b, <1>c, <1>d DEF SendFails, Finish, Goto, AtWork, JobOf, PlacesOf,
         OnlyEnqueued, disk, defer, history
  <1>4. QED
    BY <1>1, <1>2, <1>3 DEF PlatformStep

LEMMA RecoveryOnlyEnqueued ==
  ASSUME PlaceInv, OnlyEnqueued, NEW p \in Recoverers, RecoveryStep(p)
  PROVE  OnlyEnqueued'
  <1>a. /\ p \in Processes /\ pc[p] \in PlacesOf(p) /\ pc \in [Processes -> Places]
        /\ Recoverers \cap Entries = {} /\ Entries \subseteq Processes
        /\ Recoverers \subseteq Processes
    BY Names DEF PlaceInv, TypeOK, PlacesKept
  <1>b. AtWork(p) => JobOf(p) \in Enqueued /\ JobOf(p) \in Entries
    BY Working, Names DEF OnlyEnqueued, AtWork, JobOf, Processes
  <1>c. /\ files \in [Entries -> {Gone} \cup Files] /\ copy \in [Processes -> {Gone} \cup Files]
        /\ todo \in [Recoverers -> SUBSET Entries] /\ job \in [Recoverers -> {Gone} \cup Entries]
        /\ replays \in [Entries -> Nat]
    BY DEF PlaceInv, TypeOK
  <1>d. order' = order => Enqueued' = Enqueued
    BY DEF Enqueued
  <1>1. CASE BeginPass(p)
    BY <1>1, <1>a, <1>b, <1>c, <1>d DEF BeginPass, Finish, Goto, AtWork, JobOf, PlacesOf,
         OnlyEnqueued, disk, defer, history
  <1>2. CASE EndPass(p)
    BY <1>2, <1>a, <1>b, <1>c, <1>d DEF EndPass, Finish, Goto, AtWork, JobOf, PlacesOf,
         OnlyEnqueued, disk, defer, history
  <1>3. CASE ClaimNext(p)
    BY <1>3, <1>a, <1>b, <1>c, <1>d DEF ClaimNext, Finish, Goto, AtWork, JobOf, PlacesOf,
         OnlyEnqueued, disk, defer, history
  <1>4. CASE Reread(p)
    BY <1>4, <1>a, <1>b, <1>c, <1>d DEF Reread, Finish, Goto, AtWork, JobOf, PlacesOf,
         OnlyEnqueued, disk, defer, history
  <1>5. CASE Reconcile(p)
    BY <1>5, <1>a, <1>b, <1>c, <1>d DEF Reconcile, Finish, Goto, AtWork, JobOf, PlacesOf,
         OnlyEnqueued, disk, defer, history
  <1>6. CASE ReplayStops(p)
    BY <1>6, <1>a, <1>b, <1>c, <1>d DEF ReplayStops, Finish, Goto, AtWork, JobOf, PlacesOf,
         OnlyEnqueued, disk, defer, history
  <1>7. CASE Move(p)
    BY <1>7, <1>a, <1>b, <1>c, <1>d DEF Move, Finish, Goto, AtWork, JobOf, PlacesOf,
         OnlyEnqueued, disk, defer, history
  <1>8. CASE MoveSpent(p)
    BY <1>8, <1>a, <1>b, <1>c, <1>d DEF MoveSpent, Finish, Goto, AtWork, JobOf, PlacesOf,
         OnlyEnqueued, disk, defer, history
  <1>9. QED
    BY <1>1, <1>2, <1>3, <1>4, <1>5, <1>6, <1>7, <1>8 DEF RecoveryStep

LEMMA DeferOnlyEnqueued ==
  ASSUME PlaceInv, OnlyEnqueued, DeferStep
  PROVE  OnlyEnqueued'
  <1>1. order' = order /\ Enqueued' = Enqueued /\ Startup \in Recoverers
        /\ Recoverers \cap Entries = {}
    BY Names DEF DeferStep, BudgetExceeded, DeferRead, DeferWrite, DeferDone, Enqueued
  <1>2. /\ files \in [Entries -> {Gone} \cup Files]
        /\ deferCopy \in [Entries -> {Gone} \cup Files]
        /\ pc \in [Processes -> Places] /\ Processes = Entries \cup Recoverers
        /\ todo \in [Recoverers -> SUBSET Entries]
    BY Names DEF PlaceInv, TypeOK
  <1>3. CASE BudgetExceeded \/ DeferDone
    BY <1>1, <1>2, <1>3 DEF BudgetExceeded, DeferDone, Goto, AtWork, OnlyEnqueued, disk, defer,
                            history
  <1>4. ASSUME NEW e \in Entries, DeferRead(e) \/ DeferWrite(e) PROVE OnlyEnqueued'
    BY <1>1, <1>2, <1>4 DEF DeferRead, DeferWrite, AtWork, OnlyEnqueued, disk, history
  <1>5. QED
    BY <1>3, <1>4 DEF DeferStep

LEMMA CrashOnlyEnqueued ==
  ASSUME PlaceInv, OnlyEnqueued, Crash
  PROVE  OnlyEnqueued'
  <1>1. Enqueued' = Enqueued
    BY DEF Crash, Enqueued
  <1>2. QED
    BY <1>1, Names DEF Crash, OnlyEnqueued, AtWork, PlaceInv, TypeOK, disk

LEMMA NextOnlyEnqueued == PlaceInv /\ OnlyEnqueued /\ [Next]_vars => OnlyEnqueued'
  <1> SUFFICES ASSUME PlaceInv, OnlyEnqueued, [Next]_vars PROVE OnlyEnqueued'
    OBVIOUS
  <1>1. CASE UNCHANGED vars
    <2>1. Enqueued' = Enqueued
      BY <1>1 DEF vars, Enqueued
    <2>2. QED
      BY <1>1, <2>1 DEF vars, disk, defer, history, OnlyEnqueued, AtWork
  <1>2. QED
    BY <1>1, LiveOnlyEnqueued, StorageOnlyEnqueued, PlatformOnlyEnqueued,
       RecoveryOnlyEnqueued, DeferOnlyEnqueued, CrashOnlyEnqueued DEF Next

LEMMA InitOnlyEnqueued == Init => OnlyEnqueued
  <1> SUFFICES ASSUME Init PROVE OnlyEnqueued
    OBVIOUS
  <1>1. Enqueued = {}
    BY DEF Init, Enqueued
  <1>2. QED
    BY <1>1, Names DEF Init, OnlyEnqueued, AtWork

(***************************************************************************)
(* No message is lost                                                      *)
(***************************************************************************)
LEMMA LiveKeepsAll ==
  ASSUME PlaceInv, OnlyEnqueued, LostInv, NEW p \in Entries, LiveStep(p)
  PROVE  LostInv'
  <1>a. /\ p \in Processes /\ pc[p] \in PlacesOf(p) /\ pc \in [Processes -> Places]
        /\ Recoverers \cap Entries = {} /\ Entries \subseteq Processes
        /\ Recoverers \subseteq Processes /\ Processes = Entries \cup Recoverers
        /\ Sentinels \subseteq Entries /\ marked \subseteq Entries
    BY Names, SentinelsAreEntries DEF PlaceInv, TypeOK, PlacesKept
  <1>b. AtWork(p) => JobOf(p) \in Enqueued /\ JobOf(p) \in Entries
    BY Working, Names DEF OnlyEnqueued, AtWork, JobOf, Processes
  <1>c. /\ files \in [Entries -> {Gone} \cup Files] /\ copy \in [Processes -> {Gone} \cup Files]
        /\ job \in [Recoverers -> {Gone} \cup Entries] /\ Gone \notin Files
    BY Names DEF PlaceInv, TypeOK
  <1>d. /\ order' = order => Enqueued' = Enqueued
        /\ kind' = kind => Sentinels' = Sentinels /\ BestEffort' = BestEffort
        /\ Enqueued \subseteq Entries
    BY KindFixed DEF Enqueued, PlaceInv, TypeOK
  <1>e. Writing(p) => copy[p] \in Files
    BY <1>a, <1>c DEF PlaceInv, PlacesKept
  <1>1. CASE EnqueueDelivery(p)
    <2>1. Enqueued' = Enqueued \cup {p}
      BY <1>1, EnqueuedGrows DEF EnqueueDelivery, PlaceInv, TypeOK
    <2>2. [retryCount |-> 0, recoveryState |-> "none"] \in Files
      BY DEF Files, SendStates
    <2>3. QED
      BY <1>1, <2>1, <2>2, <1>a, <1>b, <1>c, <1>d DEF EnqueueDelivery, Goto, AtWork, JobOf,
         LostInv, AckEarned, StrictNotLost, NotLost, disk, defer, history
  <1>2. CASE LiveClaim(p)
    BY <1>2, <1>a, <1>b, <1>c, <1>d, <1>e DEF LiveClaim, Finish, Goto, AtWork, JobOf,
         PlacesOf, Writing, LostInv, AckEarned, StrictNotLost, NotLost, disk, defer, history
  <1>3. CASE LivePrepare(p)
    BY <1>3, <1>a, <1>b, <1>c, <1>d, <1>e DEF LivePrepare, Finish, Goto, AtWork, JobOf,
         PlacesOf, Writing, LostInv, AckEarned, StrictNotLost, NotLost, disk, defer, history
  <1>4. CASE MarkRead(p)
    BY <1>4, <1>a, <1>b, <1>c, <1>d, <1>e DEF MarkRead, MarkFails, Finish, Goto, AtWork, JobOf,
         PlacesOf, Writing, LostInv, AckEarned, StrictNotLost, NotLost, disk, defer, history
  <1>5. CASE MarkWrite(p)
    <2>1. PICK state \in SendStates :
            files' = [files EXCEPT ![p] = [copy[p] EXCEPT !.recoveryState = state]]
      BY <1>5 DEF MarkWrite, SendStates
    <2>2. [copy[p] EXCEPT !.recoveryState = state] \in Files
      BY <1>5, <1>e DEF MarkWrite, Writing, Files
    <2>3. StrictNotLost'
      BY <1>5, <1>a, <1>b, <1>c, <1>d, <2>1, <2>2 DEF MarkWrite, LostInv, StrictNotLost, NotLost,
         history
    <2>4. AckEarned'
      BY <1>5, <1>a, <1>b, <1>c, <1>d DEF MarkWrite, Goto, JobOf, LostInv, AckEarned, history
    <2>5. QED
      BY <2>3, <2>4 DEF LostInv
  <1>6. CASE MarkWriteFails(p)
    BY <1>6, <1>a, <1>b, <1>c, <1>d, <1>e DEF MarkWriteFails, MarkFails, Finish, Goto, AtWork, JobOf,
         PlacesOf, Writing, LostInv, AckEarned, StrictNotLost, NotLost, disk, defer, history
  <1>7. QED
    BY <1>1, <1>2, <1>3, <1>4, <1>5, <1>6 DEF LiveStep

LEMMA StorageKeepsAll ==
  ASSUME PlaceInv, OnlyEnqueued, LostInv, NEW p \in Processes, StorageStep(p)
  PROVE  LostInv'
  <1>a. /\ p \in Processes /\ pc[p] \in PlacesOf(p) /\ pc \in [Processes -> Places]
        /\ Recoverers \cap Entries = {} /\ Entries \subseteq Processes
        /\ Recoverers \subseteq Processes /\ Processes = Entries \cup Recoverers
        /\ Sentinels \subseteq Entries /\ marked \subseteq Entries
    BY Names, SentinelsAreEntries DEF PlaceInv, TypeOK, PlacesKept
  <1>b. AtWork(p) => JobOf(p) \in Enqueued /\ JobOf(p) \in Entries
    BY Working, Names DEF OnlyEnqueued, AtWork, JobOf, Processes
  <1>c. /\ files \in [Entries -> {Gone} \cup Files] /\ copy \in [Processes -> {Gone} \cup Files]
        /\ job \in [Recoverers -> {Gone} \cup Entries] /\ Gone \notin Files
    BY Names DEF PlaceInv, TypeOK
  <1>d. /\ order' = order => Enqueued' = Enqueued
        /\ kind' = kind => Sentinels' = Sentinels /\ BestEffort' = BestEffort
        /\ Enqueued \subseteq Entries
    BY KindFixed DEF Enqueued, PlaceInv, TypeOK
  <1>e. Writing(p) => copy[p] \in Files
    BY <1>a, <1>c DEF PlaceInv, PlacesKept
  <1>1. CASE FailRead(p)
    BY <1>1, <1>a, <1>b, <1>c, <1>d, <1>e DEF FailRead, Finish, Goto, AtWork, JobOf,
         PlacesOf, Writing, LostInv, AckEarned, StrictNotLost, NotLost, disk, defer, history
  <1>2. CASE FailWrite(p)
    <2>1. JobOf(p) \in Entries /\ OneRetryMore(copy[p]) # Gone
      BY <1>2, <1>b, <1>c, <1>e, RetryIsFile DEF FailWrite, AtWork, Writing
    <2>2. QED
      BY <1>2, <1>a, <1>b, <1>c, <1>d, <2>1 DEF FailWrite, Finish, Goto, AtWork, JobOf, PlacesOf,
         LostInv, AckEarned, StrictNotLost, NotLost, disk, defer, history
  <1>3. CASE AckRename(p)
    BY <1>3, <1>a, <1>b, <1>c, <1>d, <1>e DEF AckRename, Finish, Goto, AtWork, JobOf,
         PlacesOf, Writing, LostInv, AckEarned, StrictNotLost, NotLost, disk, defer, history
  <1>4. CASE AckUnlink(p)
    BY <1>4, <1>a, <1>b, <1>c, <1>d, <1>e DEF AckUnlink, Finish, Goto, AtWork, JobOf,
         PlacesOf, Writing, LostInv, AckEarned, StrictNotLost, NotLost, disk, defer, history
  <1>5. QED
    BY <1>1, <1>2, <1>3, <1>4 DEF StorageStep

LEMMA PlatformKeepsAll ==
  ASSUME PlaceInv, OnlyEnqueued, LostInv, NEW p \in Processes, PlatformStep(p)
  PROVE  LostInv'
  <1>a. /\ p \in Processes /\ pc[p] \in PlacesOf(p) /\ pc \in [Processes -> Places]
        /\ Recoverers \cap Entries = {} /\ Entries \subseteq Processes
        /\ Recoverers \subseteq Processes /\ Processes = Entries \cup Recoverers
        /\ Sentinels \subseteq Entries /\ marked \subseteq Entries
    BY Names, SentinelsAreEntries DEF PlaceInv, TypeOK, PlacesKept
  <1>b. AtWork(p) => JobOf(p) \in Enqueued /\ JobOf(p) \in Entries
    BY Working, Names DEF OnlyEnqueued, AtWork, JobOf, Processes
  <1>c. /\ files \in [Entries -> {Gone} \cup Files] /\ copy \in [Processes -> {Gone} \cup Files]
        /\ job \in [Recoverers -> {Gone} \cup Entries] /\ Gone \notin Files
    BY Names DEF PlaceInv, TypeOK
  <1>d. /\ order' = order => Enqueued' = Enqueued
        /\ kind' = kind => Sentinels' = Sentinels /\ BestEffort' = BestEffort
        /\ Enqueued \subseteq Entries
    BY KindFixed DEF Enqueued, PlaceInv, TypeOK
  <1>e. Writing(p) => copy[p] \in Files
    BY <1>a, <1>c DEF PlaceInv, PlacesKept
  <1>1. CASE Send(p)
    BY <1>1, <1>a, <1>b, <1>c, <1>d, <1>e DEF Send, Finish, Goto, AtWork, JobOf, PlacesOf,
         Writing, LostInv, AckEarned, StrictNotLost, NotLost, disk, defer, history
  <1>2. CASE SendSucceeds(p)
    BY <1>2, <1>a, <1>b, <1>c, <1>d, <1>e DEF SendSucceeds, Finish, Goto, AtWork, JobOf,
         PlacesOf, Writing, LostInv, AckEarned, StrictNotLost, NotLost, disk, defer, history
  <1>3. CASE SendFails(p)
    BY <1>3, <1>a, <1>b, <1>c, <1>d, <1>e DEF SendFails, Finish, Goto, AtWork, JobOf,
         PlacesOf, Writing, LostInv, AckEarned, StrictNotLost, NotLost, disk, defer, history
  <1>4. QED
    BY <1>1, <1>2, <1>3 DEF PlatformStep

LEMMA RecoveryKeepsAll ==
  ASSUME PlaceInv, OnlyEnqueued, LostInv, NEW p \in Recoverers, RecoveryStep(p)
  PROVE  LostInv'
  <1>a. /\ p \in Processes /\ pc[p] \in PlacesOf(p) /\ pc \in [Processes -> Places]
        /\ Recoverers \cap Entries = {} /\ Entries \subseteq Processes
        /\ Recoverers \subseteq Processes /\ Processes = Entries \cup Recoverers
        /\ Sentinels \subseteq Entries /\ marked \subseteq Entries
    BY Names, SentinelsAreEntries DEF PlaceInv, TypeOK, PlacesKept
  <1>b. AtWork(p) => JobOf(p) \in Enqueued /\ JobOf(p) \in Entries
    BY Working, Names DEF OnlyEnqueued, AtWork, JobOf, Processes
  <1>c. /\ files \in [Entries -> {Gone} \cup Files] /\ copy \in [Processes -> {Gone} \cup Files]
        /\ job \in [Recoverers -> {Gone} \cup Entries] /\ Gone \notin Files
    BY Names DEF PlaceInv, TypeOK
  <1>d. /\ order' = order => Enqueued' = Enqueued
        /\ kind' = kind => Sentinels' = Sentinels /\ BestEffort' = BestEffort
        /\ Enqueued \subseteq Entries
    BY KindFixed DEF Enqueued, PlaceInv, TypeOK
  <1>e. Writing(p) => copy[p] \in Files
    BY <1>a, <1>c DEF PlaceInv, PlacesKept
  <1>1. CASE BeginPass(p)
    BY <1>1, <1>a, <1>b, <1>c, <1>d, <1>e DEF BeginPass, Finish, Goto, AtWork, JobOf,
         PlacesOf, Writing, LostInv, AckEarned, StrictNotLost, NotLost, disk, defer, history
  <1>2. CASE EndPass(p)
    BY <1>2, <1>a, <1>b, <1>c, <1>d, <1>e DEF EndPass, Finish, Goto, AtWork, JobOf,
         PlacesOf, Writing, LostInv, AckEarned, StrictNotLost, NotLost, disk, defer, history
  <1>3. CASE ClaimNext(p)
    BY <1>3, <1>a, <1>b, <1>c, <1>d, <1>e DEF ClaimNext, Finish, Goto, AtWork, JobOf,
         PlacesOf, Writing, LostInv, AckEarned, StrictNotLost, NotLost, disk, defer, history
  <1>4. CASE Reread(p)
    BY <1>4, <1>a, <1>b, <1>c, <1>d, <1>e DEF Reread, Finish, Goto, AtWork, JobOf,
         PlacesOf, Writing, LostInv, AckEarned, StrictNotLost, NotLost, disk, defer, history
  <1>5. CASE Reconcile(p)
    BY <1>5, <1>a, <1>b, <1>c, <1>d, <1>e DEF Reconcile, Finish, Goto, AtWork, JobOf,
         PlacesOf, Writing, LostInv, AckEarned, StrictNotLost, NotLost, disk, defer, history
  <1>6. CASE ReplayStops(p)
    BY <1>6, <1>a, <1>b, <1>c, <1>d, <1>e DEF ReplayStops, Finish, Goto, AtWork, JobOf,
         PlacesOf, Writing, LostInv, AckEarned, StrictNotLost, NotLost, disk, defer, history
  <1>7. CASE Move(p)
    BY <1>7, <1>a, <1>b, <1>c, <1>d, <1>e DEF Move, Finish, Goto, AtWork, JobOf, PlacesOf,
         Writing, LostInv, AckEarned, StrictNotLost, NotLost, disk, defer, history
  <1>8. CASE MoveSpent(p)
    BY <1>8, <1>a, <1>b, <1>c, <1>d, <1>e DEF MoveSpent, Finish, Goto, AtWork, JobOf,
         PlacesOf, Writing, LostInv, AckEarned, StrictNotLost, NotLost, disk, defer, history
  <1>9. QED
    BY <1>1, <1>2, <1>3, <1>4, <1>5, <1>6, <1>7, <1>8 DEF RecoveryStep

LEMMA NextKeepsAll == PlaceInv /\ OnlyEnqueued /\ LostInv /\ [Next]_vars => LostInv'
  <1> SUFFICES ASSUME PlaceInv, OnlyEnqueued, LostInv, [Next]_vars PROVE LostInv'
    OBVIOUS
  <1>1. ASSUME order' = order, kind' = kind
        PROVE  Enqueued' = Enqueued /\ BestEffort' = BestEffort
    BY <1>1, KindFixed DEF Enqueued
  <1>2. /\ deferCopy \in [Entries -> {Gone} \cup Files] /\ Gone \notin Files
        /\ files \in [Entries -> {Gone} \cup Files] /\ Startup \in Recoverers
        /\ pc \in [Processes -> Places] /\ Enqueued \subseteq Entries
    BY Names DEF PlaceInv, TypeOK, Enqueued
  <1>3. CASE BudgetExceeded \/ DeferDone
    <2>1. /\ UNCHANGED <<order, kind, files, failed, reached, abandoned, job>>
          /\ pc' = [pc EXCEPT ![Startup] = pc'[Startup]] /\ pc'[Startup] \in {"defer", "done"}
      BY <1>2, <1>3, Names DEF BudgetExceeded, DeferDone, Goto, disk, history, PlaceInv, TypeOK
    <2>2. QED
      BY <1>1, <1>2, <2>1 DEF LostInv, AckEarned, StrictNotLost, NotLost, JobOf
  <1>4. ASSUME NEW e \in Entries, DeferRead(e) \/ DeferWrite(e) PROVE LostInv'
    <2>1. \A f \in Entries : files[f] # Gone => files'[f] # Gone
      BY <1>2, <1>4, RetryIsFile DEF DeferRead, DeferWrite, disk
    <2>2. UNCHANGED <<order, kind, failed, reached, abandoned, job, pc>>
      BY <1>4 DEF DeferRead, DeferWrite, disk, history
    <2>3. QED
      BY <1>1, <1>2, <2>1, <2>2 DEF LostInv, AckEarned, StrictNotLost, NotLost, JobOf
  <1>5. CASE Crash
    <2>1. /\ UNCHANGED <<order, kind, files, failed, abandoned>> /\ reached \subseteq reached'
          /\ \A p \in Processes : pc'[p] \in {"idle", "done"}
      BY <1>5 DEF Crash, disk
    <2>2. QED
      BY <1>1, <2>1 DEF LostInv, AckEarned, StrictNotLost, NotLost, Processes, Recoverers
  <1>6. CASE UNCHANGED vars
    BY <1>1, <1>6 DEF vars, disk, history, LostInv, AckEarned, StrictNotLost, NotLost, JobOf
  <1>7. QED
    BY <1>3, <1>4, <1>5, <1>6, LiveKeepsAll, StorageKeepsAll, PlatformKeepsAll,
       RecoveryKeepsAll DEF Next, DeferStep

LEMMA InitKeepsAll == Init => LostInv
  BY Names DEF Init, LostInv, AckEarned, StrictNotLost, Enqueued

(***************************************************************************)
(* Under its claim, a file is what its worker has read                     *)
(***************************************************************************)
\* What a step of a process leaves alone: the other processes, and every
\* file but that of its entry.
StepOf(p) ==
  /\ \A q \in Processes \ {p} :
       pc'[q] = pc[q] /\ copy'[q] = copy[q] /\ JobOf(q)' = JobOf(q)
  /\ \A e \in Entries \ {JobOf(p)} : files'[e] = files[e]
  /\ AtWork(p) \/ (p \in Entries /\ p \notin Enqueued) \/ UNCHANGED files
  /\ Sentinels' = Sentinels /\ rewritten' = rewritten

LEMMA LiveStepOf ==
  ASSUME PlaceInv, OnlyEnqueued, NEW p \in Entries, LiveStep(p)
  PROVE  StepOf(p)
  <1>a. /\ p \in Processes /\ pc[p] \in PlacesOf(p) /\ pc \in [Processes -> Places]
        /\ Recoverers \cap Entries = {} /\ Entries \subseteq Processes
        /\ Recoverers \subseteq Processes /\ Processes = Entries \cup Recoverers
        /\ Sentinels \subseteq Entries /\ marked \subseteq Entries
    BY Names, SentinelsAreEntries DEF PlaceInv, TypeOK, PlacesKept
  <1>b. AtWork(p) => JobOf(p) \in Enqueued /\ JobOf(p) \in Entries
    BY Working, Names DEF OnlyEnqueued, AtWork, JobOf, Processes
  <1>c. /\ files \in [Entries -> {Gone} \cup Files] /\ copy \in [Processes -> {Gone} \cup Files]
        /\ job \in [Recoverers -> {Gone} \cup Entries] /\ Gone \notin Files
    BY Names DEF PlaceInv, TypeOK
  <1>d. kind' = kind => Sentinels' = Sentinels
    BY KindFixed
  <1>1. CASE EnqueueDelivery(p)
    <2>1. p \notin Enqueued
      BY <1>1 DEF EnqueueDelivery, OnlyEnqueued
    <2>2. QED
      BY <1>1, <2>1, <1>a, <1>c, <1>d DEF EnqueueDelivery, Goto, JobOf, StepOf, history
  <1>2. CASE LiveClaim(p)
    BY <1>2, <1>a, <1>b, <1>c, <1>d DEF LiveClaim, Finish, Goto, AtWork, JobOf, PlacesOf,
         StepOf, disk, defer, history
  <1>3. CASE LivePrepare(p)
    BY <1>3, <1>a, <1>b, <1>c, <1>d DEF LivePrepare, Finish, Goto, AtWork, JobOf, PlacesOf,
         StepOf, disk, defer, history
  <1>4. CASE MarkRead(p)
    BY <1>4, <1>a, <1>b, <1>c, <1>d DEF MarkRead, MarkFails, Finish, Goto, AtWork, JobOf, PlacesOf,
         StepOf, disk, defer, history
  <1>5. CASE MarkWrite(p)
    BY <1>5, <1>a, <1>b, <1>c, <1>d DEF MarkWrite, Finish, Goto, AtWork, JobOf, PlacesOf,
         StepOf, disk, defer, history
  <1>6. CASE MarkWriteFails(p)
    BY <1>6, <1>a, <1>b, <1>c, <1>d DEF MarkWriteFails, MarkFails, Finish, Goto, AtWork, JobOf, PlacesOf,
         StepOf, disk, defer, history
  <1>7. QED
    BY <1>1, <1>2, <1>3, <1>4, <1>5, <1>6 DEF LiveStep

LEMMA StorageStepOf ==
  ASSUME PlaceInv, OnlyEnqueued, NEW p \in Processes, StorageStep(p)
  PROVE  StepOf(p)
  <1>a. /\ p \in Processes /\ pc[p] \in PlacesOf(p) /\ pc \in [Processes -> Places]
        /\ Recoverers \cap Entries = {} /\ Entries \subseteq Processes
        /\ Recoverers \subseteq Processes /\ Processes = Entries \cup Recoverers
        /\ Sentinels \subseteq Entries /\ marked \subseteq Entries
    BY Names, SentinelsAreEntries DEF PlaceInv, TypeOK, PlacesKept
  <1>b. AtWork(p) => JobOf(p) \in Enqueued /\ JobOf(p) \in Entries
    BY Working, Names DEF OnlyEnqueued, AtWork, JobOf, Processes
  <1>c. /\ files \in [Entries -> {Gone} \cup Files] /\ copy \in [Processes -> {Gone} \cup Files]
        /\ job \in [Recoverers -> {Gone} \cup Entries] /\ Gone \notin Files
    BY Names DEF PlaceInv, TypeOK
  <1>d. kind' = kind => Sentinels' = Sentinels
    BY KindFixed
  <1>1. CASE FailRead(p)
    BY <1>1, <1>a, <1>b, <1>c, <1>d DEF FailRead, Finish, Goto, AtWork, JobOf, PlacesOf,
         StepOf, disk, defer, history
  <1>2. CASE FailWrite(p)
    BY <1>2, <1>a, <1>b, <1>c, <1>d DEF FailWrite, Finish, Goto, AtWork, JobOf, PlacesOf,
         StepOf, disk, defer, history
  <1>3. CASE AckRename(p)
    BY <1>3, <1>a, <1>b, <1>c, <1>d DEF AckRename, Finish, Goto, AtWork, JobOf, PlacesOf,
         StepOf, disk, defer, history
  <1>4. CASE AckUnlink(p)
    BY <1>4, <1>a, <1>b, <1>c, <1>d DEF AckUnlink, Finish, Goto, AtWork, JobOf, PlacesOf,
         StepOf, disk, defer, history
  <1>5. QED
    BY <1>1, <1>2, <1>3, <1>4 DEF StorageStep

LEMMA PlatformStepOf ==
  ASSUME PlaceInv, OnlyEnqueued, NEW p \in Processes, PlatformStep(p)
  PROVE  StepOf(p)
  <1>a. /\ p \in Processes /\ pc[p] \in PlacesOf(p) /\ pc \in [Processes -> Places]
        /\ Recoverers \cap Entries = {} /\ Entries \subseteq Processes
        /\ Recoverers \subseteq Processes /\ Processes = Entries \cup Recoverers
        /\ Sentinels \subseteq Entries /\ marked \subseteq Entries
    BY Names, SentinelsAreEntries DEF PlaceInv, TypeOK, PlacesKept
  <1>b. AtWork(p) => JobOf(p) \in Enqueued /\ JobOf(p) \in Entries
    BY Working, Names DEF OnlyEnqueued, AtWork, JobOf, Processes
  <1>c. /\ files \in [Entries -> {Gone} \cup Files] /\ copy \in [Processes -> {Gone} \cup Files]
        /\ job \in [Recoverers -> {Gone} \cup Entries] /\ Gone \notin Files
    BY Names DEF PlaceInv, TypeOK
  <1>d. kind' = kind => Sentinels' = Sentinels
    BY KindFixed
  <1>1. CASE Send(p)
    BY <1>1, <1>a, <1>b, <1>c, <1>d DEF Send, Finish, Goto, AtWork, JobOf, PlacesOf,
         StepOf, disk, defer, history
  <1>2. CASE SendSucceeds(p)
    BY <1>2, <1>a, <1>b, <1>c, <1>d DEF SendSucceeds, Finish, Goto, AtWork, JobOf,
         PlacesOf, StepOf, disk, defer, history
  <1>3. CASE SendFails(p)
    BY <1>3, <1>a, <1>b, <1>c, <1>d DEF SendFails, Finish, Goto, AtWork, JobOf, PlacesOf,
         StepOf, disk, defer, history
  <1>4. QED
    BY <1>1, <1>2, <1>3 DEF PlatformStep

LEMMA RecoveryStepOf ==
  ASSUME PlaceInv, OnlyEnqueued, NEW p \in Recoverers, RecoveryStep(p)
  PROVE  StepOf(p)
  <1>a. /\ p \in Processes /\ pc[p] \in PlacesOf(p) /\ pc \in [Processes -> Places]
        /\ Recoverers \cap Entries = {} /\ Entries \subseteq Processes
        /\ Recoverers \subseteq Processes /\ Processes = Entries \cup Recoverers
        /\ Sentinels \subseteq Entries /\ marked \subseteq Entries
    BY Names, SentinelsAreEntries DEF PlaceInv, TypeOK, PlacesKept
  <1>b. AtWork(p) => JobOf(p) \in Enqueued /\ JobOf(p) \in Entries
    BY Working, Names DEF OnlyEnqueued, AtWork, JobOf, Processes
  <1>c. /\ files \in [Entries -> {Gone} \cup Files] /\ copy \in [Processes -> {Gone} \cup Files]
        /\ job \in [Recoverers -> {Gone} \cup Entries] /\ Gone \notin Files
    BY Names DEF PlaceInv, TypeOK
  <1>d. kind' = kind => Sentinels' = Sentinels
    BY KindFixed
  <1>1. CASE BeginPass(p)
    BY <1>1, <1>a, <1>b, <1>c, <1>d DEF BeginPass, Finish, Goto, AtWork, JobOf, PlacesOf,
         StepOf, disk, defer, history
  <1>2. CASE EndPass(p)
    BY <1>2, <1>a, <1>b, <1>c, <1>d DEF EndPass, Finish, Goto, AtWork, JobOf, PlacesOf,
         StepOf, disk, defer, history
  <1>3. CASE ClaimNext(p)
    BY <1>3, <1>a, <1>b, <1>c, <1>d DEF ClaimNext, Finish, Goto, AtWork, JobOf, PlacesOf,
         StepOf, disk, defer, history
  <1>4. CASE Reread(p)
    BY <1>4, <1>a, <1>b, <1>c, <1>d DEF Reread, Finish, Goto, AtWork, JobOf, PlacesOf,
         StepOf, disk, defer, history
  <1>5. CASE Reconcile(p)
    BY <1>5, <1>a, <1>b, <1>c, <1>d DEF Reconcile, Finish, Goto, AtWork, JobOf, PlacesOf,
         StepOf, disk, defer, history
  <1>6. CASE ReplayStops(p)
    BY <1>6, <1>a, <1>b, <1>c, <1>d DEF ReplayStops, Finish, Goto, AtWork, JobOf, PlacesOf,
         StepOf, disk, defer, history
  <1>7. CASE Move(p)
    BY <1>7, <1>a, <1>b, <1>c, <1>d DEF Move, Finish, Goto, AtWork, JobOf, PlacesOf,
         StepOf, disk, defer, history
  <1>8. CASE MoveSpent(p)
    BY <1>8, <1>a, <1>b, <1>c, <1>d DEF MoveSpent, Finish, Goto, AtWork, JobOf, PlacesOf,
         StepOf, disk, defer, history
  <1>9. QED
    BY <1>1, <1>2, <1>3, <1>4, <1>5, <1>6, <1>7, <1>8 DEF RecoveryStep

\* Whoever else works on an entry that only claimants write finds it, and its
\* copy of it, as they were.
LEMMA Elsewhere ==
  ASSUME ClaimsInv, OnlyEnqueued, NEW p \in Processes, StepOf(p),
         NEW q \in Processes \ Sentinels, q # p, AtWork(q)', JobOf(q)' \in Guarded
  PROVE  /\ AtWork(q) /\ pc'[q] = pc[q] /\ copy'[q] = copy[q] /\ JobOf(q)' = JobOf(q)
         /\ files'[JobOf(q)] = files[JobOf(q)]
         /\ p \notin Sentinels /\ AtWork(p) => JobOf(p) # JobOf(q)
  <1>1. AtWork(q) /\ pc'[q] = pc[q] /\ copy'[q] = copy[q] /\ JobOf(q)' = JobOf(q)
    BY DEF StepOf, AtWork
  <1>2. p \notin Sentinels /\ AtWork(p) => JobOf(p) # JobOf(q)
    BY <1>1 DEF ClaimsInv, ClaimsKept, OneWorker
  <1>3. p \in Sentinels => JobOf(p) # JobOf(q)
    BY <1>1, SentinelsAreEntries DEF JobOf, Guarded
  <1>4. p \in Entries /\ p \notin Enqueued => JobOf(p) # JobOf(q)
    BY <1>1, Names DEF JobOf, OnlyEnqueued, AtWork
  <1>5. JobOf(q) \in Entries
    BY <1>1 DEF Guarded
  <1>6. QED
    BY <1>1, <1>2, <1>3, <1>4, <1>5 DEF StepOf

\* So a step keeps copies fresh if that of its own process is.
LEMMA OwnCopyEnough ==
  ASSUME ClaimsInv, OnlyEnqueued, CopiesFresh, NEW p \in Processes, StepOf(p),
         p \notin Sentinels /\ JobOf(p)' \in Guarded => Fresh(p)'
  PROVE  CopiesFresh'
  <1>1. Guarded' = Guarded
    BY DEF StepOf, Guarded
  <1> SUFFICES ASSUME NEW q \in Processes \ Sentinels, JobOf(q)' \in Guarded, q # p
               PROVE  Fresh(q)'
    BY <1>1 DEF CopiesFresh, StepOf, Processes, Recoverers
  <1>2. CASE ~AtWork(q)'
    BY <1>2 DEF Fresh, Writing, AtWork
  <1>3. CASE AtWork(q)'
    <2>1. /\ pc'[q] = pc[q] /\ copy'[q] = copy[q] /\ JobOf(q)' = JobOf(q)
          /\ files'[JobOf(q)] = files[JobOf(q)]
      BY <1>3, Elsewhere
    <2>2. Fresh(q)
      BY <2>1 DEF CopiesFresh
    <2>3. QED
      BY <2>1, <2>2 DEF Fresh, Writing, Recoverers
  <1>4. QED
    BY <1>2, <1>3

LEMMA LiveFresh ==
  ASSUME ClaimsInv, OnlyEnqueued, CopiesFresh, NEW p \in Entries, LiveStep(p)
  PROVE  CopiesFresh'
  <1>a. /\ p \in Processes /\ pc[p] \in PlacesOf(p) /\ pc \in [Processes -> Places]
        /\ Recoverers \cap Entries = {} /\ Entries \subseteq Processes
        /\ Recoverers \subseteq Processes /\ Processes = Entries \cup Recoverers
        /\ Sentinels \subseteq Entries /\ marked \subseteq Entries
    BY Names, SentinelsAreEntries DEF ClaimsInv, PlaceInv, TypeOK, PlacesKept
  <1>b. AtWork(p) => JobOf(p) \in Enqueued /\ JobOf(p) \in Entries
    BY Working, Names DEF ClaimsInv, OnlyEnqueued, AtWork, JobOf, Processes
  <1>c. /\ files \in [Entries -> {Gone} \cup Files] /\ copy \in [Processes -> {Gone} \cup Files]
        /\ job \in [Recoverers -> {Gone} \cup Entries] /\ Gone \notin Files
    BY Names DEF ClaimsInv, PlaceInv, TypeOK
  <1>d. kind' = kind => Sentinels' = Sentinels
    BY KindFixed
  <1>e. p \notin Sentinels /\ JobOf(p) \in Guarded => Fresh(p)
    BY <1>a DEF CopiesFresh
  <1> SUFFICES ASSUME p \notin Sentinels, JobOf(p)' \in Guarded PROVE Fresh(p)'
    BY <1>a, LiveStepOf, OwnCopyEnough DEF ClaimsInv
  <1>1. CASE EnqueueDelivery(p)
    BY <1>1, <1>a, <1>b, <1>c, <1>e DEF EnqueueDelivery, Fresh, Writing, Finish, Goto,
         AtWork, JobOf, PlacesOf
  <1>2. CASE LiveClaim(p)
    BY <1>2, <1>a, <1>b, <1>c, <1>e DEF LiveClaim, Fresh, Writing, Finish, Goto, AtWork,
         JobOf, PlacesOf
  <1>3. CASE LivePrepare(p)
    BY <1>3, <1>a, <1>b, <1>c, <1>e DEF LivePrepare, Fresh, Writing, Finish, Goto, AtWork,
         JobOf, PlacesOf
  <1>4. CASE MarkRead(p)
    <2>1. files' = files /\ JobOf(p) = p /\ JobOf(p)' = p /\ p \notin Recoverers
      BY <1>4, <1>a DEF MarkRead, MarkFails, JobOf, disk
    <2>2. pc'[p] \in {"markWrite", "unknownWrite"} => files[p] # Gone /\ copy'[p] = files[p]
      BY <1>4, <1>a, <1>c DEF MarkRead, MarkFails, Goto, Finish
    <2>3. pc'[p] \notin {"unlink", "failWrite"}
      BY <1>4, <1>a DEF MarkRead, MarkFails, Goto, Finish
    <2>4. QED
      BY <2>1, <2>2, <2>3 DEF Fresh, Writing
  <1>5. CASE MarkWrite(p)
    BY <1>5, <1>a, <1>b, <1>c, <1>e DEF MarkWrite, Fresh, Writing, Finish, Goto, AtWork,
         JobOf, PlacesOf
  <1>6. CASE MarkWriteFails(p)
    <2>1. files' = files /\ JobOf(p) = p /\ JobOf(p)' = p /\ p \notin Recoverers
      BY <1>6, <1>a DEF MarkWriteFails, MarkFails, JobOf, disk
    <2>2. pc'[p] \in {"markWrite", "unknownWrite"} => files[p] # Gone /\ copy'[p] = files[p]
      BY <1>6, <1>a, <1>c DEF MarkWriteFails, MarkFails, Goto, Finish
    <2>3. pc'[p] \notin {"unlink", "failWrite"}
      BY <1>6, <1>a DEF MarkWriteFails, MarkFails, Goto, Finish
    <2>4. QED
      BY <2>1, <2>2, <2>3 DEF Fresh, Writing
  <1>7. QED
    BY <1>1, <1>2, <1>3, <1>4, <1>5, <1>6 DEF LiveStep

LEMMA StorageFresh ==
  ASSUME ClaimsInv, OnlyEnqueued, CopiesFresh, NEW p \in Processes, StorageStep(p)
  PROVE  CopiesFresh'
  <1>a. /\ p \in Processes /\ pc[p] \in PlacesOf(p) /\ pc \in [Processes -> Places]
        /\ Recoverers \cap Entries = {} /\ Entries \subseteq Processes
        /\ Recoverers \subseteq Processes /\ Processes = Entries \cup Recoverers
        /\ Sentinels \subseteq Entries /\ marked \subseteq Entries
    BY Names, SentinelsAreEntries DEF ClaimsInv, PlaceInv, TypeOK, PlacesKept
  <1>b. AtWork(p) => JobOf(p) \in Enqueued /\ JobOf(p) \in Entries
    BY Working, Names DEF ClaimsInv, OnlyEnqueued, AtWork, JobOf, Processes
  <1>c. /\ files \in [Entries -> {Gone} \cup Files] /\ copy \in [Processes -> {Gone} \cup Files]
        /\ job \in [Recoverers -> {Gone} \cup Entries] /\ Gone \notin Files
    BY Names DEF ClaimsInv, PlaceInv, TypeOK
  <1>d. kind' = kind => Sentinels' = Sentinels
    BY KindFixed
  <1>e. p \notin Sentinels /\ JobOf(p) \in Guarded => Fresh(p)
    BY <1>a DEF CopiesFresh
  <1> SUFFICES ASSUME p \notin Sentinels, JobOf(p)' \in Guarded PROVE Fresh(p)'
    BY <1>a, StorageStepOf, OwnCopyEnough DEF ClaimsInv
  <1>1. CASE FailRead(p)
    <2>1. files' = files /\ JobOf(p)' = JobOf(p)
      BY <1>1 DEF FailRead, JobOf, disk
    <2>2. pc'[p] = "failWrite" => files[JobOf(p)] # Gone /\ copy'[p] = files[JobOf(p)]
      BY <1>1, <1>a, <1>c DEF FailRead, Goto, Finish
    <2>3. pc'[p] \in {"done", "next", "failWrite"}
      BY <1>1, <1>a DEF FailRead, Goto, Finish
    <2>4. QED
      BY <2>1, <2>2, <2>3 DEF Fresh, Writing
  <1>2. CASE FailWrite(p)
    BY <1>2, <1>a, <1>b, <1>c, <1>e DEF FailWrite, Fresh, Writing, Finish, Goto, AtWork,
         JobOf, PlacesOf
  <1>3. CASE AckRename(p)
    BY <1>3, <1>a, <1>b, <1>c, <1>e DEF AckRename, Fresh, Writing, Finish, Goto, AtWork,
         JobOf, PlacesOf
  <1>4. CASE AckUnlink(p)
    BY <1>4, <1>a, <1>b, <1>c, <1>e DEF AckUnlink, Fresh, Writing, Finish, Goto, AtWork,
         JobOf, PlacesOf
  <1>5. QED
    BY <1>1, <1>2, <1>3, <1>4 DEF StorageStep

LEMMA PlatformFresh ==
  ASSUME ClaimsInv, OnlyEnqueued, CopiesFresh, NEW p \in Processes, PlatformStep(p)
  PROVE  CopiesFresh'
  <1>a. /\ p \in Processes /\ pc[p] \in PlacesOf(p) /\ pc \in [Processes -> Places]
        /\ Recoverers \cap Entries = {} /\ Entries \subseteq Processes
        /\ Recoverers \subseteq Processes /\ Processes = Entries \cup Recoverers
        /\ Sentinels \subseteq Entries /\ marked \subseteq Entries
    BY Names, SentinelsAreEntries DEF ClaimsInv, PlaceInv, TypeOK, PlacesKept
  <1>b. AtWork(p) => JobOf(p) \in Enqueued /\ JobOf(p) \in Entries
    BY Working, Names DEF ClaimsInv, OnlyEnqueued, AtWork, JobOf, Processes
  <1>c. /\ files \in [Entries -> {Gone} \cup Files] /\ copy \in [Processes -> {Gone} \cup Files]
        /\ job \in [Recoverers -> {Gone} \cup Entries] /\ Gone \notin Files
    BY Names DEF ClaimsInv, PlaceInv, TypeOK
  <1>d. kind' = kind => Sentinels' = Sentinels
    BY KindFixed
  <1>e. p \notin Sentinels /\ JobOf(p) \in Guarded => Fresh(p)
    BY <1>a DEF CopiesFresh
  <1> SUFFICES ASSUME p \notin Sentinels, JobOf(p)' \in Guarded PROVE Fresh(p)'
    BY <1>a, PlatformStepOf, OwnCopyEnough DEF ClaimsInv
  <1>1. CASE Send(p)
    BY <1>1, <1>a, <1>b, <1>c, <1>e DEF Send, Fresh, Writing, Finish, Goto, AtWork, JobOf,
         PlacesOf
  <1>2. CASE SendSucceeds(p)
    BY <1>2, <1>a, <1>b, <1>c, <1>e DEF SendSucceeds, Fresh, Writing, Finish, Goto, AtWork,
         JobOf, PlacesOf
  <1>3. CASE SendFails(p)
    BY <1>3, <1>a, <1>b, <1>c, <1>e DEF SendFails, Fresh, Writing, Finish, Goto, AtWork,
         JobOf, PlacesOf
  <1>4. QED
    BY <1>1, <1>2, <1>3 DEF PlatformStep

LEMMA RecoveryFresh ==
  ASSUME ClaimsInv, OnlyEnqueued, CopiesFresh, NEW p \in Recoverers, RecoveryStep(p)
  PROVE  CopiesFresh'
  <1>a. /\ p \in Processes /\ pc[p] \in PlacesOf(p) /\ pc \in [Processes -> Places]
        /\ Recoverers \cap Entries = {} /\ Entries \subseteq Processes
        /\ Recoverers \subseteq Processes /\ Processes = Entries \cup Recoverers
        /\ Sentinels \subseteq Entries /\ marked \subseteq Entries
    BY Names, SentinelsAreEntries DEF ClaimsInv, PlaceInv, TypeOK, PlacesKept
  <1>b. AtWork(p) => JobOf(p) \in Enqueued /\ JobOf(p) \in Entries
    BY Working, Names DEF ClaimsInv, OnlyEnqueued, AtWork, JobOf, Processes
  <1>c. /\ files \in [Entries -> {Gone} \cup Files] /\ copy \in [Processes -> {Gone} \cup Files]
        /\ job \in [Recoverers -> {Gone} \cup Entries] /\ Gone \notin Files
    BY Names DEF ClaimsInv, PlaceInv, TypeOK
  <1>d. kind' = kind => Sentinels' = Sentinels
    BY KindFixed
  <1>e. p \notin Sentinels /\ JobOf(p) \in Guarded => Fresh(p)
    BY <1>a DEF CopiesFresh
  <1> SUFFICES ASSUME p \notin Sentinels, JobOf(p)' \in Guarded PROVE Fresh(p)'
    BY <1>a, RecoveryStepOf, OwnCopyEnough DEF ClaimsInv
  <1>1. CASE BeginPass(p)
    BY <1>1, <1>a, <1>b, <1>c, <1>e DEF BeginPass, Fresh, Writing, Finish, Goto, AtWork,
         JobOf, PlacesOf
  <1>2. CASE EndPass(p)
    BY <1>2, <1>a, <1>b, <1>c, <1>e DEF EndPass, Fresh, Writing, Finish, Goto, AtWork,
         JobOf, PlacesOf
  <1>3. CASE ClaimNext(p)
    BY <1>3, <1>a, <1>b, <1>c, <1>e DEF ClaimNext, Fresh, Writing, Finish, Goto, AtWork,
         JobOf, PlacesOf
  <1>4. CASE Reread(p)
    <2>1. files' = files /\ JobOf(p) = job[p] /\ JobOf(p)' = job[p]
      BY <1>4, <1>a DEF Reread, JobOf, disk
    <2>2. pc'[p] \in {"send", "reconcile"}
          => files[job[p]] # Gone /\ files[job[p]].retryCount < MaxRetries
      BY <1>4, <1>a DEF Reread, Goto, Finish
    <2>3. pc'[p] \in {"next", "moveSpent", "send", "reconcile"}
      BY <1>4, <1>a DEF Reread, Goto, Finish
    <2>4. QED
      BY <2>1, <2>2, <2>3 DEF Fresh, Writing
  <1>5. CASE Reconcile(p)
    <2>1. files' = files /\ JobOf(p) = job[p] /\ JobOf(p)' = job[p]
      BY <1>5, <1>a DEF Reconcile, JobOf, disk
    <2>2. pc[p] = "reconcile" /\ pc'[p] \in {"ack", "send", "fail", "move"}
      BY <1>5, <1>a DEF Reconcile, Goto
    <2>3. JobOf(p) \in Guarded
      BY <1>5, <2>1 DEF Reconcile
    <2>4. QED
      BY <1>a, <1>e, <2>1, <2>2, <2>3 DEF Fresh, Writing
  <1>6. CASE ReplayStops(p)
    BY <1>6, <1>a, <1>b, <1>c, <1>e DEF ReplayStops, Fresh, Writing, Finish, Goto, AtWork,
         JobOf, PlacesOf
  <1>7. CASE Move(p)
    BY <1>7, <1>a, <1>b, <1>c, <1>e DEF Move, Fresh, Writing, Finish, Goto, AtWork, JobOf,
         PlacesOf
  <1>8. CASE MoveSpent(p)
    BY <1>8, <1>a, <1>b, <1>c, <1>e DEF MoveSpent, Fresh, Writing, Finish, Goto, AtWork,
         JobOf, PlacesOf
  <1>9. QED
    BY <1>1, <1>2, <1>3, <1>4, <1>5, <1>6, <1>7, <1>8 DEF RecoveryStep

(***************************************************************************)
(* What was acked stays away                                               *)
(***************************************************************************)
\* What a step may do to acked entries, its own first.
AckStep(p) ==
  /\ acked' = acked \/ (AtWork(p) /\ acked' = acked \cup {JobOf(p)})
  /\ p \in Recoverers /\ ~AtWork(p) /\ AtWork(p)' => pc'[p] = "reread"
  /\ AtWork(p) => JobOf(p)' = JobOf(p)
  /\ p \notin Sentinels /\ JobOf(p) \in Guarded /\ AtWork(p) /\ JobOf(p) \in acked' =>
       /\ files'[JobOf(p)] = Gone
       /\ p \in Recoverers /\ AtWork(p)' => pc'[p] \in {"reread", "unlink"}

LEMMA AckStepEnough ==
  ASSUME ClaimsInv, OnlyEnqueued, AckedGone, NEW p \in Processes, StepOf(p), AckStep(p)
  PROVE  AckedGone'
  <1>1. Guarded' = Guarded /\ Guarded \subseteq Entries
    BY DEF StepOf, Guarded
  <1>2. acked \subseteq Enqueued /\ Recoverers \cap Entries = {} /\ Recoverers \subseteq Processes
    BY Names DEF OnlyEnqueued
  <1> SUFFICES ASSUME NEW e \in acked' \cap Guarded
               PROVE  /\ files'[e] = Gone
                      /\ \A q \in Recoverers : AtWork(q)' /\ job'[q] = e
                           => pc'[q] \in {"reread", "unlink"}
    BY <1>1 DEF AckedGone, Recoverers
  <1>3. p \in Sentinels => e # JobOf(p)
    BY SentinelsAreEntries DEF JobOf, Guarded
  <1>4. e \in acked \/ (AtWork(p) /\ e = JobOf(p))
    BY DEF AckStep
  <1>5. e \in acked => files[e] = Gone
    BY DEF AckedGone
  <1>6. files'[e] = Gone
    <2>1. CASE e = JobOf(p) /\ AtWork(p)
      BY <2>1, <1>3 DEF AckStep
    <2>2. CASE e = JobOf(p) /\ ~AtWork(p)
      BY <2>2, <1>2, <1>4, <1>5 DEF StepOf, JobOf
    <2>3. CASE e # JobOf(p)
      BY <2>3, <1>1, <1>4, <1>5 DEF StepOf
    <2>4. QED
      BY <2>1, <2>2, <2>3
  <1>7. ASSUME NEW q \in Recoverers, AtWork(q)', job'[q] = e
        PROVE  pc'[q] \in {"reread", "unlink"}
    <2>1. JobOf(q)' = e /\ q \notin Sentinels /\ q \in Processes
      BY <1>2, <1>7, SentinelsAreEntries DEF JobOf
    <2>2. CASE q = p
      BY <2>1, <2>2, <1>3, <1>7 DEF AckStep
    <2>3. CASE q # p
      <3>1. /\ AtWork(q) /\ pc'[q] = pc[q] /\ JobOf(q) = e
            /\ p \notin Sentinels /\ AtWork(p) => JobOf(p) # e
        BY <2>1, <2>3, <1>7, Elsewhere
      <3>2. e \in acked
        BY <3>1, <1>3, <1>4
      <3>3. job[q] = e
        BY <3>1, <1>2 DEF JobOf
      <3>4. QED
        BY <3>1, <3>2, <3>3 DEF AckedGone
    <2>4. QED
      BY <2>2, <2>3
  <1>8. QED
    BY <1>6, <1>7

LEMMA LiveAckedGone ==
  ASSUME ClaimsInv, OnlyEnqueued, CopiesFresh, AckedGone, NEW p \in Entries, LiveStep(p)
  PROVE  AckedGone'
  <1>a. /\ p \in Processes /\ pc[p] \in PlacesOf(p) /\ pc \in [Processes -> Places]
        /\ Recoverers \cap Entries = {} /\ Entries \subseteq Processes
        /\ Recoverers \subseteq Processes /\ Processes = Entries \cup Recoverers
        /\ Sentinels \subseteq Entries /\ marked \subseteq Entries
    BY Names, SentinelsAreEntries DEF ClaimsInv, PlaceInv, TypeOK, PlacesKept
  <1>b. AtWork(p) => JobOf(p) \in Enqueued /\ JobOf(p) \in Entries
    BY Working, Names DEF ClaimsInv, OnlyEnqueued, AtWork, JobOf, Processes
  <1>c. /\ files \in [Entries -> {Gone} \cup Files] /\ copy \in [Processes -> {Gone} \cup Files]
        /\ job \in [Recoverers -> {Gone} \cup Entries] /\ Gone \notin Files
    BY Names DEF ClaimsInv, PlaceInv, TypeOK
  <1>d. p \notin Sentinels /\ JobOf(p) \in Guarded => Fresh(p)
    BY <1>a DEF CopiesFresh
  <1>e. /\ JobOf(p) \in acked \cap Guarded => files[JobOf(p)] = Gone
        /\ p \in Recoverers /\ AtWork(p) /\ JobOf(p) \in acked \cap Guarded
             => pc[p] \in {"reread", "unlink"}
    BY <1>a DEF AckedGone, JobOf
  <1> SUFFICES AckStep(p)
    BY <1>a, LiveStepOf, AckStepEnough DEF ClaimsInv
  <1>1. CASE EnqueueDelivery(p)
    BY <1>1, <1>a, <1>b, <1>c, <1>d, <1>e DEF EnqueueDelivery, AckStep, Fresh, Writing,
         Finish, Goto, AtWork, JobOf, PlacesOf
  <1>2. CASE LiveClaim(p)
    BY <1>2, <1>a, <1>b, <1>c, <1>d, <1>e DEF LiveClaim, AckStep, Fresh, Writing, Finish,
         Goto, AtWork, JobOf, PlacesOf
  <1>3. CASE LivePrepare(p)
    <2>1. UNCHANGED <<files, acked, job>> /\ p \notin Recoverers
      BY <1>3, <1>a DEF LivePrepare, disk
    <2>2. QED
      BY <1>a, <1>e, <2>1 DEF AckStep, JobOf
  <1>4. CASE MarkRead(p)
    <2>1. UNCHANGED <<files, acked, job>> /\ p \notin Recoverers
      BY <1>4, <1>a DEF MarkRead, MarkFails, disk
    <2>2. QED
      BY <1>a, <1>e, <2>1 DEF AckStep, JobOf
  <1>5. CASE MarkWrite(p)
    BY <1>5, <1>a, <1>b, <1>c, <1>d, <1>e DEF MarkWrite, AckStep, Fresh, Writing, Finish,
         Goto, AtWork, JobOf, PlacesOf
  <1>6. CASE MarkWriteFails(p)
    <2>1. UNCHANGED <<files, acked, job>> /\ p \notin Recoverers
      BY <1>6, <1>a DEF MarkWriteFails, MarkFails, disk
    <2>2. QED
      BY <1>a, <1>e, <2>1 DEF AckStep, JobOf
  <1>7. QED
    BY <1>1, <1>2, <1>3, <1>4, <1>5, <1>6 DEF LiveStep

LEMMA StorageAckedGone ==
  ASSUME ClaimsInv, OnlyEnqueued, CopiesFresh, AckedGone, NEW p \in Processes, StorageStep(p)
  PROVE  AckedGone'
  <1>a. /\ p \in Processes /\ pc[p] \in PlacesOf(p) /\ pc \in [Processes -> Places]
        /\ Recoverers \cap Entries = {} /\ Entries \subseteq Processes
        /\ Recoverers \subseteq Processes /\ Processes = Entries \cup Recoverers
        /\ Sentinels \subseteq Entries /\ marked \subseteq Entries
    BY Names, SentinelsAreEntries DEF ClaimsInv, PlaceInv, TypeOK, PlacesKept
  <1>b. AtWork(p) => JobOf(p) \in Enqueued /\ JobOf(p) \in Entries
    BY Working, Names DEF ClaimsInv, OnlyEnqueued, AtWork, JobOf, Processes
  <1>c. /\ files \in [Entries -> {Gone} \cup Files] /\ copy \in [Processes -> {Gone} \cup Files]
        /\ job \in [Recoverers -> {Gone} \cup Entries] /\ Gone \notin Files
    BY Names DEF ClaimsInv, PlaceInv, TypeOK
  <1>d. p \notin Sentinels /\ JobOf(p) \in Guarded => Fresh(p)
    BY <1>a DEF CopiesFresh
  <1>e. /\ JobOf(p) \in acked \cap Guarded => files[JobOf(p)] = Gone
        /\ p \in Recoverers /\ AtWork(p) /\ JobOf(p) \in acked \cap Guarded
             => pc[p] \in {"reread", "unlink"}
    BY <1>a DEF AckedGone, JobOf
  <1> SUFFICES AckStep(p)
    BY <1>a, StorageStepOf, AckStepEnough DEF ClaimsInv
  <1>1. CASE FailRead(p)
    <2>1. UNCHANGED <<files, acked, job>> /\ AtWork(p) /\ pc[p] \notin {"reread", "unlink"}
      BY <1>1 DEF FailRead, AtWork, disk
    <2>2. QED
      BY <1>a, <1>e, <2>1 DEF AckStep, JobOf
  <1>2. CASE FailWrite(p)
    BY <1>2, <1>a, <1>b, <1>c, <1>d, <1>e DEF FailWrite, AckStep, Fresh, Writing, Finish,
         Goto, AtWork, JobOf, PlacesOf
  <1>3. CASE AckRename(p)
    BY <1>3, <1>a, <1>b, <1>c, <1>d, <1>e DEF AckRename, AckStep, Fresh, Writing, Finish,
         Goto, AtWork, JobOf, PlacesOf
  <1>4. CASE AckUnlink(p)
    BY <1>4, <1>a, <1>b, <1>c, <1>d, <1>e DEF AckUnlink, AckStep, Fresh, Writing, Finish,
         Goto, AtWork, JobOf, PlacesOf
  <1>5. QED
    BY <1>1, <1>2, <1>3, <1>4 DEF StorageStep

LEMMA PlatformAckedGone ==
  ASSUME ClaimsInv, OnlyEnqueued, CopiesFresh, AckedGone, NEW p \in Processes, PlatformStep(p)
  PROVE  AckedGone'
  <1>a. /\ p \in Processes /\ pc[p] \in PlacesOf(p) /\ pc \in [Processes -> Places]
        /\ Recoverers \cap Entries = {} /\ Entries \subseteq Processes
        /\ Recoverers \subseteq Processes /\ Processes = Entries \cup Recoverers
        /\ Sentinels \subseteq Entries /\ marked \subseteq Entries
    BY Names, SentinelsAreEntries DEF ClaimsInv, PlaceInv, TypeOK, PlacesKept
  <1>b. AtWork(p) => JobOf(p) \in Enqueued /\ JobOf(p) \in Entries
    BY Working, Names DEF ClaimsInv, OnlyEnqueued, AtWork, JobOf, Processes
  <1>c. /\ files \in [Entries -> {Gone} \cup Files] /\ copy \in [Processes -> {Gone} \cup Files]
        /\ job \in [Recoverers -> {Gone} \cup Entries] /\ Gone \notin Files
    BY Names DEF ClaimsInv, PlaceInv, TypeOK
  <1>d. p \notin Sentinels /\ JobOf(p) \in Guarded => Fresh(p)
    BY <1>a DEF CopiesFresh
  <1>e. /\ JobOf(p) \in acked \cap Guarded => files[JobOf(p)] = Gone
        /\ p \in Recoverers /\ AtWork(p) /\ JobOf(p) \in acked \cap Guarded
             => pc[p] \in {"reread", "unlink"}
    BY <1>a DEF AckedGone, JobOf
  <1> SUFFICES AckStep(p)
    BY <1>a, PlatformStepOf, AckStepEnough DEF ClaimsInv
  <1>1. CASE Send(p)
    <2>1. UNCHANGED <<files, acked, job>> /\ AtWork(p) /\ pc[p] \notin {"reread", "unlink"}
      BY <1>1 DEF Send, AtWork, disk
    <2>2. QED
      BY <1>a, <1>e, <2>1 DEF AckStep, JobOf
  <1>2. CASE SendSucceeds(p)
    <2>1. UNCHANGED <<files, acked, job>> /\ AtWork(p) /\ pc[p] \notin {"reread", "unlink"}
      BY <1>2 DEF SendSucceeds, AtWork, disk
    <2>2. QED
      BY <1>a, <1>e, <2>1 DEF AckStep, JobOf
  <1>3. CASE SendFails(p)
    <2>1. UNCHANGED <<files, acked, job>> /\ AtWork(p) /\ pc[p] \notin {"reread", "unlink"}
      BY <1>3 DEF SendFails, AtWork, disk
    <2>2. QED
      BY <1>a, <1>e, <2>1 DEF AckStep, JobOf
  <1>4. QED
    BY <1>1, <1>2, <1>3 DEF PlatformStep

LEMMA RecoveryAckedGone ==
  ASSUME ClaimsInv, OnlyEnqueued, CopiesFresh, AckedGone, NEW p \in Recoverers, RecoveryStep(p)
  PROVE  AckedGone'
  <1>a. /\ p \in Processes /\ pc[p] \in PlacesOf(p) /\ pc \in [Processes -> Places]
        /\ Recoverers \cap Entries = {} /\ Entries \subseteq Processes
        /\ Recoverers \subseteq Processes /\ Processes = Entries \cup Recoverers
        /\ Sentinels \subseteq Entries /\ marked \subseteq Entries
    BY Names, SentinelsAreEntries DEF ClaimsInv, PlaceInv, TypeOK, PlacesKept
  <1>b. AtWork(p) => JobOf(p) \in Enqueued /\ JobOf(p) \in Entries
    BY Working, Names DEF ClaimsInv, OnlyEnqueued, AtWork, JobOf, Processes
  <1>c. /\ files \in [Entries -> {Gone} \cup Files] /\ copy \in [Processes -> {Gone} \cup Files]
        /\ job \in [Recoverers -> {Gone} \cup Entries] /\ Gone \notin Files
    BY Names DEF ClaimsInv, PlaceInv, TypeOK
  <1>d. p \notin Sentinels /\ JobOf(p) \in Guarded => Fresh(p)
    BY <1>a DEF CopiesFresh
  <1>e. /\ JobOf(p) \in acked \cap Guarded => files[JobOf(p)] = Gone
        /\ p \in Recoverers /\ AtWork(p) /\ JobOf(p) \in acked \cap Guarded
             => pc[p] \in {"reread", "unlink"}
    BY <1>a DEF AckedGone, JobOf
  <1> SUFFICES AckStep(p)
    BY <1>a, RecoveryStepOf, AckStepEnough DEF ClaimsInv
  <1>1. CASE BeginPass(p)
    BY <1>1, <1>a, <1>b, <1>c, <1>d, <1>e DEF BeginPass, AckStep, Fresh, Writing, Finish,
         Goto, AtWork, JobOf, PlacesOf
  <1>2. CASE EndPass(p)
    BY <1>2, <1>a, <1>b, <1>c, <1>d, <1>e DEF EndPass, AckStep, Fresh, Writing, Finish,
         Goto, AtWork, JobOf, PlacesOf
  <1>3. CASE ClaimNext(p)
    BY <1>3, <1>a, <1>b, <1>c, <1>d, <1>e DEF ClaimNext, AckStep, Fresh, Writing, Finish,
         Goto, AtWork, JobOf, PlacesOf
  <1>4. CASE Reread(p)
    <2>1. UNCHANGED <<files, acked, job>> /\ AtWork(p) /\ JobOf(p) = job[p]
      BY <1>4, <1>a DEF Reread, AtWork, JobOf, disk
    <2>2. files[JobOf(p)] = Gone => ~AtWork(p)'
      BY <1>4, <1>a, <2>1 DEF Reread, Finish, Goto, AtWork
    <2>3. QED
      BY <1>a, <1>e, <2>1, <2>2 DEF AckStep, JobOf
  <1>5. CASE Reconcile(p)
    BY <1>5, <1>a, <1>b, <1>c, <1>d, <1>e DEF Reconcile, AckStep, Fresh, Writing, Finish,
         Goto, AtWork, JobOf, PlacesOf
  <1>6. CASE ReplayStops(p)
    BY <1>6, <1>a, <1>b, <1>c, <1>d, <1>e DEF ReplayStops, AckStep, Fresh, Writing, Finish,
         Goto, AtWork, JobOf, PlacesOf
  <1>7. CASE Move(p)
    BY <1>7, <1>a, <1>b, <1>c, <1>d, <1>e DEF Move, AckStep, Fresh, Writing, Finish, Goto,
         AtWork, JobOf, PlacesOf
  <1>8. CASE MoveSpent(p)
    BY <1>8, <1>a, <1>b, <1>c, <1>d, <1>e DEF MoveSpent, AckStep, Fresh, Writing, Finish,
         Goto, AtWork, JobOf, PlacesOf
  <1>9. QED
    BY <1>1, <1>2, <1>3, <1>4, <1>5, <1>6, <1>7, <1>8 DEF RecoveryStep

(***************************************************************************)
(* The mark stays, and what may have been sent is not sent again           *)
(***************************************************************************)
\* What a step may do to marked and suspect entries, its own first.
MarkStep(p) ==
  /\ \/ suspect' \subseteq suspect
     \/ p \in marked /\ AtWork(p) /\ suspect' = suspect \cup {JobOf(p)}
  /\ marked' \subseteq marked \cup {JobOf(p)}
  /\ JobOf(p) \in (marked' \cup suspect') \ rewritten =>
       /\ JobOf(p) \notin Sentinels
       /\ files'[JobOf(p)] # Gone => files'[JobOf(p)].recoveryState # "none"
  /\ p \in Recoverers /\ pc'[p] \in {"send", "sending"} =>
       JobOf(p)' \notin suspect' \ rewritten

LEMMA MarkStepEnough ==
  ASSUME ClaimsInv, OnlyEnqueued, MarkInv, NEW p \in Processes, StepOf(p), MarkStep(p)
  PROVE  MarkInv'
  <1>1. Guarded' = Guarded /\ Sentinels' = Sentinels /\ rewritten' = rewritten
    BY DEF StepOf, Guarded
  <1>2. /\ Recoverers \cap Entries = {} /\ Recoverers \subseteq Processes
        /\ marked \cup suspect \subseteq Entries
        /\ marked \cap Sentinels = {}
    BY Names DEF ClaimsInv, PlaceInv, TypeOK, PlacesKept
  <1>3. \A e \in (marked' \cup suspect') \ {JobOf(p)} : e \in marked \cup suspect
    BY DEF MarkStep
  <1>4. MarkKept'
    <2> SUFFICES ASSUME NEW e \in (marked' \cup suspect') \ rewritten
                 PROVE  /\ e \notin Sentinels
                        /\ files'[e] # Gone => files'[e].recoveryState # "none"
      BY <1>1 DEF MarkKept
    <2>1. CASE e = JobOf(p)
      BY <2>1 DEF MarkStep
    <2>2. CASE e # JobOf(p)
      <3>1. e \in (marked \cup suspect) \ rewritten /\ files'[e] = files[e]
        BY <1>2, <1>3, <2>2 DEF StepOf
      <3>2. QED
        BY <3>1 DEF MarkInv, MarkKept
    <2>3. QED
      BY <2>1, <2>2
  <1>5. SuspectNotSent'
    <2> SUFFICES ASSUME NEW e \in suspect' \ rewritten, NEW q \in Recoverers,
                        pc'[q] \in {"send", "sending"}, job'[q] = e
                 PROVE  FALSE
      BY <1>1 DEF SuspectNotSent, Recoverers
    <2>1. JobOf(q)' = e /\ q \notin Sentinels /\ q \in Processes /\ AtWork(q)'
      BY <1>2, SentinelsAreEntries DEF JobOf, AtWork
    <2>2. q # p
      BY <2>1 DEF MarkStep
    <2>3. e \in Guarded
      <3>1. e \notin Sentinels
        BY <1>1, <1>4 DEF MarkKept
      <3>2. e \in Entries
        <4>1. CASE e \in suspect
          BY <4>1, <1>2
        <4>2. CASE e \notin suspect
          BY <4>2, <1>2, Working DEF MarkStep, ClaimsInv
        <4>3. QED
          BY <4>1, <4>2
      <3>3. QED
        BY <3>1, <3>2 DEF Guarded
    <2>4. /\ pc'[q] = pc[q] /\ JobOf(q) = e
          /\ p \notin Sentinels /\ AtWork(p) => JobOf(p) # e
      BY <2>1, <2>2, <2>3, Elsewhere
    <2>5. e \in suspect
      BY <1>2, <2>4 DEF MarkStep
    <2>6. job[q] = e
      BY <1>2, <2>4 DEF JobOf
    <2>7. QED
      BY <2>4, <2>5, <2>6 DEF MarkInv, SuspectNotSent
  <1>6. QED
    BY <1>4, <1>5 DEF MarkInv

LEMMA LiveMarks ==
  ASSUME ClaimsInv, OnlyEnqueued, CopiesFresh, MarkInv, NEW p \in Entries, LiveStep(p)
  PROVE  MarkInv'
  <1>a. /\ p \in Processes /\ pc[p] \in PlacesOf(p) /\ pc \in [Processes -> Places]
        /\ Recoverers \cap Entries = {} /\ Entries \subseteq Processes
        /\ Recoverers \subseteq Processes /\ Processes = Entries \cup Recoverers
        /\ Sentinels \subseteq Entries /\ marked \subseteq Entries
    BY Names, SentinelsAreEntries DEF ClaimsInv, PlaceInv, TypeOK, PlacesKept
  <1>b. AtWork(p) => JobOf(p) \in Enqueued /\ JobOf(p) \in Entries
    BY Working, Names DEF ClaimsInv, OnlyEnqueued, AtWork, JobOf, Processes
  <1>c. /\ files \in [Entries -> {Gone} \cup Files] /\ copy \in [Processes -> {Gone} \cup Files]
        /\ job \in [Recoverers -> {Gone} \cup Entries] /\ Gone \notin Files
    BY Names DEF ClaimsInv, PlaceInv, TypeOK
  <1>d. p \notin Sentinels /\ JobOf(p) \in Guarded => Fresh(p)
    BY <1>a DEF CopiesFresh
  <1>e. JobOf(p) \in (marked \cup suspect) \ rewritten =>
          /\ JobOf(p) \notin Sentinels
          /\ files[JobOf(p)] # Gone => files[JobOf(p)].recoveryState # "none"
    BY DEF MarkInv, MarkKept
  <1>f. p \in Recoverers /\ pc[p] \in {"send", "sending"} => JobOf(p) \notin suspect \ rewritten
    BY <1>a DEF MarkInv, SuspectNotSent, JobOf
  <1> SUFFICES MarkStep(p)
    BY <1>a, LiveStepOf, MarkStepEnough DEF ClaimsInv
  <1>1. CASE EnqueueDelivery(p)
    <2>1. p \notin Enqueued /\ JobOf(p) = p
      BY <1>1 DEF EnqueueDelivery, OnlyEnqueued, JobOf
    <2>2. p \notin marked \cup suspect
      BY <2>1 DEF OnlyEnqueued
    <2>3. QED
      BY <1>1, <1>a, <2>1, <2>2 DEF EnqueueDelivery, MarkStep, history
  <1>2. CASE LiveClaim(p)
    BY <1>2, <1>a, <1>b, <1>c, <1>e, <1>f DEF LiveClaim, MarkStep, Finish, Goto, AtWork,
         JobOf, PlacesOf, disk, history
  <1>3. CASE LivePrepare(p)
    BY <1>3, <1>a, <1>b, <1>c, <1>e, <1>f DEF LivePrepare, MarkStep, Finish, Goto, AtWork,
         JobOf, PlacesOf, disk, history
  <1>4. CASE MarkRead(p)
    BY <1>4, <1>a, <1>b, <1>c, <1>e, <1>f DEF MarkRead, MarkFails, MarkStep, Finish, Goto, AtWork,
         JobOf, PlacesOf, disk, history
  <1>5. CASE MarkWrite(p)
    <2>1. copy[p] \in Files /\ JobOf(p) = p /\ p \notin Sentinels /\ p \notin Recoverers
      BY <1>5, <1>a, <1>c DEF MarkWrite, JobOf, PlacesOf, Writing, ClaimsInv, PlaceInv, PlacesKept
    <2>2. PICK state \in SendStates \ {"none"} :
            files' = [files EXCEPT ![p] = [copy[p] EXCEPT !.recoveryState = state]]
      BY <1>5 DEF MarkWrite, SendStates
    <2>3. files'[p].recoveryState # "none"
      BY <1>c, <2>1, <2>2 DEF Files
    <2>4. QED
      BY <1>5, <2>1, <2>3 DEF MarkWrite, MarkStep, history
  <1>6. CASE MarkWriteFails(p)
    BY <1>6, <1>a, <1>b, <1>c, <1>e, <1>f DEF MarkWriteFails, MarkFails, MarkStep, Finish, Goto, AtWork,
         JobOf, PlacesOf, disk, history
  <1>7. QED
    BY <1>1, <1>2, <1>3, <1>4, <1>5, <1>6 DEF LiveStep

LEMMA StorageMarks ==
  ASSUME ClaimsInv, OnlyEnqueued, CopiesFresh, MarkInv, NEW p \in Processes, StorageStep(p)
  PROVE  MarkInv'
  <1>a. /\ p \in Processes /\ pc[p] \in PlacesOf(p) /\ pc \in [Processes -> Places]
        /\ Recoverers \cap Entries = {} /\ Entries \subseteq Processes
        /\ Recoverers \subseteq Processes /\ Processes = Entries \cup Recoverers
        /\ Sentinels \subseteq Entries /\ marked \subseteq Entries
    BY Names, SentinelsAreEntries DEF ClaimsInv, PlaceInv, TypeOK, PlacesKept
  <1>b. AtWork(p) => JobOf(p) \in Enqueued /\ JobOf(p) \in Entries
    BY Working, Names DEF ClaimsInv, OnlyEnqueued, AtWork, JobOf, Processes
  <1>c. /\ files \in [Entries -> {Gone} \cup Files] /\ copy \in [Processes -> {Gone} \cup Files]
        /\ job \in [Recoverers -> {Gone} \cup Entries] /\ Gone \notin Files
    BY Names DEF ClaimsInv, PlaceInv, TypeOK
  <1>d. p \notin Sentinels /\ JobOf(p) \in Guarded => Fresh(p)
    BY <1>a DEF CopiesFresh
  <1>e. JobOf(p) \in (marked \cup suspect) \ rewritten =>
          /\ JobOf(p) \notin Sentinels
          /\ files[JobOf(p)] # Gone => files[JobOf(p)].recoveryState # "none"
    BY DEF MarkInv, MarkKept
  <1>f. p \in Recoverers /\ pc[p] \in {"send", "sending"} => JobOf(p) \notin suspect \ rewritten
    BY <1>a DEF MarkInv, SuspectNotSent, JobOf
  <1> SUFFICES MarkStep(p)
    BY <1>a, StorageStepOf, MarkStepEnough DEF ClaimsInv
  <1>1. CASE FailRead(p)
    BY <1>1, <1>a, <1>b, <1>c, <1>e, <1>f DEF FailRead, MarkStep, Finish, Goto, AtWork,
         JobOf, PlacesOf, disk, history
  <1>2. CASE FailWrite(p)
    <2>1. JobOf(p) \in Entries /\ copy[p] \in Files
      BY <1>2, <1>a, <1>b, <1>c DEF FailWrite, AtWork, Writing, ClaimsInv, PlaceInv, PlacesKept
    <2>2. /\ UNCHANGED <<suspect, marked>> /\ pc'[p] \notin {"send", "sending"}
          /\ files' = files \/ files' = [files EXCEPT ![JobOf(p)] = OneRetryMore(copy[p])]
      BY <1>2, <1>a DEF FailWrite, Finish, Goto, history
    <2>3. JobOf(p) \in (marked \cup suspect) \ rewritten
          => OneRetryMore(copy[p]).recoveryState # "none"
      <3> SUFFICES ASSUME JobOf(p) \in (marked \cup suspect) \ rewritten
                   PROVE  OneRetryMore(copy[p]).recoveryState # "none"
        OBVIOUS
      <3>1. JobOf(p) \in Guarded /\ p \notin Sentinels
        BY <1>a, <1>e, <2>1 DEF Guarded, JobOf
      <3>2. files[JobOf(p)] # Gone /\ copy[p] = files[JobOf(p)]
        BY <1>2, <1>d, <3>1 DEF FailWrite, Fresh, Writing
      <3>3. QED
        BY <1>e, <2>1, <3>2, RetryIsFile
    <2>4. JobOf(p) \in (marked \cup suspect) \ rewritten /\ files'[JobOf(p)] # Gone
          => files'[JobOf(p)].recoveryState # "none"
      BY <1>c, <1>e, <2>1, <2>2, <2>3
    <2>5. QED
      BY <1>e, <2>2, <2>4 DEF MarkStep
  <1>3. CASE AckRename(p)
    BY <1>3, <1>a, <1>b, <1>c, <1>e, <1>f DEF AckRename, MarkStep, Finish, Goto, AtWork,
         JobOf, PlacesOf, disk, history
  <1>4. CASE AckUnlink(p)
    BY <1>4, <1>a, <1>b, <1>c, <1>e, <1>f DEF AckUnlink, MarkStep, Finish, Goto, AtWork,
         JobOf, PlacesOf, disk, history
  <1>5. QED
    BY <1>1, <1>2, <1>3, <1>4 DEF StorageStep

LEMMA PlatformMarks ==
  ASSUME ClaimsInv, OnlyEnqueued, CopiesFresh, MarkInv, NEW p \in Processes, PlatformStep(p)
  PROVE  MarkInv'
  <1>a. /\ p \in Processes /\ pc[p] \in PlacesOf(p) /\ pc \in [Processes -> Places]
        /\ Recoverers \cap Entries = {} /\ Entries \subseteq Processes
        /\ Recoverers \subseteq Processes /\ Processes = Entries \cup Recoverers
        /\ Sentinels \subseteq Entries /\ marked \subseteq Entries
    BY Names, SentinelsAreEntries DEF ClaimsInv, PlaceInv, TypeOK, PlacesKept
  <1>b. AtWork(p) => JobOf(p) \in Enqueued /\ JobOf(p) \in Entries
    BY Working, Names DEF ClaimsInv, OnlyEnqueued, AtWork, JobOf, Processes
  <1>c. /\ files \in [Entries -> {Gone} \cup Files] /\ copy \in [Processes -> {Gone} \cup Files]
        /\ job \in [Recoverers -> {Gone} \cup Entries] /\ Gone \notin Files
    BY Names DEF ClaimsInv, PlaceInv, TypeOK
  <1>d. p \notin Sentinels /\ JobOf(p) \in Guarded => Fresh(p)
    BY <1>a DEF CopiesFresh
  <1>e. JobOf(p) \in (marked \cup suspect) \ rewritten =>
          /\ JobOf(p) \notin Sentinels
          /\ files[JobOf(p)] # Gone => files[JobOf(p)].recoveryState # "none"
    BY DEF MarkInv, MarkKept
  <1>f. p \in Recoverers /\ pc[p] \in {"send", "sending"} => JobOf(p) \notin suspect \ rewritten
    BY <1>a DEF MarkInv, SuspectNotSent, JobOf
  <1> SUFFICES MarkStep(p)
    BY <1>a, PlatformStepOf, MarkStepEnough DEF ClaimsInv
  <1>1. CASE Send(p)
    BY <1>1, <1>a, <1>b, <1>c, <1>e, <1>f DEF Send, MarkStep, Finish, Goto, AtWork, JobOf,
         PlacesOf, disk, history
  <1>2. CASE SendSucceeds(p)
    BY <1>2, <1>a, <1>b, <1>c, <1>e, <1>f DEF SendSucceeds, MarkStep, Finish, Goto, AtWork,
         JobOf, PlacesOf, disk, history
  <1>3. CASE SendFails(p)
    BY <1>3, <1>a, <1>b, <1>c, <1>e, <1>f DEF SendFails, MarkStep, Finish, Goto, AtWork,
         JobOf, PlacesOf, disk, history
  <1>4. QED
    BY <1>1, <1>2, <1>3 DEF PlatformStep

LEMMA RecoveryMarks ==
  ASSUME ClaimsInv, OnlyEnqueued, CopiesFresh, MarkInv, NEW p \in Recoverers, RecoveryStep(p)
  PROVE  MarkInv'
  <1>a. /\ p \in Processes /\ pc[p] \in PlacesOf(p) /\ pc \in [Processes -> Places]
        /\ Recoverers \cap Entries = {} /\ Entries \subseteq Processes
        /\ Recoverers \subseteq Processes /\ Processes = Entries \cup Recoverers
        /\ Sentinels \subseteq Entries /\ marked \subseteq Entries
    BY Names, SentinelsAreEntries DEF ClaimsInv, PlaceInv, TypeOK, PlacesKept
  <1>b. AtWork(p) => JobOf(p) \in Enqueued /\ JobOf(p) \in Entries
    BY Working, Names DEF ClaimsInv, OnlyEnqueued, AtWork, JobOf, Processes
  <1>c. /\ files \in [Entries -> {Gone} \cup Files] /\ copy \in [Processes -> {Gone} \cup Files]
        /\ job \in [Recoverers -> {Gone} \cup Entries] /\ Gone \notin Files
    BY Names DEF ClaimsInv, PlaceInv, TypeOK
  <1>d. p \notin Sentinels /\ JobOf(p) \in Guarded => Fresh(p)
    BY <1>a DEF CopiesFresh
  <1>e. JobOf(p) \in (marked \cup suspect) \ rewritten =>
          /\ JobOf(p) \notin Sentinels
          /\ files[JobOf(p)] # Gone => files[JobOf(p)].recoveryState # "none"
    BY DEF MarkInv, MarkKept
  <1>f. p \in Recoverers /\ pc[p] \in {"send", "sending"} => JobOf(p) \notin suspect \ rewritten
    BY <1>a DEF MarkInv, SuspectNotSent, JobOf
  <1> SUFFICES MarkStep(p)
    BY <1>a, RecoveryStepOf, MarkStepEnough DEF ClaimsInv
  <1>1. CASE BeginPass(p)
    BY <1>1, <1>a, <1>b, <1>c, <1>e, <1>f DEF BeginPass, MarkStep, Finish, Goto, AtWork,
         JobOf, PlacesOf, disk, history
  <1>2. CASE EndPass(p)
    BY <1>2, <1>a, <1>b, <1>c, <1>e, <1>f DEF EndPass, MarkStep, Finish, Goto, AtWork,
         JobOf, PlacesOf, disk, history
  <1>3. CASE ClaimNext(p)
    BY <1>3, <1>a, <1>b, <1>c, <1>e, <1>f DEF ClaimNext, MarkStep, Finish, Goto, AtWork,
         JobOf, PlacesOf, disk, history
  <1>4. CASE Reread(p)
    <2>1. UNCHANGED <<files, suspect, marked>> /\ JobOf(p) = job[p] /\ JobOf(p)' = job[p]
      BY <1>4, <1>a DEF Reread, JobOf, disk, history
    <2>2. pc'[p] \in {"send", "sending"}
          => files[JobOf(p)] # Gone /\ files[JobOf(p)].recoveryState = "none"
      BY <1>4, <1>a, <2>1 DEF Reread, Finish, Goto
    <2>3. QED
      BY <1>e, <2>1, <2>2 DEF MarkStep
  <1>5. CASE Reconcile(p)
    BY <1>5, <1>a, <1>b, <1>c, <1>e, <1>f DEF Reconcile, MarkStep, Finish, Goto, AtWork,
         JobOf, PlacesOf, disk, history
  <1>6. CASE ReplayStops(p)
    BY <1>6, <1>a, <1>b, <1>c, <1>e, <1>f DEF ReplayStops, MarkStep, Finish, Goto, AtWork,
         JobOf, PlacesOf, disk, history
  <1>7. CASE Move(p)
    BY <1>7, <1>a, <1>b, <1>c, <1>e, <1>f DEF Move, MarkStep, Finish, Goto, AtWork, JobOf,
         PlacesOf, disk, history
  <1>8. CASE MoveSpent(p)
    BY <1>8, <1>a, <1>b, <1>c, <1>e, <1>f DEF MoveSpent, MarkStep, Finish, Goto, AtWork,
         JobOf, PlacesOf, disk, history
  <1>9. QED
    BY <1>1, <1>2, <1>3, <1>4, <1>5, <1>6, <1>7, <1>8 DEF RecoveryStep

(***************************************************************************)
(* The file counts the replays                                             *)
(***************************************************************************)
\* What a process at work on an entry says of its count, before a step
Counted(p, e) ==
  /\ files[e] # Gone =>
       \/ replays[e] <= files[e].retryCount + crashes + faults
       \/ /\ replays[e] <= files[e].retryCount + 1 + crashes + faults
          /\ p \in Recoverers /\ Replaying(p, e)
  /\ replays[e] <= MaxRetries + crashes + faults

\* ... and after it.
ReplayStep(p) ==
  /\ replays' = replays \/ (AtWork(p) /\ replays' = [replays EXCEPT ![JobOf(p)] = @ + 1])
  /\ crashes' = crashes /\ faults' \in {faults, faults + 1}
  /\ AtWork(p) /\ p \notin Sentinels /\ JobOf(p) \in Guarded =>
       \A e \in Entries : e = JobOf(p) => Counted(p, e)'

LEMMA ReplayStepEnough ==
  ASSUME ClaimsInv, OnlyEnqueued, ReplayInv, NEW p \in Processes, StepOf(p), ReplayStep(p),
         files' \in [Entries -> {Gone} \cup Files]
  PROVE  ReplayInv'
  <1>1. Guarded' = Guarded /\ Guarded \subseteq Entries
    BY DEF StepOf, Guarded
  <1>2. /\ Recoverers \cap Entries = {} /\ Recoverers \subseteq Processes
        /\ replays \in [Entries -> Nat] /\ crashes \in Nat /\ faults \in Nat /\ MaxRetries \in Nat
        /\ files \in [Entries -> {Gone} \cup Files] /\ Gone \notin Files
    BY Names DEF ClaimsInv, PlaceInv, TypeOK
  <1> SUFFICES ASSUME NEW e \in Guarded
               PROVE  /\ files'[e] # Gone =>
                           \/ replays'[e] <= files'[e].retryCount + crashes' + faults'
                           \/ /\ replays'[e] <= files'[e].retryCount + 1 + crashes' + faults'
                              /\ \E q \in Recoverers : Replaying(q, e)'
                      /\ replays'[e] <= MaxRetries + crashes' + faults'
    BY <1>1 DEF ReplayInv, ReplaysCounted, RetriesBounded, Guarded, Recoverers
  <1>3. p \in Sentinels => e # JobOf(p)
    BY SentinelsAreEntries DEF JobOf, Guarded
  <1>4. CASE AtWork(p) /\ e = JobOf(p)
    <2>1. Counted(p, e)'
      BY <1>1, <1>3, <1>4 DEF ReplayStep
    <2>2. p \in Recoverers /\ Replaying(p, e)' => \E q \in Recoverers : Replaying(q, e)'
      OBVIOUS
    <2>3. QED
      BY <2>1, <2>2 DEF Counted, Recoverers
  <1>5. CASE ~(AtWork(p) /\ e = JobOf(p))
    <2>1. replays'[e] = replays[e] /\ crashes' = crashes /\ faults' \in {faults, faults + 1}
      BY <1>1, <1>2, <1>5 DEF ReplayStep
    <2>2. replays[e] <= MaxRetries + crashes + faults
      BY DEF ReplayInv, RetriesBounded, Guarded
    <2>3. ASSUME NEW q \in Recoverers, Replaying(q, e)
          PROVE  Replaying(q, e)'
      <3>1. q # p /\ q \in Processes
        BY <1>2, <1>5, <2>3 DEF Replaying, AtWork, JobOf
      <3>2. pc'[q] = pc[q] /\ job'[q] = job[q]
        BY <1>2, <3>1 DEF StepOf, JobOf
      <3>3. QED
        BY <2>3, <3>2 DEF Replaying
    <2>4. CASE files'[e] = files[e]
      <3>1. files[e] # Gone => files[e].retryCount \in Nat
        BY <1>1, <1>2 DEF Files
      <3>2. files[e] # Gone =>
              \/ replays[e] <= files[e].retryCount + crashes + faults
              \/ /\ replays[e] <= files[e].retryCount + 1 + crashes + faults
                 /\ \E q \in Recoverers : Replaying(q, e)'
        BY <2>3 DEF ReplayInv, ReplaysCounted
      <3>3. replays[e] \in Nat
        BY <1>1, <1>2
      <3>4. QED
        BY <1>2, <2>1, <2>2, <2>4, <3>1, <3>2, <3>3
    <2>5. CASE files'[e] # files[e]
      <3>1. e \notin Enqueued
        BY <1>1, <1>5, <2>5 DEF StepOf, JobOf
      <3>2. replays[e] = 0
        BY <1>1, <3>1 DEF OnlyEnqueued
      <3>3. files'[e] # Gone => files'[e].retryCount \in Nat
        BY <1>1 DEF Files
      <3>4. replays'[e] = 0 /\ crashes' \in Nat /\ faults' \in Nat
        BY <1>2, <2>1, <3>2
      <3>5. files'[e] # Gone => replays'[e] <= files'[e].retryCount + crashes' + faults'
        BY <3>3, <3>4
      <3>6. replays'[e] <= MaxRetries + crashes' + faults'
        <4>1. replays[e] \in Nat
          BY <1>1, <1>2
        <4>2. QED
          BY <1>2, <2>1, <2>2, <4>1
      <3>7. QED
        BY <3>5, <3>6
    <2>6. QED
      BY <2>4, <2>5
  <1>6. QED
    BY <1>4, <1>5

\* A step that writes no count.
PlainStep(p) ==
  /\ replays' = replays /\ crashes' = crashes /\ faults' \in {faults, faults + 1}
  /\ files' = files \/ files' = [files EXCEPT ![JobOf(p)] = Gone]
  /\ JobOf(p) \in Guarded /\ p \notin Sentinels /\ files' = files /\ files[JobOf(p)] # Gone
     /\ faults' = faults /\ p \in Recoverers =>
       \A e \in Entries : Replaying(p, e) => Replaying(p, e)'

LEMMA WorkerCounts ==
  ASSUME ClaimsInv, ReplayInv, NEW p \in Processes, AtWork(p), p \notin Sentinels,
         JobOf(p) \in Guarded
  PROVE  Counted(p, JobOf(p))
  <1>1. ASSUME NEW q \in Recoverers, Replaying(q, JobOf(p)) PROVE q = p
    <2>1. q \in Processes \ Sentinels /\ AtWork(q) /\ JobOf(q) = JobOf(p)
      BY <1>1, Names, SentinelsAreEntries DEF Replaying, AtWork, JobOf
    <2>2. QED
      BY <2>1 DEF ClaimsInv, ClaimsKept, OneWorker
  <1>2. QED
    BY <1>1 DEF Counted, ReplayInv, ReplaysCounted, RetriesBounded, Guarded

LEMMA PlainStepCounts ==
  ASSUME ClaimsInv, ReplayInv, NEW p \in Processes, PlainStep(p),
         files \in [Entries -> {Gone} \cup Files]
  PROVE  ReplayStep(p)
  <1>1. /\ replays \in [Entries -> Nat] /\ crashes \in Nat /\ faults \in Nat
        /\ MaxRetries \in Nat
    BY Names DEF ClaimsInv, PlaceInv, TypeOK
  <1> SUFFICES ASSUME AtWork(p), p \notin Sentinels, JobOf(p) \in Guarded,
                      NEW e \in Entries, e = JobOf(p)
               PROVE  Counted(p, e)'
    BY DEF ReplayStep, PlainStep
  <1>2. Counted(p, e)
    BY WorkerCounts
  <1>3. files[e] # Gone => files[e].retryCount \in Nat
    BY DEF Files
  <1>4. CASE files'[e] = Gone
    BY <1>1, <1>2, <1>4 DEF Counted, PlainStep
  <1>5. CASE files'[e] # Gone
    <2>1. files' = files
      BY <1>5 DEF PlainStep
    <2>2. replays[e] \in Nat /\ replays' = replays /\ crashes' = crashes
      BY <1>1 DEF PlainStep
    <2>3. CASE faults' = faults + 1
      BY <1>1, <1>2, <1>3, <1>5, <2>1, <2>2, <2>3 DEF Counted
    <2>4. CASE faults' = faults
      <3>1. p \in Recoverers /\ Replaying(p, e) => Replaying(p, e)'
        BY <1>5, <2>1, <2>4 DEF PlainStep
      <3>2. QED
        BY <1>1, <1>2, <1>3, <1>5, <2>1, <2>2, <2>4, <3>1 DEF Counted, Recoverers
    <2>5. QED
      BY <2>3, <2>4 DEF PlainStep
  <1>6. QED
    BY <1>4, <1>5

LEMMA LiveCounts ==
  ASSUME ClaimsInv, OnlyEnqueued, CopiesFresh, ReplayInv, TypeOK', NEW p \in Entries, LiveStep(p)
  PROVE  ReplayInv'
  <1>a. /\ p \in Processes /\ pc[p] \in PlacesOf(p) /\ pc \in [Processes -> Places]
        /\ Recoverers \cap Entries = {} /\ Entries \subseteq Processes
        /\ Recoverers \subseteq Processes /\ Processes = Entries \cup Recoverers
        /\ Sentinels \subseteq Entries /\ marked \subseteq Entries
    BY Names, SentinelsAreEntries DEF ClaimsInv, PlaceInv, TypeOK, PlacesKept
  <1>b. AtWork(p) => JobOf(p) \in Enqueued /\ JobOf(p) \in Entries
    BY Working, Names DEF ClaimsInv, OnlyEnqueued, AtWork, JobOf, Processes
  <1>c. /\ files \in [Entries -> {Gone} \cup Files] /\ copy \in [Processes -> {Gone} \cup Files]
        /\ job \in [Recoverers -> {Gone} \cup Entries] /\ Gone \notin Files
    BY Names DEF ClaimsInv, PlaceInv, TypeOK
  <1>d. p \notin Sentinels /\ JobOf(p) \in Guarded => Fresh(p)
    BY <1>a DEF CopiesFresh
  <1>e. /\ replays \in [Entries -> Nat] /\ crashes \in Nat /\ faults \in Nat
        /\ files' \in [Entries -> {Gone} \cup Files]
    BY Names DEF ClaimsInv, PlaceInv, TypeOK
  <1> SUFFICES ReplayStep(p)
    BY <1>a, <1>e, LiveStepOf, ReplayStepEnough DEF ClaimsInv
  <1>1. CASE EnqueueDelivery(p)
    <2>1. ~AtWork(p) /\ UNCHANGED <<replays, crashes, faults>>
      BY <1>1 DEF EnqueueDelivery, AtWork, history
    <2>2. QED
      BY <2>1, <1>e DEF ReplayStep
  <1>2. CASE LiveClaim(p)
    <2>1. PlainStep(p)
      BY <1>2, <1>a, <1>b, <1>c, <1>e DEF LiveClaim, PlainStep, Replaying, Finish, Fault, Goto, AtWork, JobOf,
         PlacesOf, disk, history
    <2>2. QED
      BY <1>a, <1>c, <2>1, PlainStepCounts
  <1>3. CASE LivePrepare(p)
    <2>1. PlainStep(p)
      BY <1>3, <1>a, <1>b, <1>c, <1>e DEF LivePrepare, PlainStep, Replaying, Finish, Fault, Goto, AtWork, JobOf,
         PlacesOf, disk, history
    <2>2. QED
      BY <1>a, <1>c, <2>1, PlainStepCounts
  <1>4. CASE MarkRead(p)
    <2>1. PlainStep(p)
      BY <1>4, <1>a, <1>b, <1>c, <1>e DEF MarkRead, MarkFails, PlainStep, Replaying, Finish, Fault, Goto, AtWork, JobOf,
         PlacesOf, disk, history
    <2>2. QED
      BY <1>a, <1>c, <2>1, PlainStepCounts
  <1>5. CASE MarkWrite(p)
    <2>1. /\ UNCHANGED <<crashes, faults, replays>> /\ AtWork(p) /\ Writing(p)
          /\ JobOf(p) = p /\ p \notin Recoverers
      BY <1>5, <1>a DEF MarkWrite, AtWork, JobOf, Writing, history
    <2> SUFFICES ASSUME p \notin Sentinels, JobOf(p) \in Guarded
                 PROVE  \A e \in Entries : e = p => Counted(p, e)'
      BY <2>1, <1>e DEF ReplayStep
    <2>2. Counted(p, p)
      BY <1>a, <2>1, WorkerCounts
    <2>3. files[p] \in Files /\ copy[p] = files[p] /\ files[p] # Gone
      BY <1>c, <1>d, <2>1 DEF Fresh
    <2>4. PICK state \in SendStates :
            files' = [files EXCEPT ![p] = [copy[p] EXCEPT !.recoveryState = state]]
      BY <1>5 DEF MarkWrite, SendStates
    <2>5. files'[p].retryCount = files[p].retryCount
      BY <1>c, <2>3, <2>4 DEF Files
    <2>6. QED
      BY <2>1, <2>2, <2>3, <2>5 DEF Counted, Recoverers
  <1>6. CASE MarkWriteFails(p)
    <2>1. PlainStep(p)
      BY <1>6, <1>a, <1>b, <1>c, <1>e DEF MarkWriteFails, MarkFails, PlainStep, Replaying, Finish, Fault, Goto, AtWork, JobOf,
         PlacesOf, disk, history
    <2>2. QED
      BY <1>a, <1>c, <2>1, PlainStepCounts
  <1>7. QED
    BY <1>1, <1>2, <1>3, <1>4, <1>5, <1>6 DEF LiveStep

LEMMA StorageCounts ==
  ASSUME ClaimsInv, OnlyEnqueued, CopiesFresh, ReplayInv, TypeOK', NEW p \in Processes, StorageStep(p)
  PROVE  ReplayInv'
  <1>a. /\ p \in Processes /\ pc[p] \in PlacesOf(p) /\ pc \in [Processes -> Places]
        /\ Recoverers \cap Entries = {} /\ Entries \subseteq Processes
        /\ Recoverers \subseteq Processes /\ Processes = Entries \cup Recoverers
        /\ Sentinels \subseteq Entries /\ marked \subseteq Entries
    BY Names, SentinelsAreEntries DEF ClaimsInv, PlaceInv, TypeOK, PlacesKept
  <1>b. AtWork(p) => JobOf(p) \in Enqueued /\ JobOf(p) \in Entries
    BY Working, Names DEF ClaimsInv, OnlyEnqueued, AtWork, JobOf, Processes
  <1>c. /\ files \in [Entries -> {Gone} \cup Files] /\ copy \in [Processes -> {Gone} \cup Files]
        /\ job \in [Recoverers -> {Gone} \cup Entries] /\ Gone \notin Files
    BY Names DEF ClaimsInv, PlaceInv, TypeOK
  <1>d. p \notin Sentinels /\ JobOf(p) \in Guarded => Fresh(p)
    BY <1>a DEF CopiesFresh
  <1>e. /\ replays \in [Entries -> Nat] /\ crashes \in Nat /\ faults \in Nat
        /\ files' \in [Entries -> {Gone} \cup Files]
    BY Names DEF ClaimsInv, PlaceInv, TypeOK
  <1> SUFFICES ReplayStep(p)
    BY <1>a, <1>e, StorageStepOf, ReplayStepEnough DEF ClaimsInv
  <1>1. CASE FailRead(p)
    <2>1. PlainStep(p)
      BY <1>1, <1>a, <1>b, <1>c, <1>e DEF FailRead, PlainStep, Replaying, Finish, Fault, Goto, AtWork, JobOf,
         PlacesOf, disk, history
    <2>2. QED
      BY <1>a, <1>c, <2>1, PlainStepCounts
  <1>2. CASE FailWrite(p)
    <2>1. /\ UNCHANGED <<crashes, replays>> /\ AtWork(p) /\ Writing(p)
          /\ \/ files' = [files EXCEPT ![JobOf(p)] = OneRetryMore(copy[p])] /\ faults' = faults
             \/ files' = files /\ faults' = faults + 1
      BY <1>2 DEF FailWrite, Fault, AtWork, Writing, history
    <2> SUFFICES ASSUME p \notin Sentinels, JobOf(p) \in Guarded,
                        NEW e \in Entries, e = JobOf(p)
                 PROVE  Counted(p, e)'
      BY <2>1, <1>e DEF ReplayStep
    <2>2. Counted(p, e)
      BY <1>a, <2>1, WorkerCounts
    <2>3. files[e] \in Files /\ copy[p] = files[e] /\ files[e] # Gone
      BY <1>c, <1>d, <2>1 DEF Fresh
    <2>4. files[e].retryCount \in Nat
      BY <2>3 DEF Files
    <2>5. CASE files' = files /\ faults' = faults + 1
      <3>1. MaxRetries \in Nat /\ replays[e] \in Nat
        BY <1>e, Names
      <3>2. QED
        BY <1>e, <2>1, <2>2, <2>3, <2>4, <2>5, <3>1 DEF Counted
    <2>6. CASE files' = [files EXCEPT ![JobOf(p)] = OneRetryMore(copy[p])] /\ faults' = faults
      <3>1. files'[e].retryCount = files[e].retryCount + 1
        BY <1>c, <2>3, <2>6, RetryIsFile
      <3>2. QED
        BY <1>e, <2>1, <2>2, <2>3, <2>4, <2>6, <3>1 DEF Counted
    <2>7. QED
      BY <2>1, <2>5, <2>6
  <1>3. CASE AckRename(p)
    <2>1. PlainStep(p)
      BY <1>3, <1>a, <1>b, <1>c, <1>e DEF AckRename, PlainStep, Replaying, Finish, Fault, Goto, AtWork, JobOf,
         PlacesOf, disk, history
    <2>2. QED
      BY <1>a, <1>c, <2>1, PlainStepCounts
  <1>4. CASE AckUnlink(p)
    <2>1. files' = files /\ JobOf(p) \in Guarded /\ p \notin Sentinels => files[JobOf(p)] = Gone
      BY <1>4, <1>d DEF AckUnlink, Fresh
    <2>2. PlainStep(p)
      BY <1>4, <2>1 DEF AckUnlink, PlainStep, history
    <2>3. QED
      BY <1>a, <1>c, <2>2, PlainStepCounts
  <1>5. QED
    BY <1>1, <1>2, <1>3, <1>4 DEF StorageStep

LEMMA PlatformCounts ==
  ASSUME ClaimsInv, OnlyEnqueued, CopiesFresh, ReplayInv, TypeOK', NEW p \in Processes, PlatformStep(p)
  PROVE  ReplayInv'
  <1>a. /\ p \in Processes /\ pc[p] \in PlacesOf(p) /\ pc \in [Processes -> Places]
        /\ Recoverers \cap Entries = {} /\ Entries \subseteq Processes
        /\ Recoverers \subseteq Processes /\ Processes = Entries \cup Recoverers
        /\ Sentinels \subseteq Entries /\ marked \subseteq Entries
    BY Names, SentinelsAreEntries DEF ClaimsInv, PlaceInv, TypeOK, PlacesKept
  <1>b. AtWork(p) => JobOf(p) \in Enqueued /\ JobOf(p) \in Entries
    BY Working, Names DEF ClaimsInv, OnlyEnqueued, AtWork, JobOf, Processes
  <1>c. /\ files \in [Entries -> {Gone} \cup Files] /\ copy \in [Processes -> {Gone} \cup Files]
        /\ job \in [Recoverers -> {Gone} \cup Entries] /\ Gone \notin Files
    BY Names DEF ClaimsInv, PlaceInv, TypeOK
  <1>d. p \notin Sentinels /\ JobOf(p) \in Guarded => Fresh(p)
    BY <1>a DEF CopiesFresh
  <1>e. /\ replays \in [Entries -> Nat] /\ crashes \in Nat /\ faults \in Nat
        /\ files' \in [Entries -> {Gone} \cup Files]
    BY Names DEF ClaimsInv, PlaceInv, TypeOK
  <1> SUFFICES ReplayStep(p)
    BY <1>a, <1>e, PlatformStepOf, ReplayStepEnough DEF ClaimsInv
  <1>1. CASE Send(p)
    <2>1. /\ UNCHANGED <<files, crashes, faults, job>> /\ AtWork(p) /\ pc'[p] = "sending"
          /\ replays' = IF p \in Recoverers THEN [replays EXCEPT ![JobOf(p)] = replays[JobOf(p)] + 1]
                     ELSE replays
          /\ pc[p] = "send"
      BY <1>1, <1>a DEF Send, Goto, AtWork, disk
    <2> SUFFICES ASSUME p \notin Sentinels, JobOf(p) \in Guarded,
                        NEW e \in Entries, e = JobOf(p)
                 PROVE  Counted(p, e)'
      BY <2>1, <1>e DEF ReplayStep
    <2>2. Counted(p, e) /\ ~Replaying(p, e)
      BY <1>a, <2>1, WorkerCounts DEF Replaying
    <2>3. CASE p \notin Recoverers
      BY <2>1, <2>2, <2>3 DEF Counted, Recoverers
    <2>4. CASE p \in Recoverers
      <3>1. Replaying(p, e)'
        BY <1>a, <2>1, <2>4 DEF Replaying, JobOf
      <3>2. files[e] # Gone /\ files[e].retryCount < MaxRetries
        BY <1>d, <2>1, <2>4 DEF Fresh
      <3>3. files[e].retryCount \in Nat /\ MaxRetries \in Nat
        BY <1>c, <3>2, Names DEF Files
      <3>4. replays'[e] = replays[e] + 1 /\ replays[e] \in Nat
        BY <1>e, <2>1, <2>4
      <3>5. replays[e] <= files[e].retryCount + crashes + faults
        BY <2>2, <3>2 DEF Counted
      <3>6. /\ replays'[e] <= files[e].retryCount + 1 + crashes + faults
            /\ replays'[e] <= MaxRetries + crashes + faults
        BY <1>e, <3>2, <3>3, <3>4, <3>5
      <3>7. QED
        BY <2>1, <2>4, <3>1, <3>6 DEF Counted, Recoverers
    <2>5. QED
      BY <2>3, <2>4
  <1>2. CASE SendSucceeds(p)
    <2>1. PlainStep(p)
      BY <1>2, <1>a, <1>b, <1>c, <1>e DEF SendSucceeds, PlainStep, Replaying, Finish, Fault, Goto, AtWork, JobOf,
         PlacesOf, disk, history
    <2>2. QED
      BY <1>a, <1>c, <2>1, PlainStepCounts
  <1>3. CASE SendFails(p)
    <2>1. PlainStep(p)
      BY <1>3, <1>a, <1>b, <1>c, <1>e DEF SendFails, PlainStep, Replaying, Finish, Fault, Goto, AtWork, JobOf,
         PlacesOf, disk, history
    <2>2. QED
      BY <1>a, <1>c, <2>1, PlainStepCounts
  <1>4. QED
    BY <1>1, <1>2, <1>3 DEF PlatformStep

LEMMA RecoveryCounts ==
  ASSUME ClaimsInv, OnlyEnqueued, CopiesFresh, ReplayInv, TypeOK', NEW p \in Recoverers, RecoveryStep(p)
  PROVE  ReplayInv'
  <1>a. /\ p \in Processes /\ pc[p] \in PlacesOf(p) /\ pc \in [Processes -> Places]
        /\ Recoverers \cap Entries = {} /\ Entries \subseteq Processes
        /\ Recoverers \subseteq Processes /\ Processes = Entries \cup Recoverers
        /\ Sentinels \subseteq Entries /\ marked \subseteq Entries
    BY Names, SentinelsAreEntries DEF ClaimsInv, PlaceInv, TypeOK, PlacesKept
  <1>b. AtWork(p) => JobOf(p) \in Enqueued /\ JobOf(p) \in Entries
    BY Working, Names DEF ClaimsInv, OnlyEnqueued, AtWork, JobOf, Processes
  <1>c. /\ files \in [Entries -> {Gone} \cup Files] /\ copy \in [Processes -> {Gone} \cup Files]
        /\ job \in [Recoverers -> {Gone} \cup Entries] /\ Gone \notin Files
    BY Names DEF ClaimsInv, PlaceInv, TypeOK
  <1>d. p \notin Sentinels /\ JobOf(p) \in Guarded => Fresh(p)
    BY <1>a DEF CopiesFresh
  <1>e. /\ replays \in [Entries -> Nat] /\ crashes \in Nat /\ faults \in Nat
        /\ files' \in [Entries -> {Gone} \cup Files]
    BY Names DEF ClaimsInv, PlaceInv, TypeOK
  <1> SUFFICES ReplayStep(p)
    BY <1>a, <1>e, RecoveryStepOf, ReplayStepEnough DEF ClaimsInv
  <1>1. CASE BeginPass(p)
    <2>1. PlainStep(p)
      BY <1>1, <1>a, <1>b, <1>c, <1>e DEF BeginPass, PlainStep, Replaying, Finish, Fault, Goto, AtWork, JobOf,
         PlacesOf, disk, history
    <2>2. QED
      BY <1>a, <1>c, <2>1, PlainStepCounts
  <1>2. CASE EndPass(p)
    <2>1. PlainStep(p)
      BY <1>2, <1>a, <1>b, <1>c, <1>e DEF EndPass, PlainStep, Replaying, Finish, Fault, Goto, AtWork, JobOf,
         PlacesOf, disk, history
    <2>2. QED
      BY <1>a, <1>c, <2>1, PlainStepCounts
  <1>3. CASE ClaimNext(p)
    <2>1. PlainStep(p)
      BY <1>3, <1>a, <1>b, <1>c, <1>e DEF ClaimNext, PlainStep, Replaying, Finish, Fault, Goto, AtWork, JobOf,
         PlacesOf, disk, history
    <2>2. QED
      BY <1>a, <1>c, <2>1, PlainStepCounts
  <1>4. CASE Reread(p)
    <2>1. PlainStep(p)
      BY <1>4, <1>a, <1>b, <1>c, <1>e DEF Reread, PlainStep, Replaying, Finish, Fault, Goto, AtWork, JobOf,
         PlacesOf, disk, history
    <2>2. QED
      BY <1>a, <1>c, <2>1, PlainStepCounts
  <1>5. CASE Reconcile(p)
    <2>1. PlainStep(p)
      BY <1>5, <1>a, <1>b, <1>c, <1>e DEF Reconcile, PlainStep, Replaying, Finish, Fault, Goto, AtWork, JobOf,
         PlacesOf, disk, history
    <2>2. QED
      BY <1>a, <1>c, <2>1, PlainStepCounts
  <1>6. CASE ReplayStops(p)
    <2>1. PlainStep(p)
      BY <1>6, <1>a, <1>b, <1>c, <1>e DEF ReplayStops, PlainStep, Replaying, Finish, Fault, Goto, AtWork, JobOf,
         PlacesOf, disk, history
    <2>2. QED
      BY <1>a, <1>c, <2>1, PlainStepCounts
  <1>7. CASE Move(p)
    <2>1. PlainStep(p)
      BY <1>7, <1>a, <1>b, <1>c, <1>e DEF Move, PlainStep, Replaying, Finish, Fault, Goto, AtWork, JobOf,
         PlacesOf, disk, history
    <2>2. QED
      BY <1>a, <1>c, <2>1, PlainStepCounts
  <1>8. CASE MoveSpent(p)
    <2>1. PlainStep(p)
      BY <1>8, <1>a, <1>b, <1>c, <1>e DEF MoveSpent, PlainStep, Replaying, Finish, Fault, Goto, AtWork, JobOf,
         PlacesOf, disk, history
    <2>2. QED
      BY <1>a, <1>c, <2>1, PlainStepCounts
  <1>9. QED
    BY <1>1, <1>2, <1>3, <1>4, <1>5, <1>6, <1>7, <1>8 DEF RecoveryStep

(***************************************************************************)
(* The steps that are no process's own, and the theorems                   *)
(***************************************************************************)
\* A pass out of time, and a step of nobody: whatever file is written leaves
\* Guarded, and the process that moves has no entry in hand.
Aside ==
  /\ UNCHANGED <<kind, copy, job, marked, acked, suspect, replays, crashes>>
  /\ faults' \in Nat /\ faults <= faults'
  /\ rewritten \subseteq rewritten'
  /\ \A e \in Entries \ rewritten' : files'[e] = files[e]
  /\ \A p \in Processes : pc'[p] = pc[p] \/ (~AtWork(p)' /\ ~AtWork(p))

LEMMA AsideSteps ==
  ASSUME ClaimsInv, DeferStep \/ UNCHANGED vars
  PROVE  Aside
  <1>1. Startup \in Processes /\ pc \in [Processes -> Places] /\ faults \in Nat
        /\ files \in [Entries -> {Gone} \cup Files]
    BY Names DEF ClaimsInv, PlaceInv, TypeOK
  <1>2. CASE BudgetExceeded \/ DeferDone
    BY <1>1, <1>2 DEF BudgetExceeded, DeferDone, Goto, Aside, AtWork, disk, history
  <1>3. ASSUME NEW e \in Entries, DeferRead(e) \/ DeferWrite(e) PROVE Aside
    <2>1. faults' \in Nat /\ faults <= faults'
      BY <1>1, <1>3 DEF DeferRead, DeferWrite, Fault
    <2>2. CASE DeferRead(e)
      BY <2>1, <2>2 DEF DeferRead, Aside, disk, history
    <2>3. CASE DeferWrite(e)
      <3>1. \/ /\ files' = [files EXCEPT ![e] = OneRetryMore(deferCopy[e])]
               /\ rewritten' = rewritten \cup {e}
            \/ UNCHANGED <<files, rewritten>>
        BY <2>3 DEF DeferWrite
      <3>2. QED
        BY <1>1, <2>1, <2>3, <3>1 DEF DeferWrite, Aside
    <2>4. QED
      BY <1>3, <2>2, <2>3
  <1>4. CASE UNCHANGED vars
    BY <1>1, <1>4 DEF vars, Aside, disk, history
  <1>5. QED
    BY <1>2, <1>3, <1>4 DEF DeferStep

LEMMA AsideGuards ==
  ASSUME ClaimsInv, GuardInv, Aside
  PROVE  GuardInv'
  <1>1. /\ Sentinels' = Sentinels /\ Guarded' \subseteq Guarded
        /\ \A e \in Guarded' : files'[e] = files[e]
        /\ \A p \in Processes : JobOf(p)' = JobOf(p)
    BY KindFixed DEF Aside, Guarded, JobOf
  <1>2. \A p \in Processes : AtWork(p)' => pc'[p] = pc[p]
    BY DEF Aside
  <1>3. CopiesFresh'
    <2> SUFFICES ASSUME NEW p \in Processes \ Sentinels, JobOf(p) \in Guarded',
                        Fresh(p)
                 PROVE  Fresh(p)'
      BY <1>1 DEF GuardInv, CopiesFresh, Processes, Recoverers
    <2>1. files'[JobOf(p)] = files[JobOf(p)] /\ JobOf(p)' = JobOf(p) /\ copy' = copy
      BY <1>1 DEF Aside
    <2>2. CASE AtWork(p)'
      BY <1>2, <2>1, <2>2 DEF Fresh, Writing, Recoverers
    <2>3. CASE ~AtWork(p)'
      BY <2>3 DEF Fresh, Writing, AtWork
    <2>4. QED
      BY <2>2, <2>3
  <1>4. AckedGone'
    <2>1. acked' = acked /\ job' = job
      BY DEF Aside
    <2>2. \A p \in Recoverers : AtWork(p)' => AtWork(p) /\ pc'[p] = pc[p]
      BY <1>2, Names DEF AtWork
    <2>3. QED
      BY <1>1, <2>1, <2>2 DEF GuardInv, AckedGone, Recoverers
  <1>5. MarkInv'
    <2>1. /\ UNCHANGED <<marked, suspect, job>> /\ rewritten \subseteq rewritten'
          /\ marked \cup suspect \subseteq Entries
          /\ \A e \in Entries \ rewritten' : files'[e] = files[e]
      BY DEF Aside, ClaimsInv, PlaceInv, TypeOK
    <2>2. MarkKept'
      BY <1>1, <2>1 DEF GuardInv, MarkInv, MarkKept
    <2>3. \A p \in Recoverers : pc'[p] \in {"send", "sending"} => pc'[p] = pc[p]
      BY <1>2, Names DEF AtWork
    <2>4. SuspectNotSent'
      BY <2>1, <2>3 DEF GuardInv, MarkInv, SuspectNotSent, Recoverers
    <2>5. QED
      BY <2>2, <2>4 DEF MarkInv
  <1>6. ReplayInv'
    <2>1. /\ UNCHANGED <<replays, crashes, job>>
          /\ replays \in [Entries -> Nat] /\ crashes \in Nat /\ faults \in Nat
          /\ MaxRetries \in Nat /\ files \in [Entries -> {Gone} \cup Files]
          /\ faults' \in Nat /\ faults <= faults'
      BY Names DEF Aside, ClaimsInv, PlaceInv, TypeOK
    <2>2. \A p \in Recoverers, e \in Entries : Replaying(p, e) => Replaying(p, e)'
      <3>1. \A p \in Recoverers : AtWork(p) => pc'[p] = pc[p]
        BY Names DEF Aside
      <3>2. QED
        BY <2>1, <3>1 DEF Replaying, AtWork
    <2>3. ReplaysCounted'
      <3> SUFFICES ASSUME NEW e \in Guarded', files'[e] # Gone
                   PROVE  \/ replays[e] <= files[e].retryCount + crashes + faults'
                          \/ /\ replays[e] <= files[e].retryCount + 1 + crashes + faults'
                             /\ \E p \in Recoverers : Replaying(p, e)'
        BY <1>1, <2>1 DEF ReplaysCounted, Recoverers
      <3>1. e \in Guarded /\ files[e] # Gone /\ e \in Entries
        BY <1>1 DEF Guarded
      <3>2. replays[e] \in Nat /\ files[e].retryCount \in Nat
        BY <2>1, <3>1 DEF Files
      <3>3. \/ replays[e] <= files[e].retryCount + crashes + faults
            \/ /\ replays[e] <= files[e].retryCount + 1 + crashes + faults
               /\ \E p \in Recoverers : Replaying(p, e)
        BY <3>1 DEF GuardInv, ReplayInv, ReplaysCounted
      <3>4. QED
        BY <2>1, <2>2, <3>1, <3>2, <3>3
    <2>4. RetriesBounded'
      <3> SUFFICES ASSUME NEW e \in Guarded'
                   PROVE  replays[e] <= MaxRetries + crashes + faults'
        BY <2>1 DEF RetriesBounded, Guarded
      <3>1. replays[e] <= MaxRetries + crashes + faults /\ replays[e] \in Nat
        BY <1>1, <2>1 DEF GuardInv, ReplayInv, RetriesBounded, Guarded
      <3>2. QED
        BY <2>1, <3>1
    <2>5. QED
      BY <2>3, <2>4 DEF ReplayInv
  <1>7. QED
    BY <1>3, <1>4, <1>5, <1>6 DEF GuardInv

\* After a restart nobody has an entry, nor a copy of one.
LEMMA CrashGuards ==
  ASSUME ClaimsInv, GuardInv, Crash
  PROVE  GuardInv'
  <1>1. /\ UNCHANGED <<kind, files, acked, suspect, replays, rewritten, faults>>
        /\ marked' = {} /\ crashes' = crashes + 1
        /\ \A p \in Processes : pc'[p] \in {"idle", "done"}
    BY DEF Crash, disk
  <1>2. Sentinels' = Sentinels /\ Guarded' = Guarded /\ Guarded \subseteq Entries
    BY <1>1, KindFixed DEF Guarded
  <1>3. CopiesFresh'
    BY <1>1, <1>2 DEF CopiesFresh, Fresh, Writing, Processes, Recoverers
  <1>4. AckedGone'
    BY <1>1, <1>2, Names DEF GuardInv, AckedGone, AtWork, Recoverers
  <1>5. MarkInv'
    BY <1>1, <1>2, Names DEF GuardInv, MarkInv, MarkKept, SuspectNotSent, Recoverers
  <1>6. ReplayInv'
    <2>1. /\ replays \in [Entries -> Nat] /\ crashes \in Nat /\ faults \in Nat
          /\ MaxRetries \in Nat /\ files \in [Entries -> {Gone} \cup Files]
      BY Names DEF ClaimsInv, PlaceInv, TypeOK
    <2>2. ReplaysCounted'
      <3> SUFFICES ASSUME NEW e \in Guarded, files[e] # Gone
                   PROVE  replays[e] <= files[e].retryCount + (crashes + 1) + faults
        BY <1>1, <1>2 DEF ReplaysCounted
      <3>1. files[e].retryCount \in Nat /\ replays[e] \in Nat
        BY <1>2, <2>1 DEF Files
      <3>2. \/ replays[e] <= files[e].retryCount + crashes + faults
            \/ replays[e] <= files[e].retryCount + 1 + crashes + faults
        BY DEF GuardInv, ReplayInv, ReplaysCounted
      <3>3. QED
        BY <2>1, <3>1, <3>2
    <2>3. RetriesBounded'
      <3> SUFFICES ASSUME NEW e \in Guarded
                   PROVE  replays[e] <= MaxRetries + (crashes + 1) + faults
        BY <1>1, <1>2 DEF RetriesBounded, Guarded
      <3>1. replays[e] \in Nat /\ replays[e] <= MaxRetries + crashes + faults
        BY <1>2, <2>1 DEF GuardInv, ReplayInv, RetriesBounded, Guarded
      <3>2. QED
        BY <2>1, <3>1
    <2>4. QED
      BY <2>2, <2>3 DEF ReplayInv
  <1>7. QED
    BY <1>3, <1>4, <1>5, <1>6 DEF GuardInv

LEMMA NextGuards ==
  ASSUME ClaimsInv, OnlyEnqueued, GuardInv, [Next]_vars, TypeOK'
  PROVE  GuardInv'
  <1> USE DEF GuardInv
  <1>1. ASSUME NEW p \in Entries, LiveStep(p) PROVE GuardInv'
    BY <1>1, LiveFresh, LiveAckedGone, LiveMarks, LiveCounts
  <1>2. ASSUME NEW p \in Processes, StorageStep(p) PROVE GuardInv'
    BY <1>2, StorageFresh, StorageAckedGone, StorageMarks, StorageCounts
  <1>3. ASSUME NEW p \in Processes, PlatformStep(p) PROVE GuardInv'
    BY <1>3, PlatformFresh, PlatformAckedGone, PlatformMarks, PlatformCounts
  <1>4. ASSUME NEW p \in Recoverers, RecoveryStep(p) PROVE GuardInv'
    BY <1>4, RecoveryFresh, RecoveryAckedGone, RecoveryMarks, RecoveryCounts
  <1>5. CASE DeferStep \/ UNCHANGED vars
    BY <1>5, AsideSteps, AsideGuards
  <1>6. CASE Crash
    BY <1>6, CrashGuards
  <1>7. QED
    BY <1>1, <1>2, <1>3, <1>4, <1>5, <1>6 DEF Next

LEMMA InitGuards == Init => GuardInv
  <1> SUFFICES ASSUME Init PROVE GuardInv
    OBVIOUS
  <1>1. CopiesFresh /\ AckedGone /\ MarkInv
    BY Names DEF Init, CopiesFresh, Fresh, Writing, AckedGone, Guarded, MarkInv, MarkKept, SuspectNotSent
  <1>2. ReplayInv
    BY Names DEF Init, ReplayInv, ReplaysCounted, RetriesBounded, Guarded
  <1>3. QED
    BY <1>1, <1>2 DEF GuardInv

\* The inductive invariant holds in every state.
THEOREM DeliveryInvariant == Spec => []DeliveryInv
  <1>1. Init => DeliveryInv
    BY InitPlaces, InitClaims, InitOnlyEnqueued, InitKeepsAll, InitGuards
       DEF ClaimsInv, DeliveryInv
  <1>2. DeliveryInv /\ [Next]_vars => DeliveryInv'
    <2> SUFFICES ASSUME DeliveryInv, [Next]_vars PROVE DeliveryInv'
      OBVIOUS
    <2>1. ClaimsInv'
      BY NextPlaces, NextClaims DEF DeliveryInv, ClaimsInv
    <2>2. OnlyEnqueued'
      BY NextOnlyEnqueued DEF DeliveryInv, ClaimsInv
    <2>3. LostInv'
      BY NextKeepsAll DEF DeliveryInv, ClaimsInv
    <2>4. GuardInv'
      BY <2>1, NextGuards DEF DeliveryInv, ClaimsInv, PlaceInv
    <2>5. QED
      BY <2>1, <2>2, <2>3, <2>4 DEF DeliveryInv
  <1>3. QED
    BY <1>1, <1>2, PTL DEF Spec

\* An acked entry is not sent again by a recovery pass, whatever snapshot the
\* pass holds (drainQueuedEntry and recoverPendingDeliveries read the file
\* again under the claim).
THEOREM AckedStaysAcked == Spec => []AckedNotReplayed
  <1>1. DeliveryInv => AckedNotReplayed
    <2> SUFFICES ASSUME DeliveryInv, NEW e \in Entries \ (Sentinels \cup rewritten),
                        NEW p \in Recoverers, Sending(p, e), e \in acked
                 PROVE  FALSE
      BY DEF AckedNotReplayed
    <2>1. e \in acked \cap Guarded /\ AtWork(p) /\ job[p] = e /\ pc[p] = "sending"
      BY Names DEF Guarded, Sending, AtWork, JobOf
    <2>2. QED
      BY <2>1 DEF DeliveryInv, GuardInv, AckedGone
  <1>2. QED
    BY <1>1, DeliveryInvariant, PTL

\* What a live send handed to the platform after its mark is not replayed
\* unless the adapter proves it was not sent, across failed attempts, restarts
\* and other processes (recoveryState; drainQueuedEntry).
THEOREM MarkedStaysMarked == Spec => []MarkedNotReplayed
  <1>1. DeliveryInv => MarkedNotReplayed
    BY Names DEF DeliveryInv, GuardInv, MarkInv, SuspectNotSent, MarkedNotReplayed, Sending, JobOf
  <1>2. QED
    BY <1>1, DeliveryInvariant, PTL

\* MAX_RETRIES bounds the replays of an entry, but for those whose count a
\* crash or a failing write has lost.
THEOREM RetriesAreBounded == Spec => []RetriesBounded
  <1>1. DeliveryInv => RetriesBounded
    BY DEF DeliveryInv, GuardInv, ReplayInv
  <1>2. QED
    BY <1>1, DeliveryInvariant, PTL

\* A claim belongs to a process at work on the entry, so that no recovery of
\* it is shut out (the finally blocks of withActiveDeliveryClaim and
\* claimRecoveryEntry's callers).
THEOREM ClaimsAreOwned == Spec => []ClaimsOwned
  <1>1. DeliveryInv => ClaimsOwned
    BY DEF DeliveryInv, ClaimsInv, ClaimsKept
  <1>2. QED
    BY <1>1, DeliveryInvariant, PTL

\* Two processes never send one entry's message at once
\* (delivery-queue-recovery.ts, entriesInProgress).
THEOREM OneSenderHolds == Spec => []OneSender
  <1>1. DeliveryInv => OneSender
    <2> SUFFICES ASSUME DeliveryInv, NEW e \in Entries \ Sentinels,
                        NEW p \in Processes, NEW q \in Processes,
                        Sending(p, e), Sending(q, e)
                 PROVE  p = q
      BY DEF OneSender
    <2>1. AtWork(p) /\ AtWork(q) /\ JobOf(p) = e /\ JobOf(q) = e
      BY DEF Sending, AtWork
    <2>2. p \notin Sentinels /\ q \notin Sentinels
      BY <2>1, SentinelsAreEntries DEF JobOf
    <2>3. QED
      BY <2>1, <2>2 DEF DeliveryInv, ClaimsInv, ClaimsKept, OneWorker
  <1>2. QED
    BY <1>1, DeliveryInvariant, PTL

\* No message without bestEffort is lost, whatever fails and whenever the
\* process dies: it is on disk, in failed/, was handed to the platform, or was
\* given up by its caller or a hook (enqueueDelivery, ackDelivery,
\* moveToFailed, failDelivery).
THEOREM NothingStrictIsLost == Spec => []StrictNotLost
  <1>1. DeliveryInv => StrictNotLost
    BY DEF DeliveryInv, LostInv
  <1>2. QED
    BY <1>1, DeliveryInvariant, PTL

=============================================================================

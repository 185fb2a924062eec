----------------------------- MODULE AccessTracker -----------------------------
(***************************************************************************)
(* The batched access counters of src/src/memory/mongodb-access-tracker.ts. *)
(* An access is one call of recordAccess; what the code keeps as a count    *)
(* per document is here the set of the accesses it counts, so that a lost  *)
(* or a doubled count shows.                                               *)
(*                                                                         *)
(* doFlush empties the buffer and then awaits one updateOne per document;  *)
(* recordAccess and further calls of flush run at those awaits.            *)
(***************************************************************************)
EXTENDS Naturals, FiniteSets

CONSTANTS Accesses,        \* calls of recordAccess
          DocumentOf,      \* the document each one names
          Flushes,         \* runs of doFlush, as many as there are accesses
          Callers,         \* the interval timer and the callers of flush()
          FlushThreshold,  \* config.flushThreshold
          None             \* pendingFlush = null

ASSUME TrackerAssumption ==
  /\ IsFiniteSet(Accesses)
  /\ FlushThreshold \in Nat \ {0}
  /\ None \notin Flushes

VARIABLES buffer,        \* AccessTracker.buffer; totalBuffered is its size
          snapshot,      \* what each doFlush has still to write
          begun,         \* the runs of doFlush that have begun
          pendingFlush,  \* the promise of the last automatic flush
          awaited,       \* the promise a caller of flush() awaits
          closed,        \* close() has cleared the timer
          counted,       \* accesses in the documents' accessCount
          dropped        \* accesses whose updateOne failed

vars == <<buffer, snapshot, begun, pendingFlush, awaited, closed, counted, dropped>>

Running(f) == snapshot[f] # {}

InFlight == UNION {snapshot[f] : f \in Flushes}

Recorded == buffer \cup InFlight \cup counted \cup dropped

TypeOK ==
  /\ buffer \subseteq Accesses
  /\ snapshot \in [Flushes -> SUBSET Accesses]
  /\ begun \subseteq Flushes
  /\ pendingFlush \in {None} \cup Flushes
  /\ awaited \in [Callers -> {None} \cup Flushes]
  /\ closed \in BOOLEAN
  /\ counted \subseteq Accesses /\ dropped \subseteq Accesses

Init ==
  /\ buffer = {}
  /\ snapshot = [f \in Flushes |-> {}]
  /\ begun = {}
  /\ pendingFlush = None
  /\ awaited = [c \in Callers |-> None]
  /\ closed = FALSE
  /\ counted = {} /\ dropped = {}

\* doFlush up to its first await, from the contents of the buffer.
DoFlushKeepsBuffer(f, contents) ==   \* mutant: snapshot without clear
  /\ f \notin begun
  /\ begun' = begun \cup {f}
  /\ snapshot' = [snapshot EXCEPT ![f] = contents]
  /\ buffer' = contents

DoFlush(f, contents) ==
  /\ f \notin begun
  /\ begun' = begun \cup {f}
  /\ snapshot' = [snapshot EXCEPT ![f] = contents]
  /\ buffer' = {}

RecordAccessNoTrigger(a) ==               \* mutant: the threshold starts no flush
  /\ ~closed /\ a \notin Recorded
  /\ buffer' = buffer \cup {a}
  /\ UNCHANGED <<snapshot, begun, pendingFlush, awaited, closed, counted, dropped>>

\* Nobody records after close().
RecordAccess(a) ==
  /\ ~closed /\ a \notin Recorded
  /\ IF Cardinality(buffer \cup {a}) >= FlushThreshold
     THEN \E f \in Flushes : DoFlush(f, buffer \cup {a}) /\ pendingFlush' = f
     ELSE buffer' = buffer \cup {a} /\ UNCHANGED <<snapshot, begun, pendingFlush>>
  /\ UNCHANGED <<awaited, closed, counted, dropped>>

\* The next updateOne of a flush, which counts a document's accesses or fails.
UpdateOneStops(f, d) ==                   \* mutant: an error ends the loop
  LET some == {a \in snapshot[f] : DocumentOf[a] = d} IN
  /\ some # {}
  /\ \/ /\ snapshot' = [snapshot EXCEPT ![f] = @ \ some]
        /\ counted' = counted \cup some
        /\ UNCHANGED dropped
     \/ /\ snapshot' = [snapshot EXCEPT ![f] = {}]
        /\ dropped' = dropped \cup some
        /\ UNCHANGED counted
  /\ UNCHANGED <<buffer, begun, pendingFlush, awaited, closed>>

UpdateOneByDocument(f, d) ==              \* mutant: counts the document once
  LET some == {a \in snapshot[f] : DocumentOf[a] = d} IN
  /\ some # {}
  /\ snapshot' = [snapshot EXCEPT ![f] = @ \ some]
  /\ counted' = counted \cup {d}
  /\ UNCHANGED <<buffer, begun, pendingFlush, awaited, closed, dropped>>

UpdateOne(f, d) ==
  LET some == {a \in snapshot[f] : DocumentOf[a] = d} IN
  /\ some # {}
  /\ snapshot' = [snapshot EXCEPT ![f] = @ \ some]
  /\ \/ counted' = counted \cup some /\ UNCHANGED dropped
     \/ dropped' = dropped \cup some /\ UNCHANGED counted
  /\ UNCHANGED <<buffer, begun, pendingFlush, awaited, closed>>

\* flush() once there is no automatic flush left to await.
FlushBuffer(c) ==
  IF buffer = {} THEN UNCHANGED <<buffer, snapshot, begun>>
  ELSE \E f \in Flushes : DoFlush(f, buffer)

Flush(c) ==
  /\ awaited[c] = None
  /\ IF pendingFlush = None
     THEN FlushBuffer(c) /\ UNCHANGED awaited
     ELSE /\ awaited' = [awaited EXCEPT ![c] = pendingFlush]
          /\ UNCHANGED <<buffer, snapshot, begun>>
  /\ UNCHANGED <<pendingFlush, counted, dropped>>

\* The interval timer, or a caller of flush().
CallFlush(c) == Flush(c) /\ ~closed /\ UNCHANGED closed

Close(c) == Flush(c) /\ ~closed /\ closed' = TRUE

\* The awaited flush has ended.
FlushResumes(c) ==
  /\ awaited[c] # None
  /\ ~Running(awaited[c])
  /\ awaited' = [awaited EXCEPT ![c] = None]
  /\ pendingFlush' = None
  /\ FlushBuffer(c)
  /\ UNCHANGED <<closed, counted, dropped>>

Next ==
  \/ \E a \in Accesses : RecordAccess(a)
  \/ \E f \in Flushes, a \in Accesses : UpdateOne(f, DocumentOf[a])
  \/ \E c \in Callers : CallFlush(c) \/ Close(c) \/ FlushResumes(c)

Spec == Init /\ [][Next]_vars

\* MongoDB answers; the timer fires until close(); Node resumes what it awaited.
Fairness ==
  /\ \A f \in Flushes, a \in Accesses : WF_vars(UpdateOne(f, DocumentOf[a]))
  /\ \A c \in Callers : WF_vars(CallFlush(c)) /\ WF_vars(FlushResumes(c))

FairSpec == Spec /\ Fairness

\* No access is counted twice or forgotten, however the flushes overlap: it is
\* in the buffer, in one flush, in a document's count or in a failed update.
EveryAccessOnce ==
  /\ buffer \cap (InFlight \cup counted \cup dropped) = {}
  /\ InFlight \cap (counted \cup dropped) = {}
  /\ counted \cap dropped = {}
  /\ \A f, g \in Flushes : f # g => snapshot[f] \cap snapshot[g] = {}

\* A flush that has not begun holds nothing.
Unstarted == \A f \in Flushes \ begun : snapshot[f] = {}

\* The inductive invariant of the proofs.
TrackerInv == TypeOK /\ EveryAccessOnce /\ Unstarted

\* An access that was recorded is not forgotten, by any step.
NoneForgotten == [][Recorded \subseteq Recorded']_vars

\* The buffer stays below the threshold that empties it.
BufferBounded == Cardinality(buffer) < FlushThreshold

\* Every access recorded before close() reaches an update.
AccessesWritten == \A a \in Accesses : a \in buffer ~> a \in counted \cup dropped

=============================================================================

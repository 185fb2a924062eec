-------------------------- MODULE AccessTrackerProofs --------------------------
(***************************************************************************)
(* Proofs about AccessTracker for any accesses, documents, callers and     *)
(* threshold: no access is counted twice and none is forgotten.            *)
(***************************************************************************)
EXTENDS AccessTracker, FiniteSetTheorems, TLAPS

\* The buffer, with or without one access more, moves whole into a flush
\* that has not begun.
LEMMA DoFlushKeeps ==
  ASSUME TrackerInv,
         NEW f \in Flushes,
         NEW contents \in SUBSET Accesses,
         buffer \subseteq contents,
         contents \cap (InFlight \cup counted \cup dropped) = {},
         DoFlush(f, contents),
         UNCHANGED <<counted, dropped>>
  PROVE  /\ buffer' = {}
         /\ snapshot' \in [Flushes -> SUBSET Accesses]
         /\ begun' \subseteq Flushes
         /\ EveryAccessOnce'
         /\ InFlight' = InFlight \cup contents
         /\ Unstarted'
  <1>1. snapshot[f] = {} /\ snapshot' = [snapshot EXCEPT ![f] = contents]
    BY DEF TrackerInv, Unstarted, DoFlush
  <1>2. /\ buffer' = {}
        /\ begun' = begun \cup {f}
    BY DEF DoFlush
  <1>3. /\ snapshot' \in [Flushes -> SUBSET Accesses]
        /\ begun' \subseteq Flushes
    BY <1>1, <1>2 DEF TrackerInv, TypeOK
  <1>4. \A g \in Flushes : snapshot'[g] = IF g = f THEN contents ELSE snapshot[g]
    BY <1>1 DEF TrackerInv, TypeOK
  <1>5. InFlight' = InFlight \cup contents
    BY <1>1, <1>4 DEF InFlight
  <1>6. \A g \in Flushes : snapshot[g] \subseteq InFlight
    BY DEF InFlight
  <1>7. \A g, h \in Flushes : g # h => snapshot'[g] \cap snapshot'[h] = {}
    BY <1>4, <1>6 DEF TrackerInv, EveryAccessOnce
  <1>8. EveryAccessOnce'
    BY <1>2, <1>5, <1>7 DEF TrackerInv, EveryAccessOnce
  <1>9. Unstarted'
    BY <1>2, <1>4 DEF TrackerInv, TypeOK, Unstarted
  <1>10. QED
    BY <1>2, <1>3, <1>5, <1>8, <1>9

\* The same for flush(), whose buffer may be empty.
LEMMA FlushBufferKeeps ==
  ASSUME TrackerInv, NEW c \in Callers, FlushBuffer(c),
         UNCHANGED <<counted, dropped>>
  PROVE  /\ buffer' \subseteq Accesses
         /\ snapshot' \in [Flushes -> SUBSET Accesses]
         /\ begun' \subseteq Flushes
         /\ EveryAccessOnce' /\ Unstarted'
         /\ Recorded' = Recorded
  <1>1. CASE buffer = {}
    <2>1. UNCHANGED <<buffer, snapshot, begun>>
      BY <1>1 DEF FlushBuffer
    <2>2. InFlight' = InFlight
      BY <2>1 DEF InFlight
    <2>3. QED
      BY <2>1, <2>2 DEF TrackerInv, TypeOK, EveryAccessOnce, Unstarted, Recorded
  <1>2. CASE buffer # {}
    <2>1. PICK f \in Flushes : DoFlush(f, buffer)
      BY <1>2 DEF FlushBuffer
    <2>2. /\ buffer \in SUBSET Accesses /\ buffer \subseteq buffer
      BY DEF TrackerInv, TypeOK
    <2>3. buffer \cap (InFlight \cup counted \cup dropped) = {}
      BY DEF TrackerInv, EveryAccessOnce
    <2>4. /\ buffer' = {}
          /\ snapshot' \in [Flushes -> SUBSET Accesses]
          /\ begun' \subseteq Flushes
          /\ EveryAccessOnce'
          /\ InFlight' = InFlight \cup buffer
          /\ Unstarted'
      BY <2>1, <2>2, <2>3, DoFlushKeeps
    <2>5. QED
      BY <2>4 DEF Recorded
  <1>3. QED
    BY <1>1, <1>2

LEMMA RecordAccessKeeps ==
  ASSUME TrackerInv, NEW a \in Accesses, RecordAccess(a)
  PROVE  TrackerInv' /\ Recorded \subseteq Recorded'
  <1>1. a \notin Recorded /\ UNCHANGED <<awaited, closed, counted, dropped>>
    BY DEF RecordAccess
  <1>2. CASE Cardinality(buffer \cup {a}) >= FlushThreshold
    <2>1. PICK f \in Flushes : DoFlush(f, buffer \cup {a}) /\ pendingFlush' = f
      BY <1>2 DEF RecordAccess
    <2>2. buffer \cup {a} \in SUBSET Accesses /\ buffer \subseteq buffer \cup {a}
      BY DEF TrackerInv, TypeOK
    <2>3. (buffer \cup {a}) \cap (InFlight \cup counted \cup dropped) = {}
      BY <1>1 DEF TrackerInv, EveryAccessOnce, Recorded
    <2>4. /\ buffer' = {}
          /\ snapshot' \in [Flushes -> SUBSET Accesses]
          /\ begun' \subseteq Flushes
          /\ EveryAccessOnce'
          /\ InFlight' = InFlight \cup (buffer \cup {a})
          /\ Unstarted'
      BY <1>1, <2>1, <2>2, <2>3, DoFlushKeeps
    <2>5. TypeOK'
      BY <1>1, <2>1, <2>4 DEF TrackerInv, TypeOK
    <2>6. QED
      BY <1>1, <2>4, <2>5 DEF TrackerInv, Recorded
  <1>3. CASE ~(Cardinality(buffer \cup {a}) >= FlushThreshold)
    <2>1. buffer' = buffer \cup {a} /\ UNCHANGED <<snapshot, begun, pendingFlush>>
      BY <1>3 DEF RecordAccess
    <2>2. InFlight' = InFlight
      BY <2>1 DEF InFlight
    <2>3. QED
      BY <1>1, <2>1, <2>2 DEF TrackerInv, TypeOK, EveryAccessOnce, Unstarted, Recorded
  <1>4. QED
    BY <1>2, <1>3

LEMMA UpdateOneKeeps ==
  ASSUME TrackerInv, NEW f \in Flushes, NEW a \in Accesses, UpdateOne(f, DocumentOf[a])
  PROVE  TrackerInv' /\ Recorded \subseteq Recorded'
  <1> DEFINE some == {b \in snapshot[f] : DocumentOf[b] = DocumentOf[a]}
  <1>1. /\ snapshot' = [snapshot EXCEPT ![f] = @ \ some]
        /\ \/ counted' = counted \cup some /\ dropped' = dropped
           \/ dropped' = dropped \cup some /\ counted' = counted
        /\ UNCHANGED <<buffer, begun, pendingFlush, awaited, closed>>
    BY DEF UpdateOne
  <1>2. some \subseteq snapshot[f] /\ snapshot[f] \subseteq Accesses
    BY DEF TrackerInv, TypeOK
  <1> HIDE DEF some
  <1>3. \A g \in Flushes : snapshot'[g] = IF g = f THEN snapshot[f] \ some ELSE snapshot[g]
    BY <1>1 DEF TrackerInv, TypeOK
  <1>4. some \subseteq InFlight /\ some \subseteq Accesses
    BY <1>2 DEF InFlight
  <1>5. \A g \in Flushes : g # f => snapshot[g] \cap some = {}
    BY <1>2 DEF TrackerInv, EveryAccessOnce
  <1>6. InFlight' = InFlight \ some
    BY <1>1, <1>3, <1>5 DEF InFlight
  <1>7. TypeOK'
    BY <1>1, <1>2, <1>4 DEF TrackerInv, TypeOK
  <1>8. \A g, h \in Flushes : g # h => snapshot'[g] \cap snapshot'[h] = {}
    BY <1>3 DEF TrackerInv, EveryAccessOnce
  <1>9. EveryAccessOnce'
    BY <1>1, <1>4, <1>6, <1>8 DEF TrackerInv, EveryAccessOnce
  <1>10. Unstarted'
    BY <1>1, <1>3 DEF TrackerInv, Unstarted
  <1>11. QED
    BY <1>1, <1>4, <1>6, <1>7, <1>9, <1>10 DEF TrackerInv, Recorded

\* flush() as it is called, and when what it awaited has ended.
LEMMA FlushKeeps ==
  ASSUME TrackerInv, NEW c \in Callers,
         Flush(c) \/ FlushResumes(c), closed' \in BOOLEAN
  PROVE  TrackerInv' /\ Recorded \subseteq Recorded'
  <1>1. CASE Flush(c)
    <2>1. UNCHANGED <<pendingFlush, counted, dropped>>
      BY <1>1 DEF Flush
    <2>2. CASE pendingFlush = None
      <3>1. FlushBuffer(c) /\ UNCHANGED awaited
        BY <1>1, <2>2 DEF Flush
      <3>2. QED
        BY <2>1, <3>1, FlushBufferKeeps DEF TrackerInv, TypeOK
    <2>3. CASE pendingFlush # None
      <3>1. /\ awaited' = [awaited EXCEPT ![c] = pendingFlush]
            /\ UNCHANGED <<buffer, snapshot, begun>>
        BY <1>1, <2>3 DEF Flush
      <3>2. InFlight' = InFlight
        BY <3>1 DEF InFlight
      <3>3. QED
        BY <2>1, <3>1, <3>2 DEF TrackerInv, TypeOK, EveryAccessOnce, Unstarted, Recorded
    <2>4. QED
      BY <2>2, <2>3
  <1>2. CASE FlushResumes(c)
    <2>1. /\ awaited' = [awaited EXCEPT ![c] = None]
          /\ pendingFlush' = None
          /\ FlushBuffer(c)
          /\ UNCHANGED <<counted, dropped>>
      BY <1>2 DEF FlushResumes
    <2>2. QED
      BY <2>1, FlushBufferKeeps DEF TrackerInv, TypeOK
  <1>3. QED
    BY <1>1, <1>2

LEMMA NextKeeps == TrackerInv /\ [Next]_vars => TrackerInv' /\ Recorded \subseteq Recorded'
  <1> SUFFICES ASSUME TrackerInv, [Next]_vars
               PROVE  TrackerInv' /\ Recorded \subseteq Recorded'
    OBVIOUS
  <1>1. ASSUME NEW a \in Accesses, RecordAccess(a)
        PROVE  TrackerInv' /\ Recorded \subseteq Recorded'
    BY <1>1, RecordAccessKeeps
  <1>2. ASSUME NEW f \in Flushes, NEW a \in Accesses, UpdateOne(f, DocumentOf[a])
        PROVE  TrackerInv' /\ Recorded \subseteq Recorded'
    BY <1>2, UpdateOneKeeps
  <1>3. ASSUME NEW c \in Callers, CallFlush(c) \/ Close(c) \/ FlushResumes(c)
        PROVE  TrackerInv' /\ Recorded \subseteq Recorded'
    <2>1. Flush(c) \/ FlushResumes(c)
      BY <1>3 DEF CallFlush, Close
    <2>2. closed' \in BOOLEAN
      BY <1>3 DEF CallFlush, Close, FlushResumes, TrackerInv, TypeOK
    <2>3. QED
      BY <2>1, <2>2, FlushKeeps
  <1>4. CASE UNCHANGED vars
    <2>1. InFlight' = InFlight
      BY <1>4 DEF vars, InFlight
    <2>2. QED
      BY <1>4, <2>1 DEF vars, TrackerInv, TypeOK, EveryAccessOnce, Unstarted, Recorded
  <1>5. QED
    BY <1>1, <1>2, <1>3, <1>4 DEF Next

LEMMA InitInv == Init => TrackerInv
  <1> SUFFICES ASSUME Init PROVE TrackerInv
    OBVIOUS
  <1>1. \A f \in Flushes : snapshot[f] = {}
    BY DEF Init
  <1>2. InFlight = {}
    BY <1>1 DEF InFlight
  <1>3. QED
    BY <1>1, <1>2 DEF Init, TrackerInv, TypeOK, EveryAccessOnce, Unstarted

THEOREM TrackerInvariant == Spec => []TrackerInv
  <1>1. TrackerInv /\ [Next]_vars => TrackerInv'
    BY NextKeeps
  <1>2. QED
    BY <1>1, InitInv, PTL DEF Spec

\* However the flushes overlap and whichever updates fail, no access is
\* counted twice.
THEOREM CountedOnce == Spec => []EveryAccessOnce
  <1>1. TrackerInv => EveryAccessOnce
    BY DEF TrackerInv
  <1>2. QED
    BY <1>1, TrackerInvariant, PTL

\* No step forgets an access that was recorded.
THEOREM NoAccessForgotten == Spec => NoneForgotten
  <1>1. TrackerInv /\ [Next]_vars => [Recorded \subseteq Recorded']_vars
    BY NextKeeps
  <1>2. QED
    BY <1>1, TrackerInvariant, PTL DEF Spec, NoneForgotten

\* The state of the tracker keeps its types.
THEOREM TypeCorrect == Spec => []TypeOK
  <1>1. TrackerInv => TypeOK
    BY DEF TrackerInv
  <1>2. QED
    BY <1>1, TrackerInvariant, PTL

\* A step empties the buffer, leaves it, or adds an access below the threshold.
LEMMA FlushBufferShrinks ==
  ASSUME NEW c \in Callers, FlushBuffer(c)
  PROVE  buffer' \in {buffer, {}}
  <1>1. CASE buffer = {}
    BY <1>1 DEF FlushBuffer
  <1>2. CASE buffer # {}
    BY <1>2 DEF FlushBuffer, DoFlush
  <1>3. QED
    BY <1>1, <1>2

LEMMA BufferSteps ==
  ASSUME [Next]_vars
  PROVE  \/ buffer' \in {buffer, {}}
         \/ \E a \in Accesses : /\ buffer' = buffer \cup {a}
                                /\ ~(Cardinality(buffer \cup {a}) >= FlushThreshold)
  <1>1. ASSUME NEW a \in Accesses, RecordAccess(a)
        PROVE  \/ buffer' \in {buffer, {}}
               \/ /\ buffer' = buffer \cup {a}
                  /\ ~(Cardinality(buffer \cup {a}) >= FlushThreshold)
    <2>1. CASE Cardinality(buffer \cup {a}) >= FlushThreshold
      BY <1>1, <2>1 DEF RecordAccess, DoFlush
    <2>2. CASE ~(Cardinality(buffer \cup {a}) >= FlushThreshold)
      BY <1>1, <2>2 DEF RecordAccess
    <2>3. QED
      BY <2>1, <2>2
  <1>2. ASSUME NEW f \in Flushes, NEW a \in Accesses, UpdateOne(f, DocumentOf[a])
        PROVE  buffer' = buffer
    BY <1>2 DEF UpdateOne
  <1>3. ASSUME NEW c \in Callers, CallFlush(c) \/ Close(c) \/ FlushResumes(c)
        PROVE  buffer' \in {buffer, {}}
    <2>1. CASE CallFlush(c) \/ Close(c)
      <3>1. Flush(c)
        BY <2>1 DEF CallFlush, Close
      <3>2. FlushBuffer(c) \/ buffer' = buffer
        BY <3>1 DEF Flush
      <3>3. QED
        BY <3>2, FlushBufferShrinks
    <2>2. CASE FlushResumes(c)
      BY <2>2, FlushBufferShrinks DEF FlushResumes
    <2>3. QED
      BY <1>3, <2>1, <2>2
  <1>4. CASE UNCHANGED vars
    BY <1>4 DEF vars
  <1>5. QED
    BY <1>1, <1>2, <1>3, <1>4 DEF Next

\* An access that brings the buffer to the threshold empties it in the same
\* step, so the buffer never reaches the threshold, however long a flush takes.
THEOREM BufferStaysBounded == Spec => []BufferBounded
  <1>1. Init => BufferBounded
    BY TrackerAssumption, FS_EmptySet DEF Init, BufferBounded
  <1>2. BufferBounded /\ TrackerInv /\ [Next]_vars => BufferBounded'
    <2> SUFFICES ASSUME BufferBounded, TrackerInv, [Next]_vars PROVE BufferBounded'
      OBVIOUS
    <2>1. CASE buffer' = buffer
      BY <2>1 DEF BufferBounded
    <2>2. CASE buffer' = {}
      BY <2>2, TrackerAssumption, FS_EmptySet DEF BufferBounded
    <2>3. ASSUME NEW a \in Accesses, buffer' = buffer \cup {a},
                 ~(Cardinality(buffer \cup {a}) >= FlushThreshold)
          PROVE  BufferBounded'
      <3>1. buffer \cup {a} \subseteq Accesses
        BY DEF TrackerInv, TypeOK
      <3>2. IsFiniteSet(buffer \cup {a})
        BY <3>1, TrackerAssumption, FS_Subset
      <3>3. Cardinality(buffer \cup {a}) \in Nat
        BY <3>2, FS_CardinalityType
      <3>4. QED
        BY <2>3, <3>3, TrackerAssumption DEF BufferBounded
    <2>4. QED
      BY <2>1, <2>2, <2>3, BufferSteps
  <1>3. QED
    BY <1>1, <1>2, TrackerInvariant, PTL DEF Spec

=============================================================================

------------------------- MODULE CommandQueueProofs -------------------------
(***************************************************************************)
(* Theorems about CommandQueue, for every value of its constants.          *)
(***************************************************************************)
EXTENDS CommandQueue, FiniteSetTheorems, SequenceTheorems, TLAPS

(***************************************************************************)
(* The pump on one lane                                                    *)
(***************************************************************************)

\* Any set of task ids of a lane is finite, and its size is a number.
LEMMA SlotsFinite ==
  ASSUME NEW act \in SUBSET Entries
  PROVE  IsFiniteSet(act) /\ Cardinality(act) \in Nat
  BY QueueAssumption, FS_Subset, FS_CardinalityType

\* The pump starts a part at the front of the queue and leaves the rest.
LEMMA PumpShape ==
  ASSUME NEW q \in Seq(Entries), NEW act \in SUBSET Entries, NEW m \in Nat
  PROVE  LET k == StartCount(q, act, m)
             rest == SubSeq(q, k + 1, Len(q))
         IN /\ k \in 0..Len(q)
            /\ k < Len(q) => k = Room(act, m)
            /\ Started(q, act, m) \subseteq Entries
            /\ rest \in Seq(Entries)
            /\ Len(rest) = Len(q) - k
            /\ \A i \in 1..Len(rest) : rest[i] = q[k + i]
  <1> DEFINE k == StartCount(q, act, m)
             rest == SubSeq(q, k + 1, Len(q))
  <1>1. Len(q) \in Nat /\ \A i \in 1..Len(q) : q[i] \in Entries
    BY LenProperties, ElementOfSeq
  <1>2. Room(act, m) \in Nat
    BY SlotsFinite DEF Room
  <1>3. k \in 0..Len(q) /\ (k < Len(q) => k = Room(act, m))
    BY <1>1, <1>2 DEF StartCount
  <1>4. Started(q, act, m) \subseteq Entries
    BY <1>1, <1>3 DEF Started
  <1>5. \A i \in (k + 1)..Len(q) : q[i] \in Entries
    BY <1>1, <1>3
  <1> HIDE DEF k
  <1>6. /\ rest \in Seq(Entries)
        /\ Len(rest) = IF k + 1 <= Len(q) THEN Len(q) - (k + 1) + 1 ELSE 0
        /\ \A i \in 1..(Len(q) - (k + 1) + 1) : rest[i] = q[(k + 1) + i - 1]
    <2>1. k + 1 \in Int /\ Len(q) \in Int
      BY <1>1, <1>3
    <2>2. QED
      BY <2>1, <1>5, SubSeqProperties
  <1>7. Len(rest) = Len(q) - k
    BY <1>1, <1>3, <1>6
  <1>8. \A i \in 1..Len(rest) : rest[i] = q[k + i]
    BY <1>1, <1>3, <1>6, <1>7
  <1>9. QED
    BY <1>3, <1>4, <1>6, <1>7, <1>8 DEF k

\* After the pump either nothing waits or no slot is free.
LEMMA PumpFills ==
  ASSUME NEW q \in Seq(Entries), NEW act \in SUBSET Entries, NEW m \in Nat,
         \A i, j \in 1..Len(q) : q[i] = q[j] => i = j,
         \A i \in 1..Len(q) : q[i] \notin act,
         SubSeq(q, StartCount(q, act, m) + 1, Len(q)) # <<>>
  PROVE  Cardinality(act \cup Started(q, act, m)) >= m
  <1> DEFINE k == StartCount(q, act, m)
             S == Started(q, act, m)
  <1>1. k \in 0..Len(q) /\ Len(q) \in Nat /\ S \subseteq Entries
    BY PumpShape, LenProperties
  <1>2. k = Room(act, m)
    <2>1. k < Len(q)
      BY <1>1, SubSeqEmpty
    <2>2. QED
      BY <2>1, PumpShape
  <1>3. /\ IsFiniteSet(act) /\ Cardinality(act) \in Nat
        /\ IsFiniteSet(act \cup S) /\ Cardinality(act \cup S) \in Nat
    BY <1>1, SlotsFinite
  <1>4. CASE m <= Cardinality(act)
    <2>1. Cardinality(act) <= Cardinality(act \cup S)
      BY <1>3, FS_Subset
    <2>2. QED
      BY <1>3, <1>4, <2>1
  <1>5. CASE m > Cardinality(act)
    <2>1. k = m - Cardinality(act)
      BY <1>2, <1>3, <1>5 DEF Room
    <2>2. Cardinality(S) = k /\ IsFiniteSet(S)
      <3> DEFINE f == [i \in 1..k |-> q[i]]
      <3>1. S = {q[i] : i \in 1..k}
        BY DEF Started
      <3>2. f \in Bijection(1..k, S)
        <4> HIDE DEF k, S
        <4>1. f \in [1..k -> S]
          BY <3>1
        <4>2. \A i, j \in 1..k : f[i] = f[j] => i = j
          BY <1>1
        <4>3. \A x \in S : \E i \in 1..k : f[i] = x
          BY <3>1
        <4>4. QED
          BY <4>1, <4>2, <4>3 DEF Bijection, Injection, Surjection, IsInjective
      <3>3. IsFiniteSet(1..k) /\ Cardinality(1..k) = k
        <4>1. k \in Nat
          BY <1>1
        <4> HIDE DEF k
        <4>2. IsFiniteSet(1..k)
          BY <4>1, FS_Interval
        <4>3. Cardinality(1..k) = IF 1 > k THEN 0 ELSE k - 1 + 1
          BY <4>1, FS_Interval
        <4>4. QED
          BY <4>1, <4>2, <4>3
      <3>4. QED
        BY <3>2, <3>3, FS_Bijection DEF ExistsBijection
    <2>3. act \cap S = {}
      BY <1>1 DEF Started
    <2>4. Cardinality(act \cup S) = Cardinality(act) + Cardinality(S)
      <3> HIDE DEF S
      <3>1. Cardinality(act \cap S) = 0
        BY <2>3, FS_EmptySet
      <3>2. Cardinality(act \cup S) =
              Cardinality(act) + Cardinality(S) - Cardinality(act \cap S)
        BY <1>3, <2>2, FS_Union
      <3>3. QED
        BY <1>1, <1>3, <2>2, <3>1, <3>2
    <2>5. QED
      BY <1>3, <2>1, <2>2, <2>4
  <1>6. QED
    BY <1>3, <1>4, <1>5

(***************************************************************************)
(* The invariants, with the state as parameters: a handler leaves queues,  *)
(* slots, generations and bodies behind, and the pump goes on from there.  *)
(***************************************************************************)
QueueOf(q, bod, pro) ==
  \A l \in Lanes : \A i, j \in 1..Len(q[l]) :
    /\ LaneOf[q[l][i]] = l
    /\ bod[q[l][i]] = "idle"
    /\ pro[q[l][i]] = "pending"
    /\ q[l][i] = q[l][j] => i = j

SlotsOf(act, gen, tg, bod, pro) ==
  \A l \in Lanes : \A e \in act[l] :
    /\ LaneOf[e] = l
    /\ bod[e] = "running"
    /\ pro[e] = "pending"
    /\ tg[e] = gen[l]

PendingOf(q, act, gen, tg, bod, pro) ==
  \A e \in Entries : pro[e] = "pending" =>
    \/ bod[e] = "idle" /\ \E i \in 1..Len(q[LaneOf[e]]) : q[LaneOf[e]][i] = e
    \/ bod[e] = "running" /\ e \in act[LaneOf[e]]
    \/ bod[e] = "running" /\ tg[e] < gen[LaneOf[e]]

RunOf(bod, pro) ==
  \A e \in Entries : bod[e] # "idle" => pro[e] \notin {"none", "refused", "cleared"}

BusyOf(q, act, max) ==
  \A l \in Lanes : q[l] # <<>> => Cardinality(act[l]) >= max[l]

\* What the pump does to the lanes and to the entries.
PumpEffect(P, q, act, max, gen, bod) ==
  /\ queue' \in [Lanes -> Seq(Entries)]
  /\ active' \in [Lanes -> SUBSET Entries]
  /\ body' \in [Entries -> BodyStates]
  /\ taskGeneration' \in [Entries -> Nat]
  /\ \A l \in Lanes \ P : queue'[l] = q[l] /\ active'[l] = act[l]
  /\ \A l \in P :
       /\ queue'[l] = SubSeq(q[l], StartCount(q[l], act[l], max[l]) + 1, Len(q[l]))
       /\ active'[l] = act[l] \cup Started(q[l], act[l], max[l])
  /\ \A e \in Entries :
       LET new == LaneOf[e] \in P
                  /\ e \in Started(q[LaneOf[e]], act[LaneOf[e]], max[LaneOf[e]])
       IN /\ new => body'[e] = "running" /\ taskGeneration'[e] = gen[LaneOf[e]]
          /\ ~new => body'[e] = bod[e] /\ taskGeneration'[e] = taskGeneration[e]

LEMMA DrainEffect ==
  ASSUME NEW P \in SUBSET Lanes, NEW q \in [Lanes -> Seq(Entries)],
         NEW act \in [Lanes -> SUBSET Entries], NEW max \in [Lanes -> Nat],
         NEW gen \in [Lanes -> Nat], NEW bod \in [Entries -> BodyStates],
         taskGeneration \in [Entries -> Nat],
         DrainLanes(P, q, act, max, gen, bod)
  PROVE  PumpEffect(P, q, act, max, gen, bod)
  <1>1. \A l \in Lanes :
          /\ SubSeq(q[l], StartCount(q[l], act[l], max[l]) + 1, Len(q[l])) \in Seq(Entries)
          /\ Started(q[l], act[l], max[l]) \subseteq Entries
    BY PumpShape
  <1>2. \A e \in Entries : LaneOf[e] \in Lanes
    BY QueueAssumption
  <1>3. /\ queue' \in [Lanes -> Seq(Entries)]
        /\ active' \in [Lanes -> SUBSET Entries]
    BY <1>1 DEF DrainLanes
  <1>4. /\ body' \in [Entries -> BodyStates]
        /\ taskGeneration' \in [Entries -> Nat]
    BY <1>1, <1>2 DEF DrainLanes, BodyStates
  <1>5. \A l \in Lanes \ P : queue'[l] = q[l] /\ active'[l] = act[l]
    BY DEF DrainLanes
  <1>6. \A l \in P :
          /\ queue'[l] = SubSeq(q[l], StartCount(q[l], act[l], max[l]) + 1, Len(q[l]))
          /\ active'[l] = act[l] \cup Started(q[l], act[l], max[l])
    BY DEF DrainLanes
  <1>7. \A e \in Entries :
          LET new == LaneOf[e] \in P
                     /\ e \in Started(q[LaneOf[e]], act[LaneOf[e]], max[LaneOf[e]])
          IN /\ new => body'[e] = "running" /\ taskGeneration'[e] = gen[LaneOf[e]]
             /\ ~new => body'[e] = bod[e] /\ taskGeneration'[e] = taskGeneration[e]
    BY <1>2 DEF DrainLanes
  <1>8. QED
    BY <1>3, <1>4, <1>5, <1>6, <1>7 DEF PumpEffect

\* The pump keeps the order, the ownership of slots and the account of the
\* pending calls, and it leaves no lane with both a free slot and an entry.
LEMMA DrainPreserves ==
  ASSUME NEW P \in SUBSET Lanes, NEW q \in [Lanes -> Seq(Entries)],
         NEW act \in [Lanes -> SUBSET Entries], NEW max \in [Lanes -> Nat],
         NEW gen \in [Lanes -> Nat], NEW bod \in [Entries -> BodyStates],
         NEW pro, taskGeneration \in [Entries -> Nat],
         DrainLanes(P, q, act, max, gen, bod),
         QueueOf(q, bod, pro),
         SlotsOf(act, gen, taskGeneration, bod, pro),
         PendingOf(q, act, gen, taskGeneration, bod, pro),
         RunOf(bod, pro),
         \A l \in Lanes \ P : q[l] # <<>> => Cardinality(act[l]) >= max[l]
  PROVE  /\ QueueOf(queue', body', pro)
         /\ SlotsOf(active', gen, taskGeneration', body', pro)
         /\ PendingOf(queue', active', gen, taskGeneration', body', pro)
         /\ RunOf(body', pro)
         /\ BusyOf(queue', active', max)
  <1> DEFINE k(l) == StartCount(q[l], act[l], max[l])
             S(l) == Started(q[l], act[l], max[l])
  <1>0. PumpEffect(P, q, act, max, gen, bod)
    BY DrainEffect
  <1>1. \A e \in Entries : LaneOf[e] \in Lanes
    BY QueueAssumption
  <1>2. \A l \in Lanes : /\ q[l] \in Seq(Entries) /\ Len(q[l]) \in Nat
                         /\ \A i \in 1..Len(q[l]) : q[l][i] \in Entries
                         /\ act[l] \in SUBSET Entries /\ max[l] \in Nat
    BY LenProperties, ElementOfSeq
  <1>3. \A l \in Lanes :
          /\ k(l) \in 0..Len(q[l])
          /\ S(l) = {q[l][i] : i \in 1..k(l)}
    BY <1>2, PumpShape DEF Started
  <1>4. \A l \in P : /\ Len(queue'[l]) = Len(q[l]) - k(l)
                     /\ \A i \in 1..Len(queue'[l]) : queue'[l][i] = q[l][k(l) + i]
                     /\ active'[l] = act[l] \cup S(l)
    <2> SUFFICES ASSUME NEW l \in P
                 PROVE  /\ Len(queue'[l]) = Len(q[l]) - k(l)
                        /\ \A i \in 1..Len(queue'[l]) : queue'[l][i] = q[l][k(l) + i]
                        /\ active'[l] = act[l] \cup S(l)
      OBVIOUS
    <2>1. /\ queue'[l] = SubSeq(q[l], k(l) + 1, Len(q[l]))
          /\ active'[l] = act[l] \cup S(l)
      BY <1>0 DEF PumpEffect
    <2>2. q[l] \in Seq(Entries) /\ act[l] \in SUBSET Entries /\ max[l] \in Nat
      BY <1>2
    <2>3. /\ Len(SubSeq(q[l], k(l) + 1, Len(q[l]))) = Len(q[l]) - k(l)
          /\ \A i \in 1..Len(SubSeq(q[l], k(l) + 1, Len(q[l]))) :
               SubSeq(q[l], k(l) + 1, Len(q[l]))[i] = q[l][k(l) + i]
      BY <2>2, PumpShape
    <2>4. QED
      BY <2>1, <2>3
  <1>5. \A l \in Lanes \ P : queue'[l] = q[l] /\ active'[l] = act[l]
    BY <1>0 DEF PumpEffect
  <1>6. \A e \in Entries :
          LET new == LaneOf[e] \in P /\ e \in S(LaneOf[e])
          IN /\ new => body'[e] = "running" /\ taskGeneration'[e] = gen[LaneOf[e]]
             /\ ~new => body'[e] = bod[e] /\ taskGeneration'[e] = taskGeneration[e]
    BY <1>0 DEF PumpEffect
  <1>a. \A l \in Lanes : \A i \in 1..Len(q[l]) :
          /\ q[l][i] \in Entries /\ LaneOf[q[l][i]] = l
          /\ bod[q[l][i]] = "idle" /\ pro[q[l][i]] = "pending"
    BY <1>2 DEF QueueOf
  <1>b. \A l \in Lanes : \A i, j \in 1..Len(q[l]) : q[l][i] = q[l][j] => i = j
    BY DEF QueueOf
  <1>7. \A l \in P : queue'[l] # <<>> => Cardinality(active'[l]) >= max[l]
    <2> SUFFICES ASSUME NEW l \in P, queue'[l] # <<>>
                 PROVE  Cardinality(active'[l]) >= max[l]
      OBVIOUS
    <2>1. \A i, j \in 1..Len(q[l]) : q[l][i] = q[l][j] => i = j
      BY <1>b
    <2>2. \A i \in 1..Len(q[l]) : q[l][i] \notin act[l]
      BY <1>a DEF SlotsOf
    <2>3. SubSeq(q[l], StartCount(q[l], act[l], max[l]) + 1, Len(q[l])) # <<>>
      BY <1>0 DEF PumpEffect
    <2>4. Cardinality(act[l] \cup Started(q[l], act[l], max[l])) >= max[l]
      BY <1>2, <2>1, <2>2, <2>3, PumpFills
    <2>5. QED
      BY <1>4, <2>4
  <1> HIDE DEF k, S
  <1>8. QueueOf(queue', body', pro)
    <2>1. ASSUME NEW l \in Lanes \ P, NEW i \in 1..Len(q[l])
          PROVE  body'[q[l][i]] = bod[q[l][i]]
      BY <1>6, <1>a, <2>1
    <2>2. ASSUME NEW l \in P, NEW i \in 1..Len(queue'[l])
          PROVE  /\ k(l) + i \in 1..Len(q[l])
                 /\ queue'[l][i] = q[l][k(l) + i]
                 /\ body'[q[l][k(l) + i]] = bod[q[l][k(l) + i]]
      <3>1. /\ Len(queue'[l]) = Len(q[l]) - k(l)
            /\ Len(q[l]) \in Nat
            /\ k(l) \in Nat /\ k(l) <= Len(q[l])
        BY <1>2, <1>3, <1>4
      <3>2. queue'[l][i] = q[l][k(l) + i]
        BY <1>4
      <3>3. k(l) + i \in 1..Len(q[l])
        BY <3>1
      <3>4. ASSUME NEW n \in 1..k(l), q[l][n] = q[l][k(l) + i]
            PROVE  FALSE
        <4>1. n \in 1..Len(q[l]) /\ n # k(l) + i
          BY <3>1
        <4>2. QED
          BY <1>b, <3>3, <3>4, <4>1
      <3>5. q[l][k(l) + i] \notin S(l)
        <4>1. S(l) = {q[l][n] : n \in 1..k(l)}
          BY <1>3
        <4>2. QED
          BY <3>4, <4>1
      <3>6. QED
        BY <1>6, <1>a, <3>2, <3>3, <3>5
    <2>3. ASSUME NEW l \in Lanes, NEW i \in 1..Len(queue'[l]), NEW j \in 1..Len(queue'[l])
          PROVE  /\ LaneOf[queue'[l][i]] = l
                 /\ body'[queue'[l][i]] = "idle"
                 /\ pro[queue'[l][i]] = "pending"
                 /\ queue'[l][i] = queue'[l][j] => i = j
      <3>1. CASE l \notin P
        <4>1. queue'[l] = q[l] /\ i \in 1..Len(q[l]) /\ j \in 1..Len(q[l])
          BY <1>5, <3>1
        <4>2. body'[q[l][i]] = bod[q[l][i]]
          BY <2>1, <3>1, <4>1
        <4>3. q[l][i] = q[l][j] => i = j
          BY <1>b, <4>1
        <4>4. QED
          BY <1>a, <4>1, <4>2, <4>3
      <3>2. CASE l \in P
        <4>1. k(l) \in Nat
          BY <1>3, <1>2
        <4>2. /\ LaneOf[queue'[l][i]] = l
              /\ body'[queue'[l][i]] = "idle"
              /\ pro[queue'[l][i]] = "pending"
          BY <1>a, <2>2, <3>2
        <4>3. queue'[l][i] = queue'[l][j] => k(l) + i = k(l) + j
          <5>1. /\ k(l) + i \in 1..Len(q[l]) /\ k(l) + j \in 1..Len(q[l])
                /\ queue'[l][i] = q[l][k(l) + i] /\ queue'[l][j] = q[l][k(l) + j]
            BY <2>2, <3>2
          <5>2. QED
            BY <1>b, <5>1
        <4>4. QED
          BY <4>1, <4>2, <4>3
      <3>3. QED
        BY <3>1, <3>2
    <2>4. QED
      BY <2>3 DEF QueueOf
  <1>9. SlotsOf(active', gen, taskGeneration', body', pro)
    <2> SUFFICES ASSUME NEW l \in Lanes, NEW e \in active'[l]
                 PROVE  /\ LaneOf[e] = l
                        /\ body'[e] = "running"
                        /\ pro[e] = "pending"
                        /\ taskGeneration'[e] = gen[l]
      BY DEF SlotsOf
    <2>1. CASE e \in act[l]
      <3>1. e \in Entries /\ bod[e] = "running" /\ LaneOf[e] = l
        BY <1>2, <2>1 DEF SlotsOf
      <3>2. e \notin S(l)
        BY <1>2, <1>3, <3>1 DEF QueueOf
      <3>3. QED
        BY <1>6, <2>1, <3>1, <3>2 DEF SlotsOf
    <2>2. CASE e \notin act[l]
      <3>1. l \in P /\ e \in S(l)
        BY <1>4, <1>5, <2>2
      <3>2. PICK i \in 1..Len(q[l]) : e = q[l][i]
        BY <1>2, <1>3, <3>1
      <3>3. e \in Entries /\ LaneOf[e] = l /\ pro[e] = "pending"
        BY <1>2, <3>2 DEF QueueOf
      <3>4. QED
        BY <1>6, <3>1, <3>3
    <2>3. QED
      BY <2>1, <2>2
  <1>10. PendingOf(queue', active', gen, taskGeneration', body', pro)
    <2> SUFFICES ASSUME NEW e \in Entries, pro[e] = "pending"
                 PROVE
          \/ body'[e] = "idle" /\ \E i \in 1..Len(queue'[LaneOf[e]]) : queue'[LaneOf[e]][i] = e
          \/ body'[e] = "running" /\ e \in active'[LaneOf[e]]
          \/ body'[e] = "running" /\ taskGeneration'[e] < gen[LaneOf[e]]
      BY DEF PendingOf
    <2> DEFINE l == LaneOf[e]
    <2>1. CASE l \in P /\ e \in S(l)
      BY <1>1, <1>4, <1>6, <2>1
    <2>2. CASE ~(l \in P /\ e \in S(l))
      <3>1. body'[e] = bod[e] /\ taskGeneration'[e] = taskGeneration[e]
        BY <1>6, <2>2
      <3>2. act[l] \subseteq active'[l]
        BY <1>1, <1>4, <1>5
      <3>3. ASSUME NEW i \in 1..Len(q[l]), q[l][i] = e
            PROVE  \E j \in 1..Len(queue'[l]) : queue'[l][j] = e
        <4>1. CASE l \notin P
          BY <1>1, <1>5, <3>3, <4>1
        <4>2. CASE l \in P
          <5>1. i \in Nat /\ i > k(l)
            BY <1>1, <1>2, <1>3, <2>2, <3>3, <4>2
          <5>2. i - k(l) \in 1..Len(queue'[l]) /\ queue'[l][i - k(l)] = q[l][k(l) + (i - k(l))]
            <6>1. /\ Len(queue'[l]) = Len(q[l]) - k(l) /\ Len(q[l]) \in Nat
                  /\ k(l) \in Nat /\ k(l) <= Len(q[l])
              BY <1>1, <1>2, <1>3, <1>4, <4>2
            <6>2. i - k(l) \in 1..Len(queue'[l])
              BY <3>3, <5>1, <6>1
            <6>3. QED
              BY <1>4, <4>2, <6>2
          <5>3. k(l) + (i - k(l)) = i
            BY <1>1, <1>3, <5>1
          <5>4. QED
            BY <3>3, <5>2, <5>3
        <4>3. QED
          BY <4>1, <4>2
      <3>4. QED
        BY <3>1, <3>2, <3>3 DEF PendingOf
    <2>3. QED
      BY <2>1, <2>2
  <1>11. RunOf(body', pro)
    <2> SUFFICES ASSUME NEW e \in Entries, body'[e] # "idle"
                 PROVE  pro[e] \notin {"none", "refused", "cleared"}
      BY DEF RunOf
    <2>1. CASE LaneOf[e] \in P /\ e \in S(LaneOf[e])
      <3>1. PICK i \in 1..Len(q[LaneOf[e]]) : e = q[LaneOf[e]][i]
        <4>1. /\ LaneOf[e] \in Lanes
              /\ k(LaneOf[e]) \in 0..Len(q[LaneOf[e]])
              /\ Len(q[LaneOf[e]]) \in Nat
              /\ S(LaneOf[e]) = {q[LaneOf[e]][n] : n \in 1..k(LaneOf[e])}
          BY <1>1, <1>2, <1>3
        <4>2. PICK n \in 1..k(LaneOf[e]) : e = q[LaneOf[e]][n]
          BY <2>1, <4>1
        <4>3. n \in 1..Len(q[LaneOf[e]])
          BY <4>1
        <4>4. QED
          BY <4>2, <4>3
      <3>2. QED
        BY <1>1, <1>a, <2>1, <3>1
    <2>2. CASE ~(LaneOf[e] \in P /\ e \in S(LaneOf[e]))
      BY <1>6, <2>2 DEF RunOf
    <2>3. QED
      BY <2>1, <2>2
  <1>12. BusyOf(queue', active', max)
    BY <1>5, <1>7 DEF BusyOf
  <1>13. QED
    BY <1>8, <1>9, <1>10, <1>11, <1>12

(***************************************************************************)
(* The inductive invariant                                                 *)
(***************************************************************************)
CoreOf(q, act, max, gen, tg, bod, pro) ==
  /\ QueueOf(q, bod, pro)
  /\ SlotsOf(act, gen, tg, bod, pro)
  /\ PendingOf(q, act, gen, tg, bod, pro)
  /\ RunOf(bod, pro)
  /\ BusyOf(q, act, max)

Core == CoreOf(queue, active, maxConcurrent, generation, taskGeneration, body, promise)

LEMMA CoreIsInvariant ==
  ASSUME TypeOK
  PROVE  Core <=> /\ QueuedOnce /\ SlotsAreOwned /\ PendingAccounted
                  /\ OnlyAcceptedRun /\ WorkConserving
  <1>1. \A e \in Entries : LaneOf[e] \in Lanes
    BY QueueAssumption
  <1>2. QueuedOnce <=> QueueOf(queue, body, promise)
    BY DEF QueuedOnce, QueueOf
  <1>3. SlotsAreOwned <=> SlotsOf(active, generation, taskGeneration, body, promise)
    BY DEF SlotsAreOwned, SlotsOf
  <1>4. PendingAccounted
          <=> PendingOf(queue, active, generation, taskGeneration, body, promise)
    BY DEF PendingAccounted, PendingOf, Queued
  <1>5. OnlyAcceptedRun <=> RunOf(body, promise)
    BY DEF OnlyAcceptedRun, RunOf
  <1>6. WorkConserving <=> BusyOf(queue, active, maxConcurrent)
    BY DEF WorkConserving, BusyOf
  <1>7. QED
    BY <1>2, <1>3, <1>4, <1>5, <1>6 DEF Core, CoreOf

\* A waiter that is not answered still waits for a slot of act, and the pump
\* only adds slots.
LEMMA NotifyKeepsCause ==
  ASSUME NEW act, \A l \in Lanes : act[l] \subseteq active'[l],
         NotifyActiveTaskWaiters(act)
  PROVE  WaitersHaveCause'
  BY DEF NotifyActiveTaskWaiters, WaitersHaveCause, AllActive

LEMMA WaitUnchangedKeepsCause ==
  ASSUME \A l \in Lanes : active[l] \subseteq active'[l],
         WaitersHaveCause, UNCHANGED waitVars
  PROVE  WaitersHaveCause'
  BY DEF WaitersHaveCause, AllActive, waitVars

LEMMA NotifyType ==
  ASSUME TypeOK, NEW act, NotifyActiveTaskWaiters(act)
  PROVE  waiter' \in [Waiters -> WaiterStates] /\ captured' \in [Waiters -> SUBSET Entries]
  BY DEF NotifyActiveTaskWaiters, TypeOK, WaiterStates

\* A handler that leaves a good state behind and pumps keeps the invariant.
LEMMA PumpKeepsCore ==
  ASSUME TypeOK, NEW P \in SUBSET Lanes, NEW q \in [Lanes -> Seq(Entries)],
         NEW act \in [Lanes -> SUBSET Entries], NEW bod \in [Entries -> BodyStates],
         maxConcurrent' \in [Lanes -> Nat], generation' \in [Lanes -> Nat],
         DrainLanes(P, q, act, maxConcurrent', generation', bod),
         QueueOf(q, bod, promise'),
         SlotsOf(act, generation', taskGeneration, bod, promise'),
         PendingOf(q, act, generation', taskGeneration, bod, promise'),
         RunOf(bod, promise'),
         \A l \in Lanes \ P : q[l] # <<>> => Cardinality(act[l]) >= maxConcurrent'[l]
  PROVE  /\ queue' \in [Lanes -> Seq(Entries)]
         /\ active' \in [Lanes -> SUBSET Entries]
         /\ body' \in [Entries -> BodyStates]
         /\ taskGeneration' \in [Entries -> Nat]
         /\ Core'
         /\ \A l \in Lanes : act[l] \subseteq active'[l]
  <1>1. taskGeneration \in [Entries -> Nat]
    BY DEF TypeOK
  <1>2. PumpEffect(P, q, act, maxConcurrent', generation', bod)
    BY <1>1, DrainEffect
  <1>3. /\ QueueOf(queue', body', promise')
        /\ SlotsOf(active', generation', taskGeneration', body', promise')
        /\ PendingOf(queue', active', generation', taskGeneration', body', promise')
        /\ RunOf(body', promise')
        /\ BusyOf(queue', active', maxConcurrent')
    BY <1>1, DrainPreserves
  <1>4. Core'
    BY <1>3 DEF Core, CoreOf
  <1>5. \A l \in Lanes : act[l] \subseteq active'[l]
    BY <1>2 DEF PumpEffect
  <1>6. QED
    BY <1>2, <1>4, <1>5 DEF PumpEffect

LEMMA EnqueueKeeps ==
  ASSUME TypeOK, Core, WaitersHaveCause, NEW e \in Entries, EnqueueCommandInLane(e)
  PROVE  TypeOK' /\ Core' /\ WaitersHaveCause'
  <1> DEFINE l == LaneOf[e]
             q == [queue EXCEPT ![l] = Append(@, e)]
  <1>1. l \in Lanes
    BY QueueAssumption
  <1>2. /\ promise[e] = "none" /\ promise' = [promise EXCEPT ![e] = "pending"]
        /\ maxConcurrent' = maxConcurrent /\ generation' = generation
        /\ gatewayDraining' = gatewayDraining
        /\ UNCHANGED waitVars
        /\ DrainLanes({l}, q, active, maxConcurrent', generation', body)
    BY DEF EnqueueCommandInLane, laneVars
  <1>3. body[e] = "idle"
    BY <1>2 DEF Core, CoreOf, RunOf
  <1>4. q \in [Lanes -> Seq(Entries)]
    BY <1>1 DEF TypeOK
  <1>5. /\ queue[l] \in Seq(Entries) /\ Len(queue[l]) \in Nat
        /\ q[l] = Append(queue[l], e)
        /\ Len(q[l]) = Len(queue[l]) + 1
        /\ q[l][Len(q[l])] = e
        /\ \A i \in 1..Len(queue[l]) : q[l][i] = queue[l][i]
        /\ \A m \in Lanes \ {l} : q[m] = queue[m]
    BY <1>1 DEF TypeOK
  <1>6. \A m \in Lanes : \A i \in 1..Len(queue[m]) : queue[m][i] # e
    BY <1>2 DEF Core, CoreOf, QueueOf
  <1> HIDE DEF q
  <1>7. QueueOf(q, body, promise')
    <2> SUFFICES ASSUME NEW m \in Lanes, NEW i \in 1..Len(q[m]), NEW j \in 1..Len(q[m])
                 PROVE  /\ LaneOf[q[m][i]] = m
                        /\ body[q[m][i]] = "idle"
                        /\ promise'[q[m][i]] = "pending"
                        /\ q[m][i] = q[m][j] => i = j
      BY DEF QueueOf
    <2>1. \A n \in Lanes : \A x \in 1..Len(queue[n]) :
            /\ LaneOf[queue[n][x]] = n /\ body[queue[n][x]] = "idle"
            /\ promise[queue[n][x]] = "pending" /\ queue[n][x] \in Entries
      BY ElementOfSeq DEF Core, CoreOf, QueueOf, TypeOK
    <2>2. \A n \in Lanes : \A x, y \in 1..Len(queue[n]) : queue[n][x] = queue[n][y] => x = y
      BY DEF Core, CoreOf, QueueOf
    <2>3. \A x \in Entries : x # e => promise'[x] = promise[x]
      BY <1>2
    <2>4. promise'[e] = "pending"
      BY <1>2 DEF TypeOK
    <2>5. CASE m # l
      BY <1>5, <1>6, <2>1, <2>2, <2>3, <2>5
    <2>6. CASE m = l
      <3>1. i \in 1..Len(queue[l]) \/ i = Len(queue[l]) + 1
        BY <1>5, <2>6
      <3>2. j \in 1..Len(queue[l]) \/ j = Len(queue[l]) + 1
        BY <1>5, <2>6
      <3>3. /\ LaneOf[q[m][i]] = m
            /\ body[q[m][i]] = "idle"
            /\ promise'[q[m][i]] = "pending"
        <4>1. CASE i \in 1..Len(queue[l])
          <5>1. q[m][i] = queue[l][i]
            BY <1>5, <2>6, <4>1
          <5>2. QED
            BY <1>1, <1>6, <2>1, <2>3, <2>6, <4>1, <5>1
        <4>2. CASE i = Len(queue[l]) + 1
          <5>1. q[m][i] = e
            BY <1>5, <2>6, <4>2
          <5>2. QED
            BY <1>3, <2>4, <2>6, <5>1
        <4>3. QED
          BY <3>1, <4>1, <4>2
      <3>4. ASSUME q[m][i] = q[m][j] PROVE i = j
        <4> DEFINE old == queue[l]
        <4>1. /\ \A x \in 1..Len(old) : q[m][x] = old[x] /\ q[m][x] # e
              /\ q[m][Len(old) + 1] = e
          BY <1>1, <1>5, <1>6, <2>6
        <4>2. \A x, y \in 1..Len(old) : old[x] = old[y] => x = y
          BY <1>1, <2>2
        <4> HIDE DEF old
        <4>3. CASE i \in 1..Len(old) /\ j \in 1..Len(old)
          <5>1. old[i] = old[j]
            BY <3>4, <4>1, <4>3
          <5>2. QED
            BY <4>2, <4>3, <5>1
        <4>4. CASE i \in 1..Len(old) /\ j = Len(old) + 1
          BY <3>4, <4>1, <4>4
        <4>5. CASE i = Len(old) + 1 /\ j \in 1..Len(old)
          BY <3>4, <4>1, <4>5
        <4>6. CASE i = Len(old) + 1 /\ j = Len(old) + 1
          BY <4>6
        <4>7. QED
          BY <3>1, <3>2, <4>3, <4>4, <4>5, <4>6 DEF old
      <3>5. QED
        BY <3>3, <3>4
    <2>7. QED
      BY <2>5, <2>6
  <1>8. SlotsOf(active, generation', taskGeneration, body, promise')
    <2>1. \A m \in Lanes : \A x \in active[m] : x \in Entries /\ x # e
      BY <1>2 DEF Core, CoreOf, SlotsOf, TypeOK
    <2>2. QED
      BY <1>2, <2>1 DEF Core, CoreOf, SlotsOf
  <1>9. PendingOf(q, active, generation', taskGeneration, body, promise')
    <2> SUFFICES ASSUME NEW x \in Entries, promise'[x] = "pending"
                 PROVE
          \/ body[x] = "idle" /\ \E i \in 1..Len(q[LaneOf[x]]) : q[LaneOf[x]][i] = x
          \/ body[x] = "running" /\ x \in active[LaneOf[x]]
          \/ body[x] = "running" /\ taskGeneration[x] < generation'[LaneOf[x]]
      BY DEF PendingOf
    <2>1. CASE x = e
      <3>1. Len(q[l]) \in 1..Len(q[l])
        BY <1>5
      <3>2. QED
        BY <1>3, <1>5, <2>1, <3>1
    <2>2. CASE x # e
      <3>1. promise[x] = "pending" /\ LaneOf[x] \in Lanes
        BY <1>2, <2>2, QueueAssumption
      <3>2. ASSUME NEW i \in 1..Len(queue[LaneOf[x]]), queue[LaneOf[x]][i] = x
            PROVE  \E j \in 1..Len(q[LaneOf[x]]) : q[LaneOf[x]][j] = x
        <4>1. CASE LaneOf[x] = l
          <5>1. i \in 1..Len(q[l]) /\ q[l][i] = x
            BY <1>5, <3>2, <4>1
          <5>2. QED
            BY <4>1, <5>1
        <4>2. CASE LaneOf[x] # l
          BY <1>5, <3>1, <3>2, <4>2
        <4>3. QED
          BY <4>1, <4>2
      <3>3. QED
        BY <1>2, <3>1, <3>2 DEF Core, CoreOf, PendingOf
    <2>3. QED
      BY <2>1, <2>2
  <1>10. RunOf(body, promise')
    BY <1>2, <1>3 DEF Core, CoreOf, RunOf, TypeOK
  <1>11. \A m \in Lanes \ {l} : q[m] # <<>> => Cardinality(active[m]) >= maxConcurrent'[m]
    BY <1>2, <1>5 DEF Core, CoreOf, BusyOf
  <1>12. /\ active \in [Lanes -> SUBSET Entries] /\ body \in [Entries -> BodyStates]
         /\ maxConcurrent' \in [Lanes -> Nat] /\ generation' \in [Lanes -> Nat]
         /\ {l} \in SUBSET Lanes
    BY <1>1, <1>2 DEF TypeOK
  <1>13. /\ queue' \in [Lanes -> Seq(Entries)]
         /\ active' \in [Lanes -> SUBSET Entries]
         /\ body' \in [Entries -> BodyStates]
         /\ taskGeneration' \in [Entries -> Nat]
         /\ Core'
         /\ \A m \in Lanes : active[m] \subseteq active'[m]
    BY <1>2, <1>4, <1>7, <1>8, <1>9, <1>10, <1>11, <1>12, PumpKeepsCore
  <1>14. TypeOK'
    BY <1>2, <1>12, <1>13 DEF TypeOK, waitVars
  <1>15. QED
    BY <1>2, <1>13, <1>14, WaitUnchangedKeepsCause

\* Both ends of a running entry, its own and its timer's.
LEMMA CompletionKeeps ==
  ASSUME TypeOK, Core, WaitersHaveCause, NEW e \in Entries,
         body[e] = "running", promise[e] = "pending",
         NEW outcome \in {"resolved", "rejected", "timedOut"},
         promise' = [promise EXCEPT ![e] = outcome],
         NEW bod \in [Entries -> BodyStates], bod[e] # "idle",
         \A x \in Entries \ {e} : bod[x] = body[x],
         CompleteTask(e, bod), UNCHANGED laneVars
  PROVE  TypeOK' /\ Core' /\ WaitersHaveCause'
  <1> DEFINE l == LaneOf[e]
             act == [active EXCEPT ![l] = @ \ {e}]
  <1>1. /\ l \in Lanes /\ \A x \in Entries : LaneOf[x] \in Lanes
        /\ active \in [Lanes -> SUBSET Entries]
        /\ queue \in [Lanes -> Seq(Entries)]
        /\ taskGeneration \in [Entries -> Nat]
        /\ promise \in [Entries -> {"none", "pending"} \cup Outcomes]
    BY QueueAssumption DEF TypeOK
  <1>2. /\ maxConcurrent' = maxConcurrent /\ generation' = generation
        /\ gatewayDraining' = gatewayDraining
        /\ maxConcurrent' \in [Lanes -> Nat] /\ generation' \in [Lanes -> Nat]
    BY DEF laneVars, TypeOK
  <1>3. /\ promise' \in [Entries -> {"none", "pending"} \cup Outcomes]
        /\ promise'[e] = outcome /\ outcome \in Outcomes
        /\ outcome \notin {"none", "pending", "refused", "cleared"}
        /\ \A x \in Entries \ {e} : promise'[x] = promise[x]
    BY <1>1 DEF Outcomes
  <1>4. \A m \in Lanes : \A i \in 1..Len(queue[m]) :
          queue[m][i] \in Entries /\ queue[m][i] # e
    BY <1>1, ElementOfSeq DEF Core, CoreOf, QueueOf
  <1>5. QueueOf(queue, bod, promise')
    BY <1>3, <1>4 DEF Core, CoreOf, QueueOf
  <1>6. RunOf(bod, promise')
    BY <1>3 DEF Core, CoreOf, RunOf
  <1>7. \A m \in Lanes : \A x \in active[m] : x \in Entries /\ (x = e => m = l)
    BY <1>1 DEF Core, CoreOf, SlotsOf
  <1>8. CASE taskGeneration[e] = generation[l]
    <2>1. /\ DrainLanes({l}, queue, act, maxConcurrent', generation', bod)
          /\ NotifyActiveTaskWaiters(act)
      BY <1>2, <1>8 DEF CompleteTask
    <2>2. /\ act \in [Lanes -> SUBSET Entries]
          /\ act[l] = active[l] \ {e}
          /\ \A m \in Lanes \ {l} : act[m] = active[m]
      BY <1>1
    <2> HIDE DEF act
    <2>3. SlotsOf(act, generation', taskGeneration, bod, promise')
      <3> SUFFICES ASSUME NEW m \in Lanes, NEW x \in act[m]
                   PROVE  /\ LaneOf[x] = m /\ bod[x] = "running"
                          /\ promise'[x] = "pending"
                          /\ taskGeneration[x] = generation'[m]
        BY DEF SlotsOf
      <3>1. x \in active[m] /\ x # e /\ x \in Entries
        BY <1>7, <2>2
      <3>2. QED
        BY <1>2, <1>3, <3>1 DEF Core, CoreOf, SlotsOf
    <2>4. PendingOf(queue, act, generation', taskGeneration, bod, promise')
      <3> SUFFICES ASSUME NEW x \in Entries, promise'[x] = "pending"
                   PROVE
            \/ bod[x] = "idle" /\ \E i \in 1..Len(queue[LaneOf[x]]) : queue[LaneOf[x]][i] = x
            \/ bod[x] = "running" /\ x \in act[LaneOf[x]]
            \/ bod[x] = "running" /\ taskGeneration[x] < generation'[LaneOf[x]]
        BY DEF PendingOf
      <3>1. x # e /\ promise[x] = "pending" /\ bod[x] = body[x]
        BY <1>3
      <3>2. x \in active[LaneOf[x]] => x \in act[LaneOf[x]]
        BY <1>1, <2>2, <3>1
      <3>3. QED
        BY <1>2, <3>1, <3>2 DEF Core, CoreOf, PendingOf
    <2>5. \A m \in Lanes \ {l} :
            queue[m] # <<>> => Cardinality(act[m]) >= maxConcurrent'[m]
      BY <1>2, <2>2 DEF Core, CoreOf, BusyOf
    <2>6. /\ queue' \in [Lanes -> Seq(Entries)]
          /\ active' \in [Lanes -> SUBSET Entries]
          /\ body' \in [Entries -> BodyStates]
          /\ taskGeneration' \in [Entries -> Nat]
          /\ Core'
          /\ \A m \in Lanes : act[m] \subseteq active'[m]
      <3>1. {l} \in SUBSET Lanes
        BY <1>1
      <3>2. QED
        BY <1>1, <1>2, <1>5, <1>6, <2>1, <2>2, <2>3, <2>4, <2>5, <3>1, PumpKeepsCore
    <2>7. TypeOK'
      BY <1>2, <1>3, <2>1, <2>6, NotifyType DEF TypeOK
    <2>8. QED
      BY <2>1, <2>6, <2>7, NotifyKeepsCause
  <1>9. CASE taskGeneration[e] # generation[l]
    <2>1. body' = bod /\ UNCHANGED <<queue, active, taskGeneration, waitVars>>
      BY <1>9 DEF CompleteTask
    <2>2. \A m \in Lanes : e \notin active[m]
      BY <1>7, <1>9 DEF Core, CoreOf, SlotsOf
    <2>3. SlotsOf(active, generation', taskGeneration, bod, promise')
      BY <1>2, <1>3, <1>7, <2>2 DEF Core, CoreOf, SlotsOf
    <2>4. PendingOf(queue, active, generation', taskGeneration, bod, promise')
      BY <1>2, <1>3 DEF Core, CoreOf, PendingOf
    <2>5. Core'
      BY <1>2, <1>5, <1>6, <2>1, <2>3, <2>4 DEF Core, CoreOf, BusyOf
    <2>6. TypeOK'
      BY <1>2, <1>3, <2>1 DEF TypeOK, waitVars
    <2>7. QED
      BY <2>1, <2>5, <2>6, WaitUnchangedKeepsCause
  <1>10. QED
    BY <1>8, <1>9

LEMMA ConcurrencyKeeps ==
  ASSUME TypeOK, Core, WaitersHaveCause, NEW l \in Lanes, NEW n \in Levels,
         SetCommandLaneConcurrency(l, n)
  PROVE  TypeOK' /\ Core' /\ WaitersHaveCause'
  <1> DEFINE max == [maxConcurrent EXCEPT ![l] = Clamp(l, n)]
             P == IF max[l] > 0 THEN {l} ELSE {}
  <1>1. /\ maxConcurrent \in [Lanes -> Nat] /\ generation \in [Lanes -> Nat]
        /\ queue \in [Lanes -> Seq(Entries)] /\ active \in [Lanes -> SUBSET Entries]
        /\ body \in [Entries -> BodyStates]
    BY DEF TypeOK
  <1>2. Clamp(l, n) \in Nat
    BY QueueAssumption DEF Clamp
  <1>3. max \in [Lanes -> Nat] /\ \A m \in Lanes \ {l} : max[m] = maxConcurrent[m]
    BY <1>1, <1>2
  <1>4. /\ maxConcurrent' = max
        /\ DrainLanes(P, queue, active, maxConcurrent', generation', body)
        /\ UNCHANGED <<gatewayDraining, generation, promise, waitVars>>
    BY DEF SetCommandLaneConcurrency
  <1> HIDE DEF max
  <1>5. P \in SUBSET Lanes /\ (P = {l} \/ (P = {} /\ max[l] = 0))
    BY <1>3
  <1> HIDE DEF P
  <1>6. \A m \in Lanes \ P : queue[m] # <<>> => Cardinality(active[m]) >= maxConcurrent'[m]
    <2> SUFFICES ASSUME NEW m \in Lanes \ P, queue[m] # <<>>
                 PROVE  Cardinality(active[m]) >= maxConcurrent'[m]
      OBVIOUS
    <2>1. Cardinality(active[m]) \in Nat
      BY <1>1, SlotsFinite
    <2>2. CASE m = l
      BY <1>4, <1>5, <2>1, <2>2
    <2>3. CASE m # l
      BY <1>3, <1>4, <2>3 DEF Core, CoreOf, BusyOf
    <2>4. QED
      BY <2>2, <2>3
  <1>7. /\ QueueOf(queue, body, promise')
        /\ SlotsOf(active, generation', taskGeneration, body, promise')
        /\ PendingOf(queue, active, generation', taskGeneration, body, promise')
        /\ RunOf(body, promise')
    BY <1>4 DEF Core, CoreOf
  <1>8. /\ maxConcurrent' \in [Lanes -> Nat] /\ generation' \in [Lanes -> Nat]
    BY <1>1, <1>3, <1>4
  <1>9. /\ queue' \in [Lanes -> Seq(Entries)]
        /\ active' \in [Lanes -> SUBSET Entries]
        /\ body' \in [Entries -> BodyStates]
        /\ taskGeneration' \in [Entries -> Nat]
        /\ Core'
        /\ \A m \in Lanes : active[m] \subseteq active'[m]
    BY <1>1, <1>4, <1>5, <1>6, <1>7, <1>8, PumpKeepsCore
  <1>10. TypeOK'
    BY <1>4, <1>8, <1>9 DEF TypeOK, waitVars
  <1>11. QED
    BY <1>4, <1>9, <1>10, WaitUnchangedKeepsCause DEF waitVars

LEMMA ClearKeeps ==
  ASSUME TypeOK, Core, WaitersHaveCause, NEW l \in Lanes, ClearCommandLane(l)
  PROVE  TypeOK' /\ Core' /\ WaitersHaveCause'
  <1>1. /\ queue \in [Lanes -> Seq(Entries)] /\ active \in [Lanes -> SUBSET Entries]
        /\ promise \in [Entries -> {"none", "pending"} \cup Outcomes]
        /\ \A x \in Entries : LaneOf[x] \in Lanes
    BY QueueAssumption DEF TypeOK
  <1>2. /\ queue' = [queue EXCEPT ![l] = <<>>]
        /\ promise' = [e \in Entries |-> IF e \in Queued(l) THEN "cleared" ELSE promise[e]]
        /\ UNCHANGED <<gatewayDraining, maxConcurrent, generation, waiter, captured,
                       active, taskGeneration, body>>
    BY DEF ClearCommandLane, laneVars, waitVars
  <1>3. TypeOK'
    BY <1>1, <1>2 DEF TypeOK, Outcomes
  <1>4. /\ queue'[l] = <<>> /\ Len(queue'[l]) = 0
        /\ \A m \in Lanes \ {l} : queue'[m] = queue[m]
    BY <1>1, <1>2
  <1>5. \A x \in Entries : /\ x \in Queued(l) => /\ promise'[x] = "cleared" /\ LaneOf[x] = l
                                                 /\ body[x] = "idle"
                           /\ x \notin Queued(l) => promise'[x] = promise[x]
    BY <1>2 DEF Queued, Core, CoreOf, QueueOf
  <1>6. QueueOf(queue', body', promise')
    <2>1. \A m \in Lanes \ {l} : \A i \in 1..Len(queue[m]) :
            queue[m][i] \in Entries /\ queue[m][i] \notin Queued(l)
      <3> SUFFICES ASSUME NEW m \in Lanes \ {l}, NEW i \in 1..Len(queue[m])
                   PROVE  queue[m][i] \in Entries /\ queue[m][i] \notin Queued(l)
        OBVIOUS
      <3>1. queue[m][i] \in Entries
        BY <1>1, ElementOfSeq
      <3>2. LaneOf[queue[m][i]] = m
        BY DEF Core, CoreOf, QueueOf
      <3>3. QED
        BY <1>5, <3>1, <3>2
    <2>2. QED
      BY <1>2, <1>4, <1>5, <2>1 DEF Core, CoreOf, QueueOf
  <1>7. SlotsOf(active', generation', taskGeneration', body', promise')
    <2>1. \A m \in Lanes : \A x \in active[m] : x \in Entries /\ x \notin Queued(l)
      BY <1>1, <1>5 DEF Core, CoreOf, SlotsOf
    <2>2. QED
      BY <1>2, <1>5, <2>1 DEF Core, CoreOf, SlotsOf
  <1>8. PendingOf(queue', active', generation', taskGeneration', body', promise')
    <2> SUFFICES ASSUME NEW x \in Entries, promise'[x] = "pending"
                 PROVE
          \/ body'[x] = "idle" /\ \E i \in 1..Len(queue'[LaneOf[x]]) : queue'[LaneOf[x]][i] = x
          \/ body'[x] = "running" /\ x \in active'[LaneOf[x]]
          \/ body'[x] = "running" /\ taskGeneration'[x] < generation'[LaneOf[x]]
      BY DEF PendingOf
    <2>1. x \notin Queued(l) /\ promise[x] = "pending"
      BY <1>5
    <2>2. ASSUME NEW i \in 1..Len(queue[LaneOf[x]]), queue[LaneOf[x]][i] = x
          PROVE  queue'[LaneOf[x]] = queue[LaneOf[x]]
      BY <1>1, <1>4, <2>1, <2>2 DEF Queued
    <2>3. QED
      BY <1>2, <2>1, <2>2 DEF Core, CoreOf, PendingOf
  <1>9. RunOf(body', promise')
    BY <1>2, <1>5 DEF Core, CoreOf, RunOf
  <1>10. BusyOf(queue', active', maxConcurrent')
    BY <1>2, <1>4 DEF Core, CoreOf, BusyOf
  <1>11. Core'
    BY <1>6, <1>7, <1>8, <1>9, <1>10 DEF Core, CoreOf
  <1>12. QED
    BY <1>2, <1>3, <1>11, WaitUnchangedKeepsCause DEF waitVars

LEMMA ResetKeeps ==
  ASSUME TypeOK, Core, NEW P \in SUBSET Lanes, ResetLanes(P), gatewayDraining' \in BOOLEAN
  PROVE  TypeOK' /\ Core' /\ WaitersHaveCause'
  <1> DEFINE act == [m \in Lanes |-> IF m \in P THEN {} ELSE active[m]]
             gen == [m \in Lanes |-> IF m \in P THEN generation[m] + 1 ELSE generation[m]]
  <1>1. /\ maxConcurrent \in [Lanes -> Nat] /\ generation \in [Lanes -> Nat]
        /\ queue \in [Lanes -> Seq(Entries)] /\ active \in [Lanes -> SUBSET Entries]
        /\ body \in [Entries -> BodyStates] /\ taskGeneration \in [Entries -> Nat]
        /\ \A x \in Entries : LaneOf[x] \in Lanes
    BY QueueAssumption DEF TypeOK
  <1>2. /\ act \in [Lanes -> SUBSET Entries] /\ gen \in [Lanes -> Nat]
        /\ \A m \in Lanes \ P : act[m] = active[m] /\ gen[m] = generation[m]
        /\ \A m \in P : act[m] = {} /\ gen[m] = generation[m] + 1
    BY <1>1
  <1>3. /\ generation' = gen /\ maxConcurrent' = maxConcurrent /\ promise' = promise
        /\ DrainLanes(P, queue, act, maxConcurrent', generation', body)
        /\ NotifyActiveTaskWaiters(act)
    BY DEF ResetLanes
  <1> HIDE DEF act, gen
  <1>4. QueueOf(queue, body, promise') /\ RunOf(body, promise')
    BY <1>3 DEF Core, CoreOf
  <1>5. SlotsOf(act, generation', taskGeneration, body, promise')
    BY <1>2, <1>3 DEF Core, CoreOf, SlotsOf
  <1>6. PendingOf(queue, act, generation', taskGeneration, body, promise')
    <2> SUFFICES ASSUME NEW x \in Entries, promise[x] = "pending"
                 PROVE
          \/ body[x] = "idle" /\ \E i \in 1..Len(queue[LaneOf[x]]) : queue[LaneOf[x]][i] = x
          \/ body[x] = "running" /\ x \in act[LaneOf[x]]
          \/ body[x] = "running" /\ taskGeneration[x] < generation'[LaneOf[x]]
      BY <1>3 DEF PendingOf
    <2>1. x \in active[LaneOf[x]] => taskGeneration[x] = generation[LaneOf[x]]
      BY <1>1 DEF Core, CoreOf, SlotsOf
    <2>2. /\ \/ body[x] = "idle" /\ \E i \in 1..Len(queue[LaneOf[x]]) : queue[LaneOf[x]][i] = x
             \/ body[x] = "running" /\ x \in active[LaneOf[x]]
             \/ body[x] = "running" /\ taskGeneration[x] < generation[LaneOf[x]]
          /\ LaneOf[x] \in Lanes
          /\ taskGeneration[x] \in Nat /\ generation[LaneOf[x]] \in Nat
      BY <1>1 DEF Core, CoreOf, PendingOf
    <2>3. CASE LaneOf[x] \in P
      <3>1. generation'[LaneOf[x]] = generation[LaneOf[x]] + 1
        BY <1>2, <1>3, <2>3
      <3>2. QED
        BY <2>1, <2>2, <3>1
    <2>4. CASE LaneOf[x] \notin P
      <3>1. generation'[LaneOf[x]] = generation[LaneOf[x]] /\ act[LaneOf[x]] = active[LaneOf[x]]
        BY <1>2, <1>3, <2>2, <2>4
      <3>2. QED
        BY <2>2, <3>1
    <2>5. QED
      BY <2>3, <2>4
  <1>7. \A m \in Lanes \ P : queue[m] # <<>> => Cardinality(act[m]) >= maxConcurrent'[m]
    BY <1>2, <1>3 DEF Core, CoreOf, BusyOf
  <1>8. maxConcurrent' \in [Lanes -> Nat] /\ generation' \in [Lanes -> Nat]
    BY <1>1, <1>2, <1>3
  <1>9. /\ queue' \in [Lanes -> Seq(Entries)]
        /\ active' \in [Lanes -> SUBSET Entries]
        /\ body' \in [Entries -> BodyStates]
        /\ taskGeneration' \in [Entries -> Nat]
        /\ Core'
        /\ \A m \in Lanes : act[m] \subseteq active'[m]
    BY <1>1, <1>2, <1>3, <1>4, <1>5, <1>6, <1>7, <1>8, PumpKeepsCore
  <1>10. TypeOK'
    BY <1>3, <1>8, <1>9, NotifyType DEF TypeOK
  <1>11. QED
    BY <1>3, <1>9, <1>10, NotifyKeepsCause

\* The steps that touch neither queue nor slot of a lane.
LEMMA QuietStepsKeep ==
  ASSUME TypeOK, Core, WaitersHaveCause,
         \/ \E e \in Entries : RefuseEnqueue(e) \/ SettleLate(e)
         \/ \E w \in Waiters : WaiterStep(w)
         \/ MarkGatewayDraining
         \/ UNCHANGED vars
  PROVE  TypeOK' /\ Core' /\ WaitersHaveCause'
  <1>1. ASSUME NEW e \in Entries, RefuseEnqueue(e) PROVE TypeOK' /\ Core' /\ WaitersHaveCause'
    <2>1. /\ promise[e] = "none" /\ promise' = [promise EXCEPT ![e] = "refused"]
          /\ UNCHANGED <<gatewayDraining, queue, active, maxConcurrent, generation,
                         taskGeneration, body, waiter, captured>>
      BY <1>1 DEF RefuseEnqueue, laneVars, waitVars
    <2>2. TypeOK'
      BY <2>1 DEF TypeOK, Outcomes
    <2>3. body[e] = "idle" /\ \A m \in Lanes : e \notin active[m]
      BY <2>1 DEF Core, CoreOf, RunOf, SlotsOf
    <2>4. \A m \in Lanes : \A i \in 1..Len(queue[m]) :
            queue[m][i] \in Entries /\ queue[m][i] # e
      BY <2>1, ElementOfSeq DEF Core, CoreOf, QueueOf, TypeOK
    <2>5. \A x \in Entries : (x # e => promise'[x] = promise[x]) /\ promise'[e] = "refused"
      BY <2>1 DEF TypeOK
    <2>6. QueueOf(queue', body', promise')
      BY <2>1, <2>4, <2>5 DEF Core, CoreOf, QueueOf
    <2>7. SlotsOf(active', generation', taskGeneration', body', promise')
      BY <2>1, <2>3, <2>5 DEF Core, CoreOf, SlotsOf, TypeOK
    <2>8. PendingOf(queue', active', generation', taskGeneration', body', promise')
      BY <2>1, <2>5 DEF Core, CoreOf, PendingOf
    <2>9. RunOf(body', promise')
      BY <2>1, <2>3, <2>5 DEF Core, CoreOf, RunOf
    <2>10. Core'
      BY <2>1, <2>6, <2>7, <2>8, <2>9 DEF Core, CoreOf, BusyOf
    <2>11. QED
      BY <2>1, <2>2, <2>10, WaitUnchangedKeepsCause DEF waitVars
  <1>2. ASSUME NEW e \in Entries, SettleLate(e) PROVE TypeOK' /\ Core' /\ WaitersHaveCause'
    <2>1. /\ promise[e] = "timedOut" /\ body' = [body EXCEPT ![e] = "settled"]
          /\ body[e] = "running"
          /\ UNCHANGED <<gatewayDraining, queue, active, maxConcurrent, generation,
                         taskGeneration, promise, waiter, captured>>
      BY <1>2 DEF SettleLate, laneVars, waitVars
    <2>2. TypeOK'
      BY <2>1 DEF TypeOK, BodyStates
    <2>3. \A m \in Lanes : e \notin active[m]
      BY <2>1 DEF Core, CoreOf, SlotsOf
    <2>4. \A m \in Lanes : \A i \in 1..Len(queue[m]) :
            queue[m][i] \in Entries /\ queue[m][i] # e
      BY <2>1, ElementOfSeq DEF Core, CoreOf, QueueOf, TypeOK
    <2>5. \A x \in Entries : x # e => body'[x] = body[x]
      BY <2>1 DEF TypeOK
    <2>6. QueueOf(queue', body', promise')
      BY <2>1, <2>4, <2>5 DEF Core, CoreOf, QueueOf
    <2>7. SlotsOf(active', generation', taskGeneration', body', promise')
      BY <2>1, <2>3, <2>5 DEF Core, CoreOf, SlotsOf, TypeOK
    <2>8. PendingOf(queue', active', generation', taskGeneration', body', promise')
      BY <2>1, <2>5 DEF Core, CoreOf, PendingOf
    <2>9. RunOf(body', promise')
      BY <2>1, <2>5 DEF Core, CoreOf, RunOf
    <2>10. Core'
      BY <2>1, <2>6, <2>7, <2>8, <2>9 DEF Core, CoreOf, BusyOf
    <2>11. QED
      BY <2>1, <2>2, <2>10, WaitUnchangedKeepsCause DEF waitVars
  <1>3. ASSUME NEW w \in Waiters, NEW answer \in WaiterStates, WaitForActiveTasks(w, answer)
        PROVE  TypeOK' /\ Core' /\ WaitersHaveCause'
    <2>1. /\ AllActive(active) = {} => answer = "drained"
          /\ waiter' = [waiter EXCEPT ![w] = answer]
          /\ captured' = [captured EXCEPT ![w] = AllActive(active)]
          /\ UNCHANGED <<gatewayDraining, queue, active, maxConcurrent, generation,
                         taskGeneration, body, promise>>
      BY <1>3 DEF WaitForActiveTasks, laneVars
    <2>2. AllActive(active) \subseteq Entries
      BY DEF AllActive, TypeOK
    <2>3. TypeOK'
      BY <2>1, <2>2 DEF TypeOK
    <2>4. Core'
      BY <2>1 DEF Core
    <2>5. WaitersHaveCause'
      <3> SUFFICES ASSUME NEW x \in Waiters, waiter'[x] = "waiting"
                   PROVE  captured'[x] \cap AllActive(active') # {}
        BY DEF WaitersHaveCause
      <3>1. AllActive(active') = AllActive(active)
        BY <2>1
      <3>2. CASE x = w
        <4>1. answer = "waiting" /\ captured'[x] = AllActive(active)
          BY <2>1, <3>2 DEF TypeOK
        <4>2. AllActive(active) # {}
          BY <2>1, <4>1
        <4>3. QED
          BY <3>1, <4>1, <4>2
      <3>3. CASE x # w
        <4>1. waiter[x] = "waiting" /\ captured'[x] = captured[x]
          BY <2>1, <3>3 DEF TypeOK
        <4>2. QED
          BY <3>1, <4>1 DEF WaitersHaveCause
      <3>4. QED
        BY <3>2, <3>3
    <2>6. QED
      BY <2>3, <2>4, <2>5
  <1>4. ASSUME NEW w \in Waiters, WaiterTimeout(w)
        PROVE  TypeOK' /\ Core' /\ WaitersHaveCause'
    <2>1. /\ waiter' = [waiter EXCEPT ![w] = "timedOut"]
          /\ UNCHANGED <<gatewayDraining, queue, active, maxConcurrent, generation,
                         taskGeneration, body, promise, captured>>
      BY <1>4 DEF WaiterTimeout, laneVars
    <2>2. TypeOK' /\ WaitersHaveCause'
      BY <2>1 DEF TypeOK, WaiterStates, WaitersHaveCause, AllActive
    <2>3. QED
      BY <2>1, <2>2 DEF Core
  <1>5. ASSUME MarkGatewayDraining PROVE TypeOK' /\ Core' /\ WaitersHaveCause'
    BY <1>5 DEF MarkGatewayDraining, waitVars, TypeOK, Core, WaitersHaveCause, AllActive
  <1>6. ASSUME UNCHANGED vars PROVE TypeOK' /\ Core' /\ WaitersHaveCause'
    BY <1>6 DEF vars, TypeOK, Core, WaitersHaveCause, AllActive
  <1>7. QED
    BY <1>1, <1>2, <1>3, <1>4, <1>5, <1>6 DEF WaiterStep

(***************************************************************************)
(* Theorems                                                                *)
(***************************************************************************)

LEMMA InitQueueInv == Init => QueueInv
  <1> SUFFICES ASSUME Init PROVE QueueInv
    OBVIOUS
  <1>1. TypeOK
    <2>1. <<>> \in Seq(Entries)
      BY EmptySeq
    <2>2. QED
      BY <2>1 DEF Init, IdleLanes, TypeOK, BodyStates, WaiterStates
  <1>2. \A l \in Lanes : queue[l] = <<>> /\ Len(queue[l]) = 0 /\ active[l] = {}
    BY DEF Init, IdleLanes
  <1>3. QueuedOnce /\ SlotsAreOwned /\ WorkConserving
    BY <1>2 DEF QueuedOnce, SlotsAreOwned, WorkConserving
  <1>4. PendingAccounted /\ OnlyAcceptedRun /\ WaitersHaveCause
    BY DEF Init, IdleLanes, PendingAccounted, OnlyAcceptedRun, WaitersHaveCause
  <1>5. QED
    BY <1>1, <1>3, <1>4 DEF QueueInv

LEMMA NextQueueInv == QueueInv /\ [Next]_vars => QueueInv'
  <1> SUFFICES ASSUME QueueInv, [Next]_vars PROVE QueueInv'
    OBVIOUS
  <1>1. TypeOK /\ Core /\ WaitersHaveCause
    BY CoreIsInvariant DEF QueueInv
  <1>2. TypeOK' /\ Core' /\ WaitersHaveCause'
    <2>1. ASSUME NEW e \in Entries, EnqueueCommandInLane(e)
          PROVE  TypeOK' /\ Core' /\ WaitersHaveCause'
      BY <1>1, <2>1, EnqueueKeeps
    <2>2. ASSUME NEW e \in Entries, NEW outcome \in {"resolved", "rejected"},
                 SettleTask(e, outcome)
          PROVE  TypeOK' /\ Core' /\ WaitersHaveCause'
      <3> DEFINE bod == [body EXCEPT ![e] = "settled"]
      <3>1. /\ body[e] = "running" /\ promise[e] = "pending"
            /\ promise' = [promise EXCEPT ![e] = outcome]
            /\ CompleteTask(e, bod) /\ UNCHANGED laneVars
        BY <2>2 DEF SettleTask
      <3>2. /\ bod \in [Entries -> BodyStates] /\ bod[e] # "idle"
            /\ \A x \in Entries \ {e} : bod[x] = body[x]
        BY <1>1 DEF TypeOK, BodyStates
      <3> HIDE DEF bod
      <3>3. outcome \in {"resolved", "rejected", "timedOut"}
        OBVIOUS
      <3>4. QED
        BY <1>1, <3>1, <3>2, <3>3, CompletionKeeps
    <2>3. ASSUME NEW e \in Entries, TaskTimeout(e)
          PROVE  TypeOK' /\ Core' /\ WaitersHaveCause'
      <3>1. /\ body[e] = "running" /\ promise[e] = "pending"
            /\ promise' = [promise EXCEPT ![e] = "timedOut"]
            /\ CompleteTask(e, body) /\ UNCHANGED laneVars
        BY <2>3 DEF TaskTimeout
      <3>2. body \in [Entries -> BodyStates]
        BY <1>1 DEF TypeOK
      <3>3. QED
        BY <1>1, <3>1, <3>2, CompletionKeeps
    <2>4. ASSUME NEW l \in Lanes, LaneStep(l)
          PROVE  TypeOK' /\ Core' /\ WaitersHaveCause'
      <3>1. ASSUME NEW n \in Levels, SetCommandLaneConcurrency(l, n)
            PROVE  TypeOK' /\ Core' /\ WaitersHaveCause'
        BY <1>1, <3>1, ConcurrencyKeeps
      <3>2. ASSUME ClearCommandLane(l) PROVE TypeOK' /\ Core' /\ WaitersHaveCause'
        BY <1>1, <3>2, ClearKeeps
      <3>3. ASSUME ResetCommandLane(l) PROVE TypeOK' /\ Core' /\ WaitersHaveCause'
        <4>1. ResetLanes({l}) /\ gatewayDraining' \in BOOLEAN
          BY <1>1, <3>3 DEF ResetCommandLane, TypeOK
        <4>2. QED
          BY <1>1, <4>1, ResetKeeps
      <3>4. QED
        BY <2>4, <3>1, <3>2, <3>3 DEF LaneStep
    <2>5. ASSUME ResetAllLanes PROVE TypeOK' /\ Core' /\ WaitersHaveCause'
      <3>1. ResetLanes(Lanes) /\ gatewayDraining' \in BOOLEAN
        BY <2>5 DEF ResetAllLanes
      <3>2. QED
        BY <1>1, <3>1, ResetKeeps
    <2>6. ASSUME \/ \E e \in Entries : RefuseEnqueue(e) \/ SettleLate(e)
                 \/ \E w \in Waiters : WaiterStep(w)
                 \/ MarkGatewayDraining
                 \/ UNCHANGED vars
          PROVE  TypeOK' /\ Core' /\ WaitersHaveCause'
      BY <1>1, <2>6, QuietStepsKeep
    <2>7. QED
      BY <2>1, <2>2, <2>3, <2>4, <2>5, <2>6 DEF Next, EntryStep
  <1>3. Core' => (/\ QueuedOnce /\ SlotsAreOwned /\ PendingAccounted
                  /\ OnlyAcceptedRun /\ WorkConserving)'
    BY <1>2, CoreIsInvariant, PTL
  <1>4. QED
    BY <1>2, <1>3 DEF QueueInv

\* The inductive invariant holds in every reachable state, whatever the
\* lanes, the calls, their lanes and timeouts, and however often the lanes
\* are reset.
THEOREM QueueInvariant == Spec => []QueueInv
  BY InitQueueInv, NextQueueInv, PTL DEF Spec

\* The state of the command queue keeps its types.
THEOREM TypeCorrect == Spec => []TypeOK
  <1>1. QueueInv => TypeOK
    BY DEF QueueInv
  <1>2. QED
    BY <1>1, QueueInvariant, PTL

\* No lost wakeup: an entry never waits beside a free slot of its lane.
THEOREM NoLostWakeup == Spec => []WorkConserving
  <1>1. QueueInv => WorkConserving
    BY DEF QueueInv
  <1>2. QED
    BY <1>1, QueueInvariant, PTL

\* No leaked slot: a task in a lane's active set runs and is of its generation.
THEOREM NoLeakedSlot == Spec => []SlotsAreOwned
  <1>1. QueueInv => SlotsAreOwned
    BY DEF QueueInv
  <1>2. QED
    BY <1>1, QueueInvariant, PTL

\* No lost call: whose promise is pending waits in its lane or runs.
THEOREM NoLostCall == Spec => []PendingAccounted
  <1>1. QueueInv => PendingAccounted
    BY DEF QueueInv
  <1>2. QED
    BY <1>1, QueueInvariant, PTL

\* No orphaned waiter: who waits, waits for a task that holds a slot.
THEOREM NoOrphanedWaiter == Spec => []WaitersHaveCause
  <1>1. QueueInv => WaitersHaveCause
    BY DEF QueueInv
  <1>2. QED
    BY <1>1, QueueInvariant, PTL

=============================================================================

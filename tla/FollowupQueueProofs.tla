------------------------ MODULE FollowupQueueProofs ------------------------
(***************************************************************************)
(* Theorems about FollowupQueue, for any deliveries, messages, senders,     *)
(* routes, settings, cap and pool of queue objects.                        *)
(***************************************************************************)
EXTENDS FollowupQueue, FiniteSetTheorems, WellFoundedInduction, TLAPS

(***************************************************************************)
(* Numbers and sequences                                                   *)
(***************************************************************************)
\* Every set of naturals that is not empty has a least element.  (0..n stands
\* for n, and inclusion, which is well founded on finite sets, for the order.)
LEMMA LeastNat ==
  ASSUME NEW S, S \subseteq Nat, S # {}
  PROVE  Min(S) \in S /\ \A n \in S : Min(S) <= n
  <1> DEFINE T == {0..n : n \in S}
  <1>1. T \subseteq FiniteSubsetsOf(Nat) /\ T # {}
    <2>1. \A n \in S : 0..n \subseteq Nat /\ IsFiniteSet(0..n)
      BY FS_Interval
    <2>2. QED
      BY <2>1 DEF FiniteSubsetsOf
  <1> HIDE DEF T
  <1>2. PICK U \in T : \A V \in T : ~(<<V, U>> \in StrictSubsetOrdering(Nat))
    BY <1>1, FS_StrictSubsetOrderingWellFounded, WFMin
  <1>3. PICK x \in S : U = 0..x
    BY DEF T
  <1>4. ASSUME NEW y \in S, y < x
        PROVE  FALSE
    <2>1. 0..y \in T /\ 0..y \in SUBSET Nat /\ U \in SUBSET Nat
      BY <1>3 DEF T
    <2>2. 0..y \subseteq U /\ x \in U /\ x \notin 0..y
      BY <1>3, <1>4
    <2>3. <<0..y, U>> \in StrictSubsetOrdering(Nat)
      BY <2>1, <2>2 DEF StrictSubsetOrdering
    <2>4. QED
      BY <1>2, <2>1, <2>3
  <1>5. \A y \in S : x <= y
    BY <1>4
  <1>6. QED
    BY <1>5 DEF Min

LEMMA SequenceParts ==
  ASSUME NEW S, NEW s \in Seq(S), NEW m \in 1..(Len(s) + 1), NEW n \in 0..Len(s)
  PROVE  /\ SubSeq(s, m, n) \in Seq(S)
         /\ Len(SubSeq(s, m, n)) = IF m <= n THEN n - m + 1 ELSE 0
         /\ \A i \in 1..Len(SubSeq(s, m, n)) : SubSeq(s, m, n)[i] = s[i + m - 1]
         /\ DOMAIN SubSeq(s, m, n) = 1..Len(SubSeq(s, m, n))
  OBVIOUS

LEMMA WithoutFirstIs ==
  ASSUME NEW S, NEW s \in Seq(S), NEW n \in Nat
  PROVE  /\ WithoutFirst(s, n) \in Seq(S)
         /\ Len(WithoutFirst(s, n)) = IF n >= Len(s) THEN 0 ELSE Len(s) - n
         /\ DOMAIN WithoutFirst(s, n) = 1..Len(WithoutFirst(s, n))
         /\ \A i \in 1..Len(WithoutFirst(s, n)) :
              WithoutFirst(s, n)[i] = s[i + n] /\ i + n \in 1..Len(s)
  <1>1. CASE n >= Len(s)
    BY <1>1 DEF WithoutFirst
  <1>2. CASE n < Len(s)
    <2>1. /\ n + 1 \in 1..(Len(s) + 1) /\ Len(s) \in 0..Len(s) /\ Len(s) \in Nat
          /\ WithoutFirst(s, n) = SubSeq(s, n + 1, Len(s))
      BY <1>2 DEF WithoutFirst
    <2>2. QED
      BY <1>2, <2>1, SequenceParts
  <1>3. QED
    BY <1>1, <1>2

\* The first group of collected messages ends where the sender changes.
LEMMA FirstGroupIs ==
  ASSUME NEW s \in Seq(Messages), s # <<>>
  PROVE  /\ GroupLength(s) \in 1..Len(s)
         /\ FirstGroup(s) \in Seq(Messages) /\ Len(FirstGroup(s)) = GroupLength(s)
         /\ \A i \in 1..GroupLength(s) : FirstGroup(s)[i] = s[i]
         /\ SameSender(FirstGroup(s))
  <1> DEFINE E == {n \in 1..Len(s) : n < Len(s) => SenderOf[s[n + 1]] # SenderOf[s[1]]}
             n == GroupLength(s)
  <1>1. Len(s) \in E /\ E \subseteq Nat
    OBVIOUS
  <1>2. n \in E /\ \A i \in E : n <= i
    BY <1>1, LeastNat DEF GroupLength
  <1>3. \A i \in 1..Len(s) : i < n => i < Len(s) /\ SenderOf[s[i + 1]] = SenderOf[s[1]]
    BY <1>2
  <1>4. n \in 1..Len(s)
    BY <1>2
  <1> HIDE DEF n, E
  <1>5. \A i \in 1..n : SenderOf[s[i]] = SenderOf[s[1]]
    <2> TAKE i \in 1..n
    <2>1. CASE i = 1
      BY <2>1
    <2>2. CASE i # 1
      <3>1. i - 1 \in 1..Len(s) /\ i - 1 < n /\ (i - 1) + 1 = i
        BY <1>4, <2>2
      <3>2. QED
        BY <1>3, <3>1
    <2>3. QED
      BY <2>1, <2>2
  <1>6. /\ FirstGroup(s) \in Seq(Messages) /\ Len(FirstGroup(s)) = n
        /\ \A i \in 1..n : FirstGroup(s)[i] = s[i]
        /\ DOMAIN FirstGroup(s) = 1..n
    <2>1. /\ 1 \in 1..(Len(s) + 1) /\ n \in 0..Len(s) /\ n \in Nat
          /\ FirstGroup(s) = SubSeq(s, 1, n)
      BY <1>4 DEF FirstGroup, n
    <2>2. Len(FirstGroup(s)) = n
      BY <1>4, <2>1, SequenceParts
    <2>3. QED
      BY <1>4, <2>1, <2>2, SequenceParts
  <1>7. SameSender(FirstGroup(s))
    BY <1>5, <1>6 DEF SameSender
  <1>8. QED
    BY <1>4, <1>6, <1>7 DEF n

(***************************************************************************)
(* Queue objects                                                           *)
(***************************************************************************)
LEMMA Fields ==
  ASSUME NEW Q \in QueueRecords
  PROVE  /\ Q.items \in Seq(Messages) /\ Q.batch \in Seq(Messages) /\ Q.rest \in Seq(Messages)
         /\ Q.take \in Nat /\ Q.dropped \in Nat /\ Q.at \in Places
         /\ Q.summary \in BOOLEAN /\ Q.draining \in BOOLEAN /\ Q.force \in BOOLEAN
         /\ Q.mode \in {"followup", "collect"} /\ Q.policy \in {"summarize", "old", "new"}
         /\ Len(Q.items) \in Nat /\ Len(Q.batch) \in Nat /\ Len(Q.rest) \in Nat
         /\ DOMAIN Q.items = 1..Len(Q.items)
         /\ DOMAIN Q.batch = 1..Len(Q.batch)
         /\ DOMAIN Q.rest = 1..Len(Q.rest)
  BY DEF QueueRecords

\* A queue object whose drain holds nothing is sound if its messages wait.
LEMMA RestingSound ==
  ASSUME NEW Q \in QueueRecords, NEW fates, HoldsNothing(Q), Len(Q.items) <= Cap,
         Q.draining = (Q.at # "idle"), IsInjective(Q.items),
         \A i \in DOMAIN Q.items : fates[Q.items[i]] = "queued"
  PROVE  /\ QueueSound(Q, fates)
         /\ \A m : Holds(Q, m) <=> Contains(Q.items, m)
         /\ Q.dropped = 0 => Exact(Q)
  <1>1. DOMAIN <<>> = {} /\ Len(<<>>) = 0 /\ 1..0 = {}
    OBVIOUS
  <1>2. Q.batch = <<>> /\ Q.rest = <<>> /\ Q.take = 0 /\ ~Q.summary
    BY DEF HoldsNothing
  <1>3. InOrder(Q) /\ NotYetRun(Q, fates) /\ SameSender(Q.batch)
    BY <1>1, <1>2 DEF InOrder, NotYetRun, SameSender, IsInjective
  <1>4. \A m : ~Contains(<<>>, m)
    BY <1>1 DEF Contains
  <1>5. \A m : Holds(Q, m) <=> Contains(Q.items, m)
    BY <1>2, <1>4 DEF Holds
  <1>6. Q.dropped = 0 => Exact(Q)
    BY <1>1, <1>2, Fields DEF Exact
  <1>7. QED
    BY <1>3, <1>5, <1>6 DEF QueueSound

LEMMA RestingExact ==
  ASSUME NEW Q \in QueueRecords, HoldsNothing(Q), Q.dropped = 0
  PROVE  Exact(Q)
  <1>1. DOMAIN <<>> = {} /\ Len(<<>>) = 0
    OBVIOUS
  <1>2. QED
    BY <1>1, Fields DEF HoldsNothing, Exact

\* What the finally block leaves of a queue object.
Ended(Q) == [Q EXCEPT !.draining = FALSE, !.at = "idle", !.force = FALSE, !.batch = <<>>,
                      !.take = 0, !.summary = FALSE, !.rest = <<>>]

LEMMA EndedIs ==
  ASSUME NEW Q \in QueueRecords
  PROVE  /\ Ended(Q) \in QueueRecords /\ HoldsNothing(Ended(Q))
         /\ Ended(Q).items = Q.items /\ Ended(Q).dropped = Q.dropped
         /\ Ended(Q).at = "idle" /\ Ended(Q).draining = FALSE
         /\ Idle(Ended(Q)) <=> Idle(Q)
  <1>1. <<>> \in Seq(Messages) /\ "idle" \in Places
    BY DEF Places
  <1>2. /\ Ended(Q) \in QueueRecords
        /\ Ended(Q).batch = <<>> /\ Ended(Q).rest = <<>> /\ Ended(Q).take = 0
        /\ Ended(Q).summary = FALSE
        /\ Ended(Q).items = Q.items /\ Ended(Q).dropped = Q.dropped
        /\ Ended(Q).at = "idle" /\ Ended(Q).draining = FALSE
    BY <1>1 DEF QueueRecords, Ended
  <1>3. QED
    BY <1>2 DEF HoldsNothing, Idle

\* What scheduling makes of one.
Begun(Q) == [Q EXCEPT !.draining = TRUE, !.at = "debounce", !.force = FALSE]

LEMMA BegunIs ==
  ASSUME NEW Q \in QueueRecords
  PROVE  /\ Begun(Q) \in QueueRecords
         /\ HoldsNothing(Q) => HoldsNothing(Begun(Q))
         /\ Begun(Q).items = Q.items /\ Begun(Q).dropped = Q.dropped
         /\ Begun(Q).at = "debounce" /\ Begun(Q).draining = TRUE
  BY DEF QueueRecords, Begun, HoldsNothing, Places

\* What the queue makes of messages that an object does not hold is nothing to it.
LEMMA FatesKept ==
  ASSUME NEW fates, NEW Q, QueueSound(Q, fates), NEW after,
         \A m \in Messages : Holds(Q, m) => after[m] = fates[m]
  PROVE  QueueSound(Q, after)
  <1>1. Q \in QueueRecords
    BY DEF QueueSound
  <1>2. /\ Q.items \in Seq(Messages) /\ Q.batch \in Seq(Messages) /\ Q.rest \in Seq(Messages)
        /\ DOMAIN Q.items = 1..Len(Q.items) /\ DOMAIN Q.batch = 1..Len(Q.batch)
        /\ DOMAIN Q.rest = 1..Len(Q.rest)
    BY <1>1, Fields
  <1>3. /\ \A i \in DOMAIN Q.items : Q.items[i] \in Messages /\ Holds(Q, Q.items[i])
        /\ \A i \in DOMAIN Q.batch : Q.batch[i] \in Messages /\ Holds(Q, Q.batch[i])
        /\ \A i \in DOMAIN Q.rest : Q.rest[i] \in Messages /\ Holds(Q, Q.rest[i])
    BY <1>2 DEF Holds, Contains
  <1>4. NotYetRun(Q, after)
    BY <1>3 DEF QueueSound, NotYetRun
  <1>5. QED
    BY <1>4 DEF QueueSound

\* What a sound object is, field by field.
LEMMA SoundParts ==
  ASSUME NEW fates, NEW Q, QueueSound(Q, fates)
  PROVE  /\ Q \in QueueRecords /\ Len(Q.items) <= Cap
         /\ Q.draining = (Q.at # "idle")
         /\ IsInjective(Q.items)
         /\ \A i \in DOMAIN Q.items : fates[Q.items[i]] = "queued"
  BY DEF QueueSound, InOrder, NotYetRun

(***************************************************************************)
(* All of them                                                             *)
(***************************************************************************)
\* One object is replaced, and the map's entry and the fates may change: it is
\* enough to look at that object, at the others' messages and at the entry.
LEMMA ReplaceKeeps ==
  ASSUME NEW qs, NEW cur, NEW fates, Sound(qs, cur, fates),
         NEW q \in Queues, NEW Q, NEW after, QueueSound(Q, after),
         \A r \in Queues \ {q} : QueueSound(qs[r], after),
         \A m \in Messages : Holds(Q, m) =>
           Holds(qs[q], m) \/ \A r \in Queues \ {q} : ~Holds(qs[r], m),
         NEW entry \in Queues \cup {None}, q # entry => Q.items = <<>>,
         \A r \in Queues \ {q, entry} : qs[r].items = <<>>
  PROVE  Sound([qs EXCEPT ![q] = Q], entry, after)
  <1> DEFINE new == [qs EXCEPT ![q] = Q]
  <1>1. Q \in QueueRecords
    BY DEF QueueSound
  <1>2. /\ new \in [Queues -> QueueRecords] /\ new[q] = Q
        /\ \A r \in Queues \ {q} : new[r] = qs[r]
    BY <1>1 DEF Sound
  <1> HIDE DEF new
  <1>3. \A r \in Queues : QueueSound(new[r], after)
    BY <1>2
  <1>4. \A r, t \in Queues : r # t =>
          \A m \in Messages : ~(Holds(new[r], m) /\ Holds(new[t], m))
    <2> SUFFICES ASSUME NEW r \in Queues, NEW t \in Queues, r # t, NEW m \in Messages,
                        Holds(new[r], m), Holds(new[t], m)
                 PROVE  FALSE
      OBVIOUS
    <2>1. ~(Holds(qs[r], m) /\ Holds(qs[t], m))
      BY DEF Sound
    <2>2. CASE r = q
      <3>1. new[t] = qs[t] /\ t \in Queues \ {q} /\ Holds(Q, m)
        BY <1>2, <2>2
      <3>2. QED
        BY <2>1, <2>2, <3>1
    <2>3. CASE t = q
      <3>1. new[r] = qs[r] /\ r \in Queues \ {q} /\ Holds(Q, m)
        BY <1>2, <2>3
      <3>2. QED
        BY <2>1, <2>3, <3>1
    <2>4. CASE r # q /\ t # q
      BY <1>2, <2>1, <2>4
    <2>5. QED
      BY <2>2, <2>3, <2>4
  <1>5. \A r \in Queues \ {entry} : new[r].items = <<>>
    BY <1>2
  <1>6. QED
    BY <1>2, <1>3, <1>4, <1>5 DEF Sound, new

\* Nothing but what a drain holds and does changes: what is complete stays so.
LEMMA CompleteKept ==
  ASSUME NEW qs, NEW cur, NEW fates, Complete(qs, cur, fates), NEW q \in Queues, NEW Q,
         qs \in [Queues -> QueueRecords], Q.items = qs[q].items, q = cur => Exact(Q)
  PROVE  Complete([qs EXCEPT ![q] = Q], cur, fates)
  BY DEF Complete

LEMMA EntryGone ==
  ASSUME NEW qs, NEW cur, NEW fates, Complete(qs, cur, fates)
  PROVE  Complete(qs, None, fates)
  BY FollowupAssumption DEF Complete, None

LEMMA ScheduleKeeps ==
  ASSUME NEW qs, NEW cur, NEW fates, Sound(qs, cur, fates)
  PROVE  /\ Sound(QueuesScheduled(qs, cur), EntryScheduled(qs, cur), fates)
         /\ Complete(qs, cur, fates) =>
              Complete(QueuesScheduled(qs, cur), EntryScheduled(qs, cur), fates)
         /\ Leftover(QueuesScheduled(qs, cur), EntryScheduled(qs, cur)) \subseteq
              Leftover(qs, cur)
  <1>1. CASE Schedulable(qs, cur) /\ ~Idle(qs[cur])
    <2>1. /\ cur \in Queues /\ qs[cur] \in QueueRecords /\ QueueSound(qs[cur], fates)
          /\ ~qs[cur].draining /\ qs[cur].at = "idle" /\ HoldsNothing(qs[cur])
      BY <1>1 DEF Schedulable, Sound, QueueSound
    <2>2. /\ QueuesScheduled(qs, cur) = [qs EXCEPT ![cur] = Begun(qs[cur])]
          /\ EntryScheduled(qs, cur) = cur
      BY <1>1, <2>1 DEF QueuesScheduled, EntryScheduled, Begun, Sound
    <2>3. /\ Begun(qs[cur]) \in QueueRecords /\ HoldsNothing(Begun(qs[cur]))
          /\ Begun(qs[cur]).items = qs[cur].items
          /\ Begun(qs[cur]).dropped = qs[cur].dropped
          /\ Begun(qs[cur]).draining = (Begun(qs[cur]).at # "idle")
      BY <2>1, BegunIs
    <2>4. /\ QueueSound(Begun(qs[cur]), fates)
          /\ \A m : Holds(Begun(qs[cur]), m) => Holds(qs[cur], m)
          /\ qs[cur].dropped = 0 => Exact(Begun(qs[cur]))
      BY <2>1, <2>3, RestingSound, SoundParts DEF Holds
    <2>5. Sound([qs EXCEPT ![cur] = Begun(qs[cur])], cur, fates)
      <3>1. /\ \A r \in Queues \ {cur} : QueueSound(qs[r], fates) /\ qs[r].items = <<>>
            /\ cur \in Queues \cup {None}
        BY DEF Sound
      <3>2. QED
        BY <2>1, <2>4, <3>1, ReplaceKeeps
    <2>6. Complete(qs, cur, fates) =>
            Complete([qs EXCEPT ![cur] = Begun(qs[cur])], cur, fates)
      BY <2>1, <2>3, <2>4, CompleteKept DEF Complete, Exact, Sound
    <2>7. Leftover([qs EXCEPT ![cur] = Begun(qs[cur])], cur) \subseteq Leftover(qs, cur)
      BY <2>1 DEF Leftover, Sound
    <2>8. QED
      BY <2>2, <2>5, <2>6, <2>7
  <1>2. CASE Schedulable(qs, cur) /\ Idle(qs[cur])
    <2>1. QueuesScheduled(qs, cur) = qs /\ EntryScheduled(qs, cur) = None
      BY <1>2 DEF QueuesScheduled, EntryScheduled
    <2>2. cur \in Queues /\ qs[cur].items = <<>> /\ ~qs[cur].draining
      BY <1>2 DEF Schedulable, Idle, Sound
    <2>3. Complete(qs, cur, fates) => Complete(qs, None, fates)
      BY EntryGone
    <2>4. QED
      BY <2>1, <2>2, <2>3 DEF Sound, Leftover
  <1>3. CASE ~Schedulable(qs, cur)
    BY <1>3 DEF QueuesScheduled, EntryScheduled
  <1>4. QED
    BY <1>1, <1>2, <1>3

\* A drain's object as the step that ends a run or the loop finds it: messages
\* may have gone, and none has come.
Shortened(q, Q, after) ==
  /\ Q \in QueueRecords /\ Len(Q.items) <= Cap /\ IsInjective(Q.items)
  /\ \A i \in DOMAIN Q.items : after[Q.items[i]] = "queued"
  /\ \A m \in Messages : Contains(Q.items, m) => Holds(queues[q], m)
  /\ q # current => Q.items = <<>>
  /\ \A r \in Queues \ {q} : QueueSound(queues[r], after)

LEMMA EndDrainKeeps ==
  ASSUME Sound(queues, current, fate), NEW q \in Queues, NEW Q, NEW after,
         Shortened(q, Q, after), EndDrain(q, Q)
  PROVE  /\ Sound(queues', current', after)
         /\ Complete([queues EXCEPT ![q] = Ended(Q)], current, after) =>
              Complete(queues', current', after)
         /\ Leftover(queues', current') \subseteq Leftover(queues, current)
  <1> DEFINE qs == [queues EXCEPT ![q] = Ended(Q)]
  <1>1. /\ Q \in QueueRecords
        /\ Ended(Q) \in QueueRecords /\ HoldsNothing(Ended(Q))
        /\ Ended(Q).items = Q.items /\ Ended(Q).draining = FALSE /\ Ended(Q).at = "idle"
    BY EndedIs DEF Shortened
  <1>2. /\ QueueSound(Ended(Q), after)
        /\ \A m \in Messages : Holds(Ended(Q), m) => Holds(queues[q], m)
    BY <1>1, RestingSound DEF Shortened
  <1>3. Sound(qs, current, after)
    <2>1. /\ current \in Queues \cup {None}
          /\ \A r \in Queues \ {q, current} : queues[r].items = <<>>
          /\ \A r \in Queues \ {q} : QueueSound(queues[r], after)
          /\ q # current => Ended(Q).items = <<>>
      BY <1>1 DEF Sound, Shortened
    <2>2. QED
      BY <1>2, <2>1, ReplaceKeeps
  <1>4. Leftover(qs, current) \subseteq Leftover(queues, current) /\ qs[q] = Ended(Q)
    BY <1>1 DEF Leftover, Sound
  <1>5. IF Idle(Q) THEN queues' = qs /\ current' = DeleteEntry(q)
                   ELSE ScheduleFollowupDrain(qs, current)
    BY DEF EndDrain, Ended
  <1> HIDE DEF qs
  <1>6. CASE Idle(Q)
    <2>1. queues' = qs /\ current' = DeleteEntry(q)
      BY <1>5, <1>6
    <2>2. CASE current = q
      <3>1. current' = None /\ qs[q].items = <<>> /\ ~qs[q].draining
        BY <1>1, <1>4, <1>6, <2>1, <2>2 DEF DeleteEntry, Idle
      <3>2. Sound(qs, None, after)
        BY <1>3, <2>2, <3>1 DEF Sound
      <3>3. Leftover(qs, None) \subseteq Leftover(qs, current)
        BY <2>2, <3>1 DEF Leftover
      <3>4. Complete(qs, current, after) => Complete(qs, None, after)
        BY EntryGone
      <3>5. QED
        BY <1>4, <2>1, <3>1, <3>2, <3>3, <3>4 DEF qs
    <2>3. CASE current # q
      <3>1. current' = current
        BY <2>1, <2>3 DEF DeleteEntry
      <3>2. QED
        BY <1>3, <1>4, <2>1, <3>1 DEF qs
    <2>4. QED
      BY <2>2, <2>3
  <1>7. CASE ~Idle(Q)
    <2>1. queues' = QueuesScheduled(qs, current) /\ current' = EntryScheduled(qs, current)
      BY <1>5, <1>7 DEF ScheduleFollowupDrain
    <2>2. QED
      BY <1>3, <1>4, <2>1, ScheduleKeeps DEF qs
  <1>8. QED
    BY <1>6, <1>7

\* A drain's step, and a handler's: what else the invariant asks of it.
LEMMA Assembled ==
  ASSUME FollowupInv, Sound(queues', current', fate'),
         overflowed' \in BOOLEAN, ~overflowed' => Complete(queues', current', fate'),
         Cardinality(Leftover(queues', current')) <= clears',
         active' \in Deliveries \cup Queues \cup {None}, embedded' \in BOOLEAN,
         handler' \in [Deliveries -> {"new", "enqueue", "runNow", "running", "ended", "done"}],
         clears' \in 0..MaxClears, throws' \in 0..MaxThrows, embeds' \in 0..MaxEmbedded,
         fate' \in [Messages -> Fates], unattended' \subseteq Messages,
         recent' = {m \in Messages : fate'[m] \notin {"none", "refused"}}
  PROVE  FollowupInv'
  <1>1. TypeOK'
    BY DEF TypeOK, Sound, QueueSound
  <1>2. /\ Sound(queues, current, fate)' <=> Sound(queues', current', fate')
        /\ Complete(queues, current, fate)' <=> Complete(queues', current', fate')
        /\ Leftover(queues, current)' = Leftover(queues', current')
    BY DEF Sound, Complete, Leftover
  <1>3. QED
    BY <1>1, <1>2 DEF FollowupInv

\* No drain is left over that was not.
LEMMA NoneLeftOver ==
  ASSUME FollowupInv, NEW S, S \subseteq Leftover(queues, current)
  PROVE  Cardinality(S) <= clears
  <1>1. IsFiniteSet(Leftover(queues, current))
    <2>1. Leftover(queues, current) \subseteq Queues
      BY DEF Leftover
    <2>2. QED
      BY <2>1, FollowupAssumption, FS_Subset
  <1>2. /\ IsFiniteSet(S) /\ Cardinality(S) <= Cardinality(Leftover(queues, current))
        /\ Cardinality(S) \in Nat /\ Cardinality(Leftover(queues, current)) \in Nat
    BY <1>1, FS_Subset, FS_CardinalityType
  <1>3. Cardinality(Leftover(queues, current)) <= clears /\ clears \in Nat
    BY FollowupAssumption DEF FollowupInv, TypeOK
  <1>4. QED
    BY <1>2, <1>3

LEMMA DrainAssembled ==
  ASSUME FollowupInv, Sound(queues', current', fate'),
         ~overflowed => Complete(queues', current', fate'),
         Leftover(queues', current') \subseteq Leftover(queues, current),
         active' \in Deliveries \cup Queues \cup {None}, throws' \in 0..MaxThrows,
         fate' \in [Messages -> Fates],
         \A m \in Messages : fate'[m] \in {"none", "refused"} <=> fate[m] \in {"none", "refused"},
         UNCHANGED <<embedded, handler, recent, clears, embeds, overflowed, unattended>>
  PROVE  FollowupInv'
  <1>1. Cardinality(Leftover(queues', current')) <= clears'
    BY NoneLeftOver
  <1>2. recent' = {m \in Messages : fate'[m] \notin {"none", "refused"}}
    BY DEF FollowupInv
  <1>3. TypeOK
    BY DEF FollowupInv
  <1>4. QED
    BY <1>1, <1>2, <1>3, Assembled DEF TypeOK

(***************************************************************************)
(* The drain takes messages                                                *)
(***************************************************************************)
\* One object changes, and neither its messages nor anybody else's.
LEMMA ObjectChanges ==
  ASSUME FollowupInv, NEW q \in Queues, NEW Q, QueueSound(Q, fate),
         \A m \in Messages : Holds(Q, m) => Holds(queues[q], m),
         Q.items = queues[q].items, Q.draining => queues[q].draining,
         ~overflowed /\ q = current => Exact(Q),
         queues' = [queues EXCEPT ![q] = Q], active' \in Deliveries \cup Queues \cup {None},
         UNCHANGED <<current, throws, fate, embedded, handler, recent, clears, embeds,
                     overflowed, unattended>>
  PROVE  FollowupInv'
  <1>1. Sound(queues, current, fate) /\ TypeOK
    BY DEF FollowupInv
  <1>2. /\ current \in Queues \cup {None}
        /\ \A r \in Queues \ {q, current} : queues[r].items = <<>>
        /\ \A r \in Queues \ {q} : QueueSound(queues[r], fate)
        /\ q # current => Q.items = <<>>
    BY <1>1 DEF Sound
  <1>3. Sound(queues', current', fate')
    BY <1>1, <1>2, ReplaceKeeps
  <1>4. ~overflowed => Complete(queues', current', fate')
    BY <1>1, CompleteKept DEF FollowupInv, Sound
  <1>5. Leftover(queues', current') \subseteq Leftover(queues, current)
    BY <1>1 DEF Leftover, Sound
  <1>6. throws' \in 0..MaxThrows /\ fate' \in [Messages -> Fates]
    BY <1>1 DEF TypeOK
  <1>7. QED
    BY <1>3, <1>4, <1>5, <1>6, DrainAssembled

\* What a drain takes from the front of its queue is in order.
LEMMA HandedSound ==
  ASSUME NEW fates, NEW Q, QueueSound(Q, fates), NEW R \in QueueRecords,
         R.items = Q.items, R.at \in {"start", "running"}, R.draining = TRUE,
         Len(R.batch) <= R.take, SameSender(R.batch),
         \A k \in DOMAIN R.batch : k \in DOMAIN Q.items /\ R.batch[k] = Q.items[k],
         \A k \in DOMAIN R.rest : R.take + k \in DOMAIN Q.items
                                  /\ R.rest[k] = Q.items[R.take + k]
  PROVE  /\ QueueSound(R, fates)
         /\ \A m \in Messages : Holds(R, m) => Holds(Q, m)
  <1>1. /\ Q \in QueueRecords /\ IsInjective(Q.items) /\ Len(Q.items) <= Cap
        /\ \A i \in DOMAIN Q.items : fates[Q.items[i]] = "queued"
    BY SoundParts
  <1>2. /\ DOMAIN Q.items = 1..Len(Q.items) /\ Len(Q.items) \in Nat
        /\ DOMAIN R.batch = 1..Len(R.batch) /\ Len(R.batch) \in Nat
        /\ DOMAIN R.rest = 1..Len(R.rest) /\ Len(R.rest) \in Nat
        /\ R.take \in Nat
    BY <1>1, Fields
  <1>3. \A i, k \in DOMAIN Q.items : Q.items[i] = Q.items[k] => i = k
    BY <1>1 DEF IsInjective
  <1>4. /\ \A i \in DOMAIN R.items, k \in DOMAIN R.batch : R.items[i] = R.batch[k] => i <= k
        /\ \A i \in DOMAIN R.items, k \in DOMAIN R.rest :
             R.items[i] = R.rest[k] => i <= R.take + k
    <2>1. ASSUME NEW i \in DOMAIN R.items, NEW k \in DOMAIN R.batch, R.items[i] = R.batch[k]
          PROVE  i <= k
      BY <1>2, <1>3, <2>1
    <2>2. ASSUME NEW i \in DOMAIN R.items, NEW k \in DOMAIN R.rest, R.items[i] = R.rest[k]
          PROVE  i <= R.take + k
      BY <1>2, <1>3, <2>2
    <2>3. QED
      BY <2>1, <2>2
  <1>5. IsInjective(R.batch) /\ IsInjective(R.rest)
    <2>1. ASSUME NEW k \in DOMAIN R.batch, NEW l \in DOMAIN R.batch, R.batch[k] = R.batch[l]
          PROVE  k = l
      BY <1>3, <2>1
    <2>2. ASSUME NEW k \in DOMAIN R.rest, NEW l \in DOMAIN R.rest, R.rest[k] = R.rest[l]
          PROVE  k = l
      <3>1. R.take + k = R.take + l
        BY <1>3, <2>2
      <3>2. QED
        BY <1>2, <3>1
    <2>3. QED
      BY <2>1, <2>2 DEF IsInjective
  <1>6. \A k \in DOMAIN R.batch, l \in DOMAIN R.rest : R.batch[k] # R.rest[l]
    <2> SUFFICES ASSUME NEW k \in DOMAIN R.batch, NEW l \in DOMAIN R.rest,
                        R.batch[k] = R.rest[l]
                 PROVE  FALSE
      OBVIOUS
    <2>1. k = R.take + l
      BY <1>3
    <2>2. QED
      BY <1>2, <2>1
  <1>7. InOrder(R)
    BY <1>1, <1>4, <1>5, <1>6 DEF InOrder
  <1>8. NotYetRun(R, fates)
    BY <1>1 DEF NotYetRun
  <1>9. \A m \in Messages : Holds(R, m) => Holds(Q, m)
    <2>1. \A m \in Messages : Contains(R.batch, m) \/ Contains(R.rest, m) => Contains(Q.items, m)
      BY <1>2 DEF Contains
    <2>2. QED
      BY <2>1 DEF Holds
  <1>10. QED
    BY <1>1, <1>7, <1>8, <1>9 DEF QueueSound

\* With no overflow the front of the queue is what it took.
LEMMA HandedExact ==
  ASSUME NEW Q \in QueueRecords, Exact(Q), NEW R \in QueueRecords,
         R.items = Q.items, R.dropped = Q.dropped, ~R.summary,
         Len(R.batch) = R.take, R.take + Len(R.rest) <= Len(Q.items),
         \A k \in DOMAIN R.batch : R.batch[k] = Q.items[k],
         \A k \in DOMAIN R.rest : R.rest[k] = Q.items[R.take + k]
  PROVE  Exact(R)
  BY DEF Exact

\* What handing a batch to the runner makes of a queue object.
Handed(Q, batch, take, summary, rest) ==
  [Q EXCEPT !.at = "start", !.batch = batch, !.take = take, !.summary = summary,
            !.rest = rest]

\* The object R that q's drain leaves when it hands over the first messages of
\* its queue, or none.
HandsOver(q, R) ==
  /\ R \in QueueRecords
  /\ R.items = queues[q].items /\ R.dropped = queues[q].dropped /\ R.draining = TRUE
  /\ R.at = "start" /\ R.take <= Len(queues[q].items)
  /\ Len(R.batch) <= R.take /\ SameSender(R.batch)
  /\ \A k \in DOMAIN R.batch : R.batch[k] = queues[q].items[k]
  /\ R.take + Len(R.rest) <= Len(queues[q].items)
  /\ \A k \in DOMAIN R.rest : R.rest[k] = queues[q].items[R.take + k]
  /\ R.summary => queues[q].dropped > 0
  /\ Len(R.batch) = R.take \/ R.summary

HandOverStep(q) ==
  /\ queues[q].at \in {"debounce", "collect"}
  /\ \E R : HandsOver(q, R) /\ queues' = [queues EXCEPT ![q] = R]
  /\ UNCHANGED <<current, active, throws, fate, embedded, handler, recent, clears, embeds,
                 overflowed, unattended>>

LEMMA HandOverKeeps ==
  ASSUME FollowupInv, NEW q \in Queues, HandOverStep(q)
  PROVE  FollowupInv'
  <1> DEFINE Q == queues[q]
  <1>0. PICK R : HandsOver(q, R) /\ queues' = [queues EXCEPT ![q] = R]
    BY DEF HandOverStep
  <1>11. /\ Q.at \in {"debounce", "collect"}
         /\ UNCHANGED <<current, active, throws, fate, embedded, handler, recent, clears,
                        embeds, overflowed, unattended>>
    BY DEF HandOverStep
  <1>1. QueueSound(Q, fate) /\ TypeOK /\ queues \in [Queues -> QueueRecords]
    BY DEF FollowupInv, Sound
  <1>3. /\ R \in QueueRecords
        /\ R.items = Q.items /\ R.dropped = Q.dropped /\ R.draining = TRUE
        /\ R.at = "start" /\ R.take <= Len(Q.items)
        /\ Len(R.batch) <= R.take /\ SameSender(R.batch)
        /\ \A k \in DOMAIN R.batch : R.batch[k] = Q.items[k]
        /\ R.take + Len(R.rest) <= Len(Q.items)
        /\ \A k \in DOMAIN R.rest : R.rest[k] = Q.items[R.take + k]
        /\ R.summary => Q.dropped > 0
        /\ Len(R.batch) = R.take \/ R.summary
    BY <1>0 DEF HandsOver
  <1>2. /\ Q \in QueueRecords /\ Q.draining = TRUE
        /\ Q.items \in Seq(Messages) /\ Len(Q.items) \in Nat /\ DOMAIN Q.items = 1..Len(Q.items)
        /\ Q.dropped \in Nat
    BY <1>1, <1>11, Fields DEF QueueSound
  <1>4. /\ DOMAIN R.batch = 1..Len(R.batch) /\ Len(R.batch) \in Nat
        /\ DOMAIN R.rest = 1..Len(R.rest) /\ Len(R.rest) \in Nat
        /\ R.take \in Nat
    BY <1>3, Fields
  <1>5. /\ \A k \in DOMAIN R.batch : k \in DOMAIN Q.items
        /\ \A k \in DOMAIN R.rest : R.take + k \in DOMAIN Q.items
    <2>1. ASSUME NEW k \in DOMAIN R.batch PROVE k \in DOMAIN Q.items
      BY <1>2, <1>3, <1>4
    <2>2. ASSUME NEW k \in DOMAIN R.rest PROVE R.take + k \in DOMAIN Q.items
      BY <1>2, <1>3, <1>4
    <2>3. QED
      BY <2>1, <2>2
  <1>6. /\ QueueSound(R, fate)
        /\ \A m \in Messages : Holds(R, m) => Holds(Q, m)
    BY <1>1, <1>3, <1>5, HandedSound
  <1>7. ~overflowed /\ q = current => Exact(R)
    <2>1. SUFFICES ASSUME ~overflowed, q = current PROVE Exact(R)
      OBVIOUS
    <2>2. Exact(Q)
      BY <2>1 DEF FollowupInv, Complete
    <2>3. ~R.summary
      BY <1>2, <1>3, <2>2 DEF Exact
    <2>4. QED
      BY <1>2, <1>3, <2>2, <2>3, HandedExact
  <1>8. active' \in Deliveries \cup Queues \cup {None}
    BY <1>1, <1>11 DEF TypeOK
  <1>9. R.draining => queues[q].draining
    BY <1>2
  <1>10. QED
    BY <1>0, <1>3, <1>6, <1>7, <1>8, <1>9, <1>11, ObjectChanges

LEMMA Drained ==
  ASSUME FollowupInv, NEW q \in Queues
  PROVE  /\ queues[q] \in QueueRecords /\ QueueSound(queues[q], fate)
         /\ queues \in [Queues -> QueueRecords]
         /\ queues[q].items \in Seq(Messages) /\ Len(queues[q].items) \in Nat
         /\ queues[q].items # <<>> => Len(queues[q].items) >= 1
         /\ queues[q].at # "idle" => queues[q].draining = TRUE
         /\ queues[q].at \in {"debounce", "collect"} => HoldsNothing(queues[q])
  <1>1. queues[q] \in QueueRecords /\ QueueSound(queues[q], fate)
        /\ queues \in [Queues -> QueueRecords]
    BY DEF FollowupInv, Sound
  <1>2. queues[q].items \in Seq(Messages) /\ Len(queues[q].items) \in Nat
    BY <1>1, Fields
  <1>3. queues[q].items # <<>> => Len(queues[q].items) >= 1
    BY <1>2
  <1>4. QED
    BY <1>1, <1>2, <1>3 DEF QueueSound

\* One message on its own.
LEMMA TakeNextHandsOver ==
  ASSUME FollowupInv, NEW q \in Queues, TakeNext(q)
  PROVE  HandOverStep(q)
  <1> DEFINE Q == queues[q]
             one == <<Head(Q.items)>>
             plain == Handed(Q, one, 1, FALSE, <<>>)
             forced == [Q EXCEPT !.at = "start", !.force = TRUE, !.batch = one, !.take = 1]
  <1>1. /\ Q.at = "debounce" /\ Q.items # <<>>
        /\ queues' = [queues EXCEPT ![q] = plain] \/ queues' = [queues EXCEPT ![q] = forced]
        /\ UNCHANGED <<current, active, throws, fate, embedded, handler, recent, clears,
                       embeds, overflowed, unattended>>
    BY DEF TakeNext, HandToRunner, Handed, roundFrame, drainFrame
  <1>2. /\ Q \in QueueRecords /\ Q.items \in Seq(Messages) /\ Len(Q.items) >= 1
        /\ Len(Q.items) \in Nat
        /\ Q.draining = TRUE /\ HoldsNothing(Q)
    BY <1>1, Drained
  <1>3. /\ one \in Seq(Messages) /\ Len(one) = 1 /\ DOMAIN one = {1} /\ one[1] = Q.items[1]
        /\ <<>> \in Seq(Messages) /\ Len(<<>>) = 0 /\ DOMAIN <<>> = {}
    BY <1>2
  <1>4. SameSender(one)
    BY <1>3 DEF SameSender
  <1>5. ASSUME NEW R \in {plain, forced}
        PROVE  /\ R \in QueueRecords
               /\ R.items = Q.items /\ R.dropped = Q.dropped /\ R.draining = TRUE
               /\ R.at = "start" /\ R.batch = one /\ R.take = 1 /\ R.summary = FALSE
               /\ R.rest = <<>>
    <2> HIDE DEF one
    <2>1. CASE R = plain
      BY <1>2, <1>3, <2>1 DEF Handed, QueueRecords, Places
    <2>2. CASE R = forced
      BY <1>2, <1>3, <2>2 DEF HoldsNothing, QueueRecords, Places
    <2>3. QED
      BY <2>1, <2>2
  <1>6. PICK R \in {plain, forced} : queues' = [queues EXCEPT ![q] = R]
    BY <1>1
  <1> HIDE DEF one, plain, forced
  <1>7. HandsOver(q, R)
    <2>1. /\ R \in QueueRecords
          /\ R.items = Q.items /\ R.dropped = Q.dropped /\ R.draining = TRUE
          /\ R.at = "start" /\ R.batch = one /\ R.take = 1 /\ R.summary = FALSE
          /\ R.rest = <<>>
      BY <1>5
    <2>2. /\ Len(R.batch) = 1 /\ Len(R.rest) = 0 /\ SameSender(R.batch)
          /\ \A k \in DOMAIN R.batch : R.batch[k] = Q.items[k]
          /\ \A k \in DOMAIN R.rest : R.rest[k] = Q.items[R.take + k]
      BY <1>3, <1>4, <2>1
    <2>3. /\ R.take <= Len(Q.items) /\ R.take + Len(R.rest) <= Len(Q.items)
          /\ Len(R.batch) = R.take /\ Len(R.batch) <= R.take
      BY <1>2, <2>1, <2>2
    <2>4. QED
      BY <2>1, <2>2, <2>3 DEF HandsOver
  <1>8. QED
    BY <1>1, <1>6, <1>7 DEF HandOverStep

LEMMA TakeSummaryTurnHandsOver ==
  ASSUME FollowupInv, NEW q \in Queues, TakeSummaryTurn(q)
  PROVE  HandOverStep(q)
  <1> DEFINE Q == queues[q]
             R == Handed(Q, <<>>, 1, TRUE, <<>>)
  <1>1. /\ Q.at = "debounce" /\ Q.items # <<>> /\ Q.dropped > 0
        /\ queues' = [queues EXCEPT ![q] = R]
        /\ UNCHANGED <<current, active, throws, fate, embedded, handler, recent, clears,
                       embeds, overflowed, unattended>>
    BY DEF TakeSummaryTurn, HandToRunner, Handed, roundFrame, drainFrame, Summarises
  <1>2. /\ Q \in QueueRecords /\ Len(Q.items) >= 1 /\ Len(Q.items) \in Nat /\ Q.draining = TRUE
    BY <1>1, Drained
  <1>3. <<>> \in Seq(Messages) /\ Len(<<>>) = 0 /\ DOMAIN <<>> = {} /\ SameSender(<<>>)
    BY DEF SameSender
  <1>4. /\ R \in QueueRecords
        /\ R.items = Q.items /\ R.dropped = Q.dropped /\ R.draining = TRUE
        /\ R.at = "start" /\ R.batch = <<>> /\ R.take = 1 /\ R.summary = TRUE
        /\ R.rest = <<>>
    BY <1>2, <1>3 DEF Handed, QueueRecords, Places
  <1> HIDE DEF R
  <1>5. HandsOver(q, R)
    BY <1>1, <1>2, <1>3, <1>4 DEF HandsOver
  <1>6. QED
    BY <1>1, <1>5 DEF HandOverStep

LEMMA CollectSummaryHandsOver ==
  ASSUME FollowupInv, NEW q \in Queues, CollectSummary(q)
  PROVE  HandOverStep(q)
  <1> DEFINE Q == queues[q]
             R == Handed(Q, <<>>, 0, TRUE, <<>>)
  <1>1. /\ Q.at = "collect" /\ Q.dropped > 0
        /\ queues' = [queues EXCEPT ![q] = R]
        /\ UNCHANGED <<current, active, throws, fate, embedded, handler, recent, clears,
                       embeds, overflowed, unattended>>
    BY DEF CollectSummary, HandToRunner, Handed, roundFrame, drainFrame, Summarises
  <1>2. /\ Q \in QueueRecords /\ Len(Q.items) \in Nat /\ Q.draining = TRUE
    BY <1>1, Drained
  <1>3. <<>> \in Seq(Messages) /\ Len(<<>>) = 0 /\ DOMAIN <<>> = {} /\ SameSender(<<>>)
    BY DEF SameSender
  <1>4. /\ R \in QueueRecords
        /\ R.items = Q.items /\ R.dropped = Q.dropped /\ R.draining = TRUE
        /\ R.at = "start" /\ R.batch = <<>> /\ R.take = 0 /\ R.summary = TRUE
        /\ R.rest = <<>>
    BY <1>2, <1>3 DEF Handed, QueueRecords, Places
  <1> HIDE DEF R
  <1>5. HandsOver(q, R)
    BY <1>1, <1>2, <1>3, <1>4 DEF HandsOver
  <1>6. QED
    BY <1>1, <1>5 DEF HandOverStep

\* A collected group: the first messages of the snapshot, with the others to come.
LEMMA CollectGroupsHandsOver ==
  ASSUME FollowupInv, NEW q \in Queues, CollectGroups(q)
  PROVE  HandOverStep(q)
  <1> DEFINE Q == queues[q]
             n == GroupLength(Q.items)
             batch == FirstGroup(Q.items)
             rest == WithoutFirst(Q.items, n)
             alone == Handed(Q, batch, n, FALSE, rest)
             summed == Handed(Q, batch, n, TRUE, rest)
  <1>1. /\ Q.at = "collect" /\ Q.items # <<>>
        /\ \/ queues' = [queues EXCEPT ![q] = alone]
           \/ queues' = [queues EXCEPT ![q] = summed] /\ Q.dropped > 0
        /\ UNCHANGED <<current, active, throws, fate, embedded, handler, recent, clears,
                       embeds, overflowed, unattended>>
    <2>1. CASE Summarises(Q)
      BY <2>1 DEF CollectGroups, Collected, HandToRunner, Handed, Summarises,
                  roundFrame, drainFrame
    <2>2. CASE ~Summarises(Q)
      BY <2>2 DEF CollectGroups, Collected, HandToRunner, Handed, Summarises,
                  roundFrame, drainFrame
    <2>3. QED
      BY <2>1, <2>2
  <1>2. /\ Q \in QueueRecords /\ Q.items \in Seq(Messages) /\ Len(Q.items) \in Nat
        /\ Q.draining = TRUE
    BY <1>1, Drained
  <1>3. /\ n \in 1..Len(Q.items) /\ batch \in Seq(Messages) /\ Len(batch) = n
        /\ \A i \in 1..n : batch[i] = Q.items[i]
        /\ SameSender(batch) /\ DOMAIN batch = 1..n
    BY <1>1, <1>2, FirstGroupIs
  <1> HIDE DEF n, batch
  <1>4. /\ rest \in Seq(Messages)
        /\ Len(rest) = IF n >= Len(Q.items) THEN 0 ELSE Len(Q.items) - n
        /\ DOMAIN rest = 1..Len(rest)
        /\ \A i \in DOMAIN rest : rest[i] = Q.items[n + i]
    <2>1. /\ rest \in Seq(Messages)
          /\ Len(rest) = IF n >= Len(Q.items) THEN 0 ELSE Len(Q.items) - n
          /\ DOMAIN rest = 1..Len(rest)
          /\ \A i \in 1..Len(rest) : rest[i] = Q.items[i + n]
      BY <1>2, <1>3, WithoutFirstIs
    <2> HIDE DEF rest
    <2>2. \A i \in 1..Len(rest) : i + n = n + i
      BY <1>2, <1>3, <2>1
    <2>3. QED
      BY <2>1, <2>2
  <1> HIDE DEF rest
  <1>5. n + Len(rest) <= Len(Q.items) /\ n <= Len(Q.items) /\ n \in Nat
    BY <1>2, <1>3, <1>4
  <1>6. CASE queues' = [queues EXCEPT ![q] = alone]
    <2>1. /\ alone \in QueueRecords
          /\ alone.items = Q.items /\ alone.dropped = Q.dropped /\ alone.draining = TRUE
          /\ alone.at = "start" /\ alone.batch = batch /\ alone.take = n
          /\ alone.rest = rest /\ alone.summary = FALSE
      BY <1>2, <1>3, <1>4, <1>5 DEF Handed, QueueRecords, Places
    <2> HIDE DEF alone
    <2>2. /\ \A k \in DOMAIN alone.batch : alone.batch[k] = Q.items[k]
          /\ \A k \in DOMAIN alone.rest : alone.rest[k] = Q.items[alone.take + k]
      <3>1. \A k \in DOMAIN alone.batch : alone.batch[k] = Q.items[k]
        BY <1>3, <2>1
      <3>2. \A k \in DOMAIN alone.rest : alone.rest[k] = Q.items[alone.take + k]
        BY <1>4, <2>1
      <3>3. QED
        BY <3>1, <3>2
    <2>3. /\ alone.take <= Len(Q.items) /\ alone.take + Len(alone.rest) <= Len(Q.items)
          /\ Len(alone.batch) = alone.take /\ Len(alone.batch) <= alone.take
          /\ SameSender(alone.batch)
      BY <1>3, <1>5, <2>1
    <2>4. HandsOver(q, alone)
      BY <2>1, <2>2, <2>3 DEF HandsOver
    <2>5. QED
      BY <1>1, <1>6, <2>4 DEF HandOverStep
  <1>7. CASE queues' = [queues EXCEPT ![q] = summed] /\ Q.dropped > 0
    <2>1. /\ summed \in QueueRecords
          /\ summed.items = Q.items /\ summed.dropped = Q.dropped /\ summed.draining = TRUE
          /\ summed.at = "start" /\ summed.batch = batch /\ summed.take = n
          /\ summed.rest = rest /\ summed.summary = TRUE
      BY <1>2, <1>3, <1>4, <1>5 DEF Handed, QueueRecords, Places
    <2> HIDE DEF summed
    <2>2. /\ \A k \in DOMAIN summed.batch : summed.batch[k] = Q.items[k]
          /\ \A k \in DOMAIN summed.rest : summed.rest[k] = Q.items[summed.take + k]
      <3>1. \A k \in DOMAIN summed.batch : summed.batch[k] = Q.items[k]
        BY <1>3, <2>1
      <3>2. \A k \in DOMAIN summed.rest : summed.rest[k] = Q.items[summed.take + k]
        BY <1>4, <2>1
      <3>3. QED
        BY <3>1, <3>2
    <2>3. /\ summed.take <= Len(Q.items) /\ summed.take + Len(summed.rest) <= Len(Q.items)
          /\ Len(summed.batch) = summed.take /\ Len(summed.batch) <= summed.take
          /\ SameSender(summed.batch)
      BY <1>3, <1>5, <2>1
    <2>4. HandsOver(q, summed)
      BY <2>1, <2>2, <2>3, <1>7 DEF HandsOver
    <2>5. QED
      BY <1>1, <1>7, <2>4 DEF HandOverStep
  <1>8. QED
    BY <1>1, <1>6, <1>7

\* The drain goes from one place to another, and its queue stays as it was.
LEMMA PlaceKeeps ==
  ASSUME FollowupInv, NEW q \in Queues, NEW p \in Places \ {"idle"},
         queues[q].at # "idle",
         p = "collect" => queues[q].at = "debounce",
         p = "debounce" => FALSE,
         queues' = [queues EXCEPT ![q].at = p],
         active' \in Deliveries \cup Queues \cup {None},
         UNCHANGED <<current, throws, fate, embedded, handler, recent, clears, embeds,
                     overflowed, unattended>>
  PROVE  FollowupInv'
  <1> DEFINE Q == queues[q]
             R == [Q EXCEPT !.at = p]
  <1>1. Q \in QueueRecords /\ QueueSound(Q, fate) /\ queues \in [Queues -> QueueRecords]
    BY Drained
  <1>2. queues' = [queues EXCEPT ![q] = R]
    BY <1>1
  <1>3. /\ R \in QueueRecords /\ R.at = p /\ R.items = Q.items /\ R.batch = Q.batch
        /\ R.rest = Q.rest /\ R.take = Q.take /\ R.summary = Q.summary
        /\ R.draining = Q.draining /\ R.dropped = Q.dropped
    BY <1>1 DEF QueueRecords
  <1> HIDE DEF R
  <1>4. QueueSound(R, fate)
    BY <1>1, <1>3 DEF QueueSound, HoldsNothing, InOrder, NotYetRun
  <1>5. \A m \in Messages : Holds(R, m) => Holds(Q, m)
    BY <1>3 DEF Holds
  <1>6. ~overflowed /\ q = current => Exact(R)
    BY <1>3 DEF FollowupInv, Complete, Exact
  <1>7. QED
    BY <1>2, <1>3, <1>4, <1>5, <1>6, ObjectChanges

LEMMA CheckCollectKeeps ==
  ASSUME FollowupInv, NEW q \in Queues, CheckCollect(q)
  PROVE  FollowupInv'
  <1>1. active \in Deliveries \cup Queues \cup {None}
    BY DEF FollowupInv, TypeOK
  <1>2. /\ queues[q].at = "debounce"
        /\ queues' = [queues EXCEPT ![q].at = "collect"]
        /\ UNCHANGED <<current, active, throws, fate, embedded, handler, recent, clears,
                       embeds, overflowed, unattended>>
    BY DEF CheckCollect, roundFrame, drainFrame
  <1>3. "collect" \in Places \ {"idle"}
    BY DEF Places
  <1>4. QED
    BY <1>1, <1>2, <1>3, PlaceKeeps

LEMMA StartRunKeeps ==
  ASSUME FollowupInv, NEW q \in Queues, StartRun(q)
  PROVE  FollowupInv'
  <1>1. /\ queues[q].at = "start" /\ active' = q
        /\ queues' = [queues EXCEPT ![q].at = "running"]
        /\ UNCHANGED <<current, throws, fate, embedded, handler, recent, clears,
                       embeds, overflowed, unattended>>
    BY DEF StartRun, drainFrame
  <1>2. "running" \in Places \ {"idle"}
    BY DEF Places
  <1>3. QED
    BY <1>1, <1>2, PlaceKeeps

(***************************************************************************)
(* The drain ends                                                          *)
(***************************************************************************)
\* It ends with its queue as it is: nothing of it ran.
LEMMA EndsKeeps ==
  ASSUME FollowupInv, NEW q \in Queues, EndDrain(q, queues[q]),
         active' \in Deliveries \cup Queues \cup {None}, throws' \in 0..MaxThrows,
         UNCHANGED <<fate, embedded, handler, recent, clears, embeds, overflowed, unattended>>
  PROVE  FollowupInv'
  <1> DEFINE Q == queues[q]
  <1>1. /\ Q \in QueueRecords /\ QueueSound(Q, fate) /\ Sound(queues, current, fate)
        /\ queues \in [Queues -> QueueRecords]
    BY Drained DEF FollowupInv
  <1>2. Shortened(q, Q, fate)
    <2>1. /\ Len(Q.items) <= Cap /\ IsInjective(Q.items)
          /\ \A i \in DOMAIN Q.items : fate[Q.items[i]] = "queued"
      BY <1>1, SoundParts
    <2>2. /\ q # current => Q.items = <<>>
          /\ \A r \in Queues \ {q} : QueueSound(queues[r], fate)
      BY <1>1 DEF Sound
    <2>3. QED
      BY <1>1, <2>1, <2>2 DEF Shortened, Holds
  <1>3. /\ Sound(queues', current', fate)
        /\ Complete([queues EXCEPT ![q] = Ended(Q)], current, fate) =>
             Complete(queues', current', fate)
        /\ Leftover(queues', current') \subseteq Leftover(queues, current)
    BY <1>1, <1>2, EndDrainKeeps
  <1>4. ~overflowed => Complete([queues EXCEPT ![q] = Ended(Q)], current, fate)
    <2>1. SUFFICES ASSUME ~overflowed
                   PROVE  Complete([queues EXCEPT ![q] = Ended(Q)], current, fate)
      OBVIOUS
    <2>2. Complete(queues, current, fate) /\ (q = current => Q.dropped = 0)
      BY <2>1 DEF FollowupInv, Complete, Exact
    <2>3. Ended(Q) \in QueueRecords /\ HoldsNothing(Ended(Q)) /\ Ended(Q).items = Q.items
          /\ Ended(Q).dropped = Q.dropped
      BY <1>1, EndedIs
    <2>4. q = current => Exact(Ended(Q))
      BY <2>2, <2>3, RestingExact
    <2>5. QED
      BY <1>1, <2>2, <2>3, <2>4, CompleteKept
  <1>5. fate' \in [Messages -> Fates]
    BY DEF FollowupInv, TypeOK
  <1>6. QED
    BY <1>3, <1>4, <1>5, DrainAssembled

LEMMA BreakKeeps ==
  ASSUME FollowupInv, NEW q \in Queues, Break(q)
  PROVE  FollowupInv'
  <1>1. /\ EndDrain(q, queues[q])
        /\ UNCHANGED <<active, throws, fate, embedded, handler, recent, clears, embeds,
                       overflowed, unattended>>
    BY DEF Break, drainFrame
  <1>2. active \in Deliveries \cup Queues \cup {None} /\ throws \in 0..MaxThrows
    BY DEF FollowupInv, TypeOK
  <1>3. QED
    BY <1>1, <1>2, EndsKeeps

LEMMA RunRefusedKeeps ==
  ASSUME FollowupInv, NEW q \in Queues, RunRefused(q)
  PROVE  FollowupInv'
  <1>1. /\ EndDrain(q, queues[q])
        /\ UNCHANGED <<active, fate, embedded, handler, recent, clears, embeds,
                       overflowed, unattended>>
        /\ throws' = throws \/ (throws < MaxThrows /\ throws' = throws + 1)
    BY DEF RunRefused, drainFrame
  <1>2. active \in Deliveries \cup Queues \cup {None} /\ throws \in 0..MaxThrows
    BY DEF FollowupInv, TypeOK
  <1>3. throws' \in 0..MaxThrows
    BY <1>1, <1>2, FollowupAssumption
  <1>4. QED
    BY <1>1, <1>2, <1>3, EndsKeeps

LEMMA RunThrowsKeeps ==
  ASSUME FollowupInv, NEW q \in Queues, RunThrows(q)
  PROVE  FollowupInv'
  <1>1. /\ EndDrain(q, queues[q])
        /\ UNCHANGED <<fate, embedded, handler, recent, clears, embeds,
                       overflowed, unattended>>
        /\ throws < MaxThrows /\ throws' = throws + 1
        /\ active' = IF active = q THEN None ELSE active
    BY DEF RunThrows, drainFrame, ReleasedBy
  <1>2. active \in Deliveries \cup Queues \cup {None} /\ throws \in 0..MaxThrows
    BY DEF FollowupInv, TypeOK
  <1>3. throws' \in 0..MaxThrows
    BY <1>1, <1>2, FollowupAssumption
  <1>4. QED
    BY <1>1, <1>2, <1>3, EndsKeeps

(***************************************************************************)
(* The run of a batch returns                                              *)
(***************************************************************************)
Left(q) == WithoutFirst(queues[q].items, queues[q].take)
AfterRun(q) == [m \in Messages |-> IF Contains(queues[q].batch, m) THEN "ran" ELSE fate[m]]

\* The messages after those it takes are none of the batch, and as many places
\* nearer to the front as were taken.
LEMMA LeftIs ==
  ASSUME FollowupInv, NEW q \in Queues
  PROVE  /\ Left(q) \in Seq(Messages) /\ Len(Left(q)) <= Cap /\ IsInjective(Left(q))
         /\ DOMAIN Left(q) = 1..Len(Left(q)) /\ Len(Left(q)) \in Nat
         /\ \A i \in DOMAIN Left(q) :
              /\ i + queues[q].take \in DOMAIN queues[q].items
              /\ Left(q)[i] = queues[q].items[i + queues[q].take]
              /\ ~Contains(queues[q].batch, Left(q)[i])
              /\ Left(q)[i] \in Messages /\ fate[Left(q)[i]] = "queued"
              /\ \A k \in DOMAIN queues[q].rest : Left(q)[i] = queues[q].rest[k] => i <= k
         /\ queues[q].items = <<>> => Left(q) = <<>>
  <1> DEFINE Q == queues[q]
             N == Left(q)
  <1>1. Q \in QueueRecords /\ QueueSound(Q, fate)
    BY Drained
  <1>2. /\ Q.items \in Seq(Messages) /\ Q.batch \in Seq(Messages) /\ Q.rest \in Seq(Messages)
        /\ Q.take \in Nat /\ Len(Q.items) \in Nat /\ Len(Q.batch) \in Nat
        /\ DOMAIN Q.items = 1..Len(Q.items) /\ DOMAIN Q.batch = 1..Len(Q.batch)
        /\ DOMAIN Q.rest = 1..Len(Q.rest) /\ Len(Q.rest) \in Nat
    BY <1>1, Fields
  <1>3. /\ Len(Q.items) <= Cap /\ IsInjective(Q.items) /\ Len(Q.batch) <= Q.take
        /\ \A i \in DOMAIN Q.items : fate[Q.items[i]] = "queued"
        /\ \A i \in DOMAIN Q.items :
             /\ \A k \in DOMAIN Q.batch : Q.items[i] = Q.batch[k] => i <= k
             /\ \A k \in DOMAIN Q.rest : Q.items[i] = Q.rest[k] => i <= Q.take + k
    BY <1>1 DEF QueueSound, InOrder, NotYetRun
  <1>4. /\ N \in Seq(Messages)
        /\ Len(N) = IF Q.take >= Len(Q.items) THEN 0 ELSE Len(Q.items) - Q.take
        /\ DOMAIN N = 1..Len(N)
        /\ \A i \in 1..Len(N) : N[i] = Q.items[i + Q.take] /\ i + Q.take \in 1..Len(Q.items)
    BY <1>2, WithoutFirstIs DEF Left
  <1> HIDE DEF N
  <1>5. Len(N) \in Nat /\ Len(N) <= Cap
    BY <1>2, <1>3, <1>4, FollowupAssumption
  <1>6. IsInjective(N)
    <2>1. ASSUME NEW i \in DOMAIN N, NEW k \in DOMAIN N, N[i] = N[k]
          PROVE  i = k
      <3>1. Q.items[i + Q.take] = Q.items[k + Q.take]
        BY <1>4, <2>1
      <3>2. i + Q.take = k + Q.take
        BY <1>2, <1>3, <1>4, <3>1 DEF IsInjective
      <3>3. QED
        BY <1>2, <1>4, <3>2
    <2>2. QED
      BY <2>1 DEF IsInjective
  <1>7. ASSUME NEW i \in DOMAIN N
        PROVE  /\ ~Contains(Q.batch, N[i])
               /\ N[i] \in Messages /\ fate[N[i]] = "queued"
               /\ \A k \in DOMAIN Q.rest : N[i] = Q.rest[k] => i <= k
    <2>1. N[i] = Q.items[i + Q.take] /\ i + Q.take \in DOMAIN Q.items /\ i \in Nat /\ i >= 1
      BY <1>2, <1>4, <1>5
    <2>2. ASSUME NEW k \in DOMAIN Q.batch, Q.batch[k] = N[i] PROVE FALSE
      <3>1. i + Q.take <= k /\ k <= Q.take
        BY <1>2, <1>3, <2>1, <2>2
      <3>2. QED
        BY <1>2, <2>1, <3>1
    <2>3. ASSUME NEW k \in DOMAIN Q.rest, N[i] = Q.rest[k] PROVE i <= k
      <3>1. i + Q.take <= Q.take + k
        BY <1>3, <2>1, <2>3
      <3>2. QED
        BY <1>2, <2>1, <3>1
    <2>4. ~Contains(Q.batch, N[i])
      BY <2>2 DEF Contains
    <2>5. N[i] \in Messages /\ fate[N[i]] = "queued"
      BY <1>2, <1>3, <2>1
    <2>6. QED
      BY <2>3, <2>4, <2>5
  <1>8. Q.items = <<>> => N = <<>>
    <2>1. Q.items = <<>> => Len(N) = 0
      BY <1>2, <1>4
    <2>2. QED
      BY <1>4, <2>1
  <1>9. \A i \in DOMAIN N : i + Q.take \in DOMAIN Q.items /\ N[i] = Q.items[i + Q.take]
    BY <1>2, <1>4
  <1>10. QED
    BY <1>4, <1>5, <1>6, <1>7, <1>8, <1>9 DEF N

\* What other drains hold did not run.
LEMMA AfterRunIs ==
  ASSUME FollowupInv, NEW q \in Queues
  PROVE  /\ AfterRun(q) \in [Messages -> Fates]
         /\ \A m \in Messages : ~Contains(queues[q].batch, m) => AfterRun(q)[m] = fate[m]
         /\ \A m \in Messages : Contains(queues[q].batch, m) => AfterRun(q)[m] = "ran"
         /\ \A m \in Messages :
              AfterRun(q)[m] \in {"none", "refused"} <=> fate[m] \in {"none", "refused"}
         /\ \A r \in Queues \ {q} : QueueSound(queues[r], AfterRun(q))
  <1> DEFINE Q == queues[q]
             after == AfterRun(q)
  <1>1. /\ Q \in QueueRecords /\ QueueSound(Q, fate) /\ Sound(queues, current, fate)
        /\ fate \in [Messages -> Fates]
    BY Drained DEF FollowupInv, TypeOK
  <1>2. /\ after \in [Messages -> Fates]
        /\ \A m \in Messages : after[m] = IF Contains(Q.batch, m) THEN "ran" ELSE fate[m]
    BY <1>1 DEF AfterRun, Fates
  <1> HIDE DEF after
  <1>3. \A m \in Messages : Contains(Q.batch, m) => fate[m] \in {"queued", "dropped", "cleared"}
    BY <1>1, Fields DEF QueueSound, NotYetRun, Contains
  <1>4. ASSUME NEW r \in Queues \ {q} PROVE QueueSound(queues[r], after)
    <2>1. QueueSound(queues[r], fate)
      BY Drained
    <2>2. \A m \in Messages : Holds(queues[r], m) => after[m] = fate[m]
      BY <1>1, <1>2 DEF Sound, Holds
    <2>3. QED
      BY <2>1, <2>2, FatesKept
  <1>5. \A m \in Messages : after[m] \in {"none", "refused"} <=> fate[m] \in {"none", "refused"}
    BY <1>2, <1>3
  <1>6. QED
    BY <1>2, <1>4, <1>5 DEF after

\* Without overflow the messages that still wait are where they were looked for.
LEMMA FinishedComplete ==
  ASSUME FollowupInv, NEW q \in Queues, ~overflowed, NEW R, R.items = Left(q),
         q = current => Exact(R)
  PROVE  Complete([queues EXCEPT ![q] = R], current, AfterRun(q))
  <1> DEFINE Q == queues[q]
             new == [queues EXCEPT ![q] = R]
  <1>1. /\ Q \in QueueRecords /\ queues \in [Queues -> QueueRecords]
        /\ Complete(queues, current, fate)
    BY Drained DEF FollowupInv
  <1>2. new[q] = R /\ \A r \in Queues \ {q} : new[r] = queues[r]
    BY <1>1
  <1> HIDE DEF new
  <1>3. \A r \in Queues : r = current => Exact(new[r])
    BY <1>1, <1>2 DEF Complete
  <1>4. ASSUME NEW m \in Messages, AfterRun(q)[m] = "queued"
        PROVE  \E r \in Queues : Contains(new[r].items, m)
    <2>1. ~Contains(Q.batch, m) /\ fate[m] = "queued"
      BY <1>4, AfterRunIs
    <2>2. PICK r \in Queues : Contains(queues[r].items, m)
      BY <1>1, <2>1 DEF Complete
    <2>3. CASE r # q
      BY <1>2, <2>2, <2>3
    <2>4. CASE r = q
      <3>1. PICK i \in DOMAIN Q.items : Q.items[i] = m
        BY <2>2, <2>4 DEF Contains
      <3>2. /\ DOMAIN Q.items = 1..Len(Q.items) /\ Len(Q.items) \in Nat /\ Q.take \in Nat
            /\ DOMAIN Q.batch = 1..Len(Q.batch) /\ Q.items \in Seq(Messages)
        BY <1>1, Fields
      <3>3. Q.items # <<>>
        BY <3>1, <3>2
      <3>4. Len(Q.batch) = Q.take /\ \A k \in DOMAIN Q.batch : Q.items[k] = Q.batch[k]
        BY <1>1, <3>3 DEF Complete, Exact, FollowupInv, Sound
      <3>5. i > Q.take
        <4>1. ASSUME i <= Q.take PROVE FALSE
          <5>1. i \in DOMAIN Q.batch /\ Q.batch[i] = m
            BY <3>1, <3>2, <3>4, <4>1
          <5>2. QED
            BY <2>1, <3>2, <5>1 DEF Contains
        <4>2. QED
          BY <3>2, <4>1
      <3>6. /\ Len(Left(q)) = IF Q.take >= Len(Q.items) THEN 0 ELSE Len(Q.items) - Q.take
            /\ DOMAIN Left(q) = 1..Len(Left(q))
            /\ \A k \in 1..Len(Left(q)) : Left(q)[k] = Q.items[k + Q.take]
        BY <3>2, WithoutFirstIs DEF Left
      <3>7. i - Q.take \in DOMAIN Left(q) /\ (i - Q.take) + Q.take = i
        BY <3>2, <3>5, <3>6
      <3>8. Left(q)[i - Q.take] = m
        BY <3>1, <3>6, <3>7
      <3>9. QED
        BY <1>2, <3>6, <3>7, <3>8 DEF Contains
    <2>5. QED
      BY <2>3, <2>4
  <1>5. QED
    BY <1>3, <1>4 DEF Complete, new

\* The next group of the snapshot takes the place of the batch.
LEMMA NextGroupSound ==
  ASSUME FollowupInv, NEW q \in Queues, queues[q].rest # <<>>,
         NEW R \in QueueRecords, R.items = Left(q), R.draining = TRUE, R.at = "start",
         R.batch = FirstGroup(queues[q].rest), R.take = GroupLength(queues[q].rest),
         R.summary = FALSE,
         R.rest = WithoutFirst(queues[q].rest, GroupLength(queues[q].rest))
  PROVE  /\ QueueSound(R, AfterRun(q))
         /\ \A m \in Messages : Holds(R, m) => Holds(queues[q], m)
         /\ R.dropped = 0 /\ Exact(queues[q]) => Exact(R)
  <1> DEFINE Q == queues[q]
             g == GroupLength(Q.rest)
             N == Left(q)
  <1>1. Q \in QueueRecords /\ QueueSound(Q, fate)
    BY Drained
  <1>2. /\ Q.items \in Seq(Messages) /\ Q.batch \in Seq(Messages) /\ Q.rest \in Seq(Messages)
        /\ Q.take \in Nat /\ Len(Q.items) \in Nat /\ Len(Q.rest) \in Nat
        /\ DOMAIN Q.items = 1..Len(Q.items) /\ DOMAIN Q.rest = 1..Len(Q.rest)
        /\ DOMAIN Q.batch = 1..Len(Q.batch)
    BY <1>1, Fields
  <1>3. /\ g \in 1..Len(Q.rest) /\ Len(R.batch) = g /\ DOMAIN R.batch = 1..g
        /\ \A k \in DOMAIN R.batch : R.batch[k] = Q.rest[k]
        /\ SameSender(R.batch)
    <2>1. /\ GroupLength(Q.rest) \in 1..Len(Q.rest)
          /\ FirstGroup(Q.rest) \in Seq(Messages) /\ Len(FirstGroup(Q.rest)) = GroupLength(Q.rest)
          /\ \A i \in 1..GroupLength(Q.rest) : FirstGroup(Q.rest)[i] = Q.rest[i]
          /\ SameSender(FirstGroup(Q.rest))
      BY <1>2, FirstGroupIs
    <2>2. DOMAIN R.batch = 1..Len(R.batch)
      BY Fields
    <2>3. QED
      BY <2>1, <2>2
  <1>4. /\ Len(R.rest) = IF g >= Len(Q.rest) THEN 0 ELSE Len(Q.rest) - g
        /\ DOMAIN R.rest = 1..Len(R.rest)
        /\ \A k \in DOMAIN R.rest : R.rest[k] = Q.rest[k + g] /\ k + g \in DOMAIN Q.rest
    <2>1. g \in Nat
      BY <1>2, <1>3
    <2>2. R.rest = WithoutFirst(Q.rest, g)
      OBVIOUS
    <2> HIDE DEF g
    <2>3. QED
      BY <1>2, <2>1, <2>2, WithoutFirstIs
  <1> HIDE DEF g
  <1>5. /\ IsInjective(Q.rest)
        /\ \A k \in DOMAIN Q.batch, l \in DOMAIN Q.rest : Q.batch[k] # Q.rest[l]
        /\ \A k \in DOMAIN Q.rest : fate[Q.rest[k]] \in {"queued", "dropped", "cleared"}
    BY <1>1 DEF QueueSound, InOrder, NotYetRun
  <1>6. /\ IsInjective(N) /\ Len(N) <= Cap /\ DOMAIN N = 1..Len(N) /\ Len(N) \in Nat
        /\ \A i \in DOMAIN N :
             /\ ~Contains(Q.batch, N[i]) /\ N[i] \in Messages /\ fate[N[i]] = "queued"
             /\ i + Q.take \in DOMAIN Q.items /\ N[i] = Q.items[i + Q.take]
             /\ \A k \in DOMAIN Q.rest : N[i] = Q.rest[k] => i <= k
        /\ Q.items = <<>> => N = <<>>
    BY LeftIs
  <1>7. InOrder(R)
    <2>1. Len(R.batch) <= R.take
      BY <1>2, <1>3 DEF g
    <2>2. ASSUME NEW i \in DOMAIN R.items, NEW k \in DOMAIN R.batch, R.items[i] = R.batch[k]
          PROVE  i <= k
      <3>1. k \in DOMAIN Q.rest /\ R.items[i] = Q.rest[k]
        BY <1>2, <1>3, <2>2
      <3>2. QED
        BY <1>6, <3>1
    <2>3. ASSUME NEW i \in DOMAIN R.items, NEW k \in DOMAIN R.rest, R.items[i] = R.rest[k]
          PROVE  i <= R.take + k
      <3>1. i <= k + g
        BY <1>4, <1>6, <2>3
      <3>2. QED
        BY <1>2, <1>3, <1>4, <1>6, <3>1 DEF g
    <2>4. IsInjective(R.batch)
      <3>1. ASSUME NEW k \in DOMAIN R.batch, NEW l \in DOMAIN R.batch, R.batch[k] = R.batch[l]
            PROVE  k = l
        <4>1. k \in DOMAIN Q.rest /\ l \in DOMAIN Q.rest /\ Q.rest[k] = Q.rest[l]
          BY <1>2, <1>3, <3>1
        <4>2. QED
          BY <1>5, <4>1 DEF IsInjective
      <3>2. QED
        BY <3>1 DEF IsInjective
    <2>5. IsInjective(R.rest)
      <3>1. ASSUME NEW k \in DOMAIN R.rest, NEW l \in DOMAIN R.rest, R.rest[k] = R.rest[l]
            PROVE  k = l
        <4>1. k + g = l + g
          BY <1>4, <1>5, <3>1 DEF IsInjective
        <4>2. QED
          BY <1>2, <1>3, <1>4, <4>1
      <3>2. QED
        BY <3>1 DEF IsInjective
    <2>6. ASSUME NEW k \in DOMAIN R.batch, NEW l \in DOMAIN R.rest, R.batch[k] = R.rest[l]
          PROVE  FALSE
      <3>1. /\ k \in DOMAIN Q.rest /\ l + g \in DOMAIN Q.rest
            /\ Q.rest[k] = Q.rest[l + g]
        BY <1>2, <1>3, <1>4, <2>6
      <3>2. k = l + g
        BY <1>5, <3>1 DEF IsInjective
      <3>3. QED
        BY <1>2, <1>3, <1>4, <3>2
    <2>7. IsInjective(R.items)
      BY <1>6
    <2>8. QED
      BY <2>1, <2>2, <2>3, <2>4, <2>5, <2>6, <2>7 DEF InOrder
  <1>8. \A k \in DOMAIN Q.rest : Q.rest[k] \in Messages /\ ~Contains(Q.batch, Q.rest[k])
    BY <1>2, <1>5 DEF Contains
  <1>9. NotYetRun(R, AfterRun(q))
    <2>1. \A i \in DOMAIN R.items : AfterRun(q)[R.items[i]] = "queued"
      BY <1>6, AfterRunIs
    <2>2. \A k \in DOMAIN Q.rest : AfterRun(q)[Q.rest[k]] \in {"queued", "dropped", "cleared"}
      BY <1>5, <1>8, AfterRunIs
    <2>3. \A k \in DOMAIN R.batch : k \in DOMAIN Q.rest
      BY <1>2, <1>3
    <2>4. QED
      BY <1>3, <1>4, <2>1, <2>2, <2>3 DEF NotYetRun
  <1>10. QueueSound(R, AfterRun(q))
    BY <1>3, <1>6, <1>7, <1>9 DEF QueueSound
  <1>11. \A m \in Messages : Holds(R, m) => Holds(Q, m)
    <2>1. \A m \in Messages : Contains(R.items, m) => Contains(Q.items, m)
      BY <1>2, <1>6 DEF Contains
    <2>2. \A m \in Messages : Contains(R.batch, m) => Contains(Q.rest, m)
      BY <1>2, <1>3 DEF Contains
    <2>3. \A m \in Messages : Contains(R.rest, m) => Contains(Q.rest, m)
      BY <1>2, <1>4 DEF Contains
    <2>4. QED
      BY <2>1, <2>2, <2>3 DEF Holds
  <1>12. ASSUME R.dropped = 0, Exact(Q) PROVE Exact(R)
    <2>1. SUFFICES /\ Len(R.batch) = R.take /\ R.take + Len(R.rest) <= Len(R.items)
                   /\ \A k \in DOMAIN R.batch : R.items[k] = R.batch[k]
                   /\ \A k \in DOMAIN R.rest : R.items[R.take + k] = R.rest[k]
      BY <1>12 DEF Exact
    <2>2. /\ Q.take + Len(Q.rest) <= Len(Q.items)
          /\ \A k \in DOMAIN Q.rest : Q.items[Q.take + k] = Q.rest[k]
      BY <1>12 DEF Exact
    <2>3. Len(N) = Len(Q.items) - Q.take
      <3>1. Len(N) = IF Q.take >= Len(Q.items) THEN 0 ELSE Len(Q.items) - Q.take
        BY <1>2, WithoutFirstIs DEF Left
      <3>2. QED
        BY <1>2, <2>2, <3>1
    <2>4. R.take = g /\ R.take + Len(R.rest) <= Len(R.items)
      <3>1. R.take = g
        BY DEF g
      <3>2. g + Len(R.rest) = Len(Q.rest)
        BY <1>2, <1>3, <1>4
      <3>3. QED
        BY <1>2, <2>2, <2>3, <3>1, <3>2
    <2>5. ASSUME NEW k \in DOMAIN Q.rest
          PROVE  k \in DOMAIN N /\ N[k] = Q.rest[k]
      <3>1. k \in DOMAIN N /\ k + Q.take = Q.take + k
        BY <1>2, <1>6, <2>2, <2>3, <2>5
      <3>2. QED
        BY <1>6, <2>2, <3>1
    <2>6. \A k \in DOMAIN R.batch : R.items[k] = R.batch[k]
      BY <1>2, <1>3, <2>5
    <2>7. \A k \in DOMAIN R.rest : R.items[R.take + k] = R.rest[k]
      <3>1. \A k \in DOMAIN R.rest : R.take + k = k + g
        BY <1>2, <1>3, <1>4, <2>4
      <3>2. QED
        BY <1>4, <2>5, <3>1
    <2>8. QED
      BY <1>3, <2>4, <2>6, <2>7
  <1>13. QED
    BY <1>10, <1>11, <1>12

\* The object after the run, before the drain goes on.
Returned(q) ==
  [queues[q] EXCEPT !.items = WithoutFirst(queues[q].items, queues[q].take),
                    !.dropped = IF queues[q].summary THEN 0 ELSE @]

LEMMA ReturnedIs ==
  ASSUME FollowupInv, NEW q \in Queues
  PROVE  /\ Returned(q) \in QueueRecords
         /\ Returned(q).items = Left(q) /\ Returned(q).rest = queues[q].rest
         /\ Returned(q).draining = queues[q].draining /\ Returned(q).at = queues[q].at
         /\ Returned(q).force = queues[q].force
         /\ Exact(queues[q]) => Returned(q).dropped = 0
         /\ Shortened(q, Returned(q), AfterRun(q))
  <1> DEFINE Q == queues[q]
             R == Returned(q)
  <1>1. /\ Q \in QueueRecords /\ QueueSound(Q, fate) /\ Sound(queues, current, fate)
        /\ Q.summary \in BOOLEAN /\ Q.dropped \in Nat
    BY Drained, Fields DEF FollowupInv
  <1>2. Left(q) \in Seq(Messages)
    BY LeftIs
  <1>3. /\ R \in QueueRecords /\ R.items = Left(q) /\ R.rest = Q.rest
        /\ R.draining = Q.draining /\ R.at = Q.at /\ R.force = Q.force
        /\ R.dropped = IF Q.summary THEN 0 ELSE Q.dropped
    BY <1>1, <1>2 DEF Returned, Left, QueueRecords
  <1> HIDE DEF R
  <1>4. /\ Len(R.items) <= Cap /\ IsInjective(R.items)
        /\ \A i \in DOMAIN R.items :
             /\ R.items[i] \in Messages /\ ~Contains(Q.batch, R.items[i])
             /\ fate[R.items[i]] = "queued"
        /\ \A m \in Messages : Contains(R.items, m) => Contains(Q.items, m)
        /\ Q.items = <<>> => R.items = <<>>
    <2>1. /\ DOMAIN Q.items = 1..Len(Q.items)
          /\ DOMAIN R.items = 1..Len(R.items)
      BY <1>1, <1>3, Fields
    <2>2. \A i \in DOMAIN R.items : \E k \in DOMAIN Q.items : R.items[i] = Q.items[k]
      BY <1>3, LeftIs
    <2>3. \A m \in Messages : Contains(R.items, m) => Contains(Q.items, m)
      BY <2>1, <2>2 DEF Contains
    <2>4. QED
      BY <1>3, <2>3, LeftIs
  <1>5. \A i \in DOMAIN R.items : AfterRun(q)[R.items[i]] = "queued"
    BY <1>4, AfterRunIs
  <1>6. \A r \in Queues \ {q} : QueueSound(queues[r], AfterRun(q))
    BY AfterRunIs
  <1>7. q # current => R.items = <<>>
    BY <1>1, <1>4 DEF Sound
  <1>8. Shortened(q, R, AfterRun(q))
    BY <1>3, <1>4, <1>5, <1>6, <1>7 DEF Shortened, Holds
  <1>9. Exact(Q) => R.dropped = 0
    BY <1>3 DEF Exact
  <1>10. QED
    BY <1>3, <1>8, <1>9 DEF R

\* The step with the object that it leaves, if the drain goes on.
LEMMA GoesOnKeeps ==
  ASSUME FollowupInv, NEW q \in Queues, NEW R, QueueSound(R, AfterRun(q)),
         R.items = Left(q), \A m \in Messages : Holds(R, m) => Holds(queues[q], m),
         ~overflowed /\ q = current => Exact(R), queues[q].draining,
         queues' = [queues EXCEPT ![q] = R], fate' = AfterRun(q),
         active' \in Deliveries \cup Queues \cup {None},
         UNCHANGED <<current, throws, embedded, handler, recent, clears, embeds,
                     overflowed, unattended>>
  PROVE  FollowupInv'
  <1>1. Sound(queues, current, fate) /\ TypeOK
    BY DEF FollowupInv
  <1>2. /\ \A r \in Queues \ {q} : QueueSound(queues[r], AfterRun(q))
        /\ AfterRun(q) \in [Messages -> Fates]
        /\ \A m \in Messages :
             AfterRun(q)[m] \in {"none", "refused"} <=> fate[m] \in {"none", "refused"}
    BY AfterRunIs
  <1>3. /\ current \in Queues \cup {None}
        /\ \A r \in Queues \ {q, current} : queues[r].items = <<>>
        /\ q # current => R.items = <<>>
    BY <1>1, LeftIs DEF Sound
  <1>4. Sound([queues EXCEPT ![q] = R], current, AfterRun(q))
    BY <1>1, <1>2, <1>3, ReplaceKeeps
  <1>5. ~overflowed => Complete([queues EXCEPT ![q] = R], current, AfterRun(q))
    BY FinishedComplete
  <1>6. Leftover(queues', current') \subseteq Leftover(queues, current)
    BY <1>1 DEF Leftover, Sound
  <1>7. throws' \in 0..MaxThrows
    BY <1>1 DEF TypeOK
  <1>8. Sound(queues', current', fate') /\ (~overflowed => Complete(queues', current', fate'))
    BY <1>4, <1>5
  <1>9. QED
    BY <1>2, <1>6, <1>7, <1>8, DrainAssembled

LEMMA FinishRunKeeps ==
  ASSUME FollowupInv, NEW q \in Queues, FinishRun(q)
  PROVE  FollowupInv'
  <1> DEFINE Q == Returned(q)
             g == GroupLength(Q.rest)
             next == [Q EXCEPT !.at = "start", !.batch = FirstGroup(Q.rest),
                               !.summary = FALSE, !.take = g, !.rest = WithoutFirst(Q.rest, g)]
             round == [Q EXCEPT !.at = "debounce", !.batch = <<>>, !.take = 0,
                                !.summary = FALSE]
  <1>1. /\ queues[q].at = "running" /\ fate' = AfterRun(q)
        /\ active' = IF active = q THEN None ELSE active
        /\ UNCHANGED <<throws, embedded, handler, recent, clears, embeds,
                       overflowed, unattended>>
        /\ IF Q.rest # <<>> THEN queues' = [queues EXCEPT ![q] = next] /\ UNCHANGED current
                            ELSE NextRound(q, Q)
    BY DEF FinishRun, ReleasedBy, AfterRun, Returned, drainFrame
  <1>2. /\ Q \in QueueRecords /\ Q.items = Left(q) /\ Q.rest = queues[q].rest
        /\ Q.draining = queues[q].draining /\ Q.at = queues[q].at
        /\ Exact(queues[q]) => Q.dropped = 0
        /\ Shortened(q, Q, AfterRun(q))
    BY ReturnedIs
  <1> HIDE DEF Q
  <1>3. /\ queues[q].draining = TRUE /\ queues[q] \in QueueRecords
        /\ Sound(queues, current, fate) /\ TypeOK
        /\ ~overflowed /\ q = current => Exact(queues[q])
    BY <1>1, Drained DEF FollowupInv, Complete
  <1>4. active' \in Deliveries \cup Queues \cup {None} /\ throws' \in 0..MaxThrows
    BY <1>1, <1>3 DEF TypeOK
  <1>5. CASE Q.rest # <<>>
    <2>1. queues' = [queues EXCEPT ![q] = next] /\ UNCHANGED current
      BY <1>1, <1>5
    <2>2. /\ FirstGroup(Q.rest) \in Seq(Messages) /\ g \in Nat
          /\ WithoutFirst(Q.rest, g) \in Seq(Messages)
      <3>1. Q.rest \in Seq(Messages) /\ Len(Q.rest) \in Nat
        BY <1>2, Fields
      <3>2. FirstGroup(Q.rest) \in Seq(Messages) /\ g \in 1..Len(Q.rest)
        BY <1>5, <3>1, FirstGroupIs
      <3>3. g \in Nat
        BY <3>1, <3>2
      <3>4. QED
        BY <3>1, <3>2, <3>3, WithoutFirstIs
    <2> HIDE DEF g
    <2>3. /\ next \in QueueRecords /\ next.items = Q.items /\ next.draining = Q.draining
          /\ next.at = "start" /\ next.batch = FirstGroup(Q.rest) /\ next.take = g
          /\ next.summary = FALSE /\ next.rest = WithoutFirst(Q.rest, g)
          /\ next.dropped = Q.dropped
      BY <1>2, <2>2 DEF QueueRecords, Places
    <2> HIDE DEF next
    <2>4. /\ QueueSound(next, AfterRun(q))
          /\ \A m \in Messages : Holds(next, m) => Holds(queues[q], m)
          /\ next.dropped = 0 /\ Exact(queues[q]) => Exact(next)
      BY <1>2, <1>3, <1>5, <2>3, NextGroupSound DEF g
    <2>5. QED
      BY <1>1, <1>2, <1>3, <1>4, <2>1, <2>3, <2>4, GoesOnKeeps
  <1>6. CASE Q.rest = <<>> /\ ~Idle(Q)
    <2>1. queues' = [queues EXCEPT ![q] = round] /\ UNCHANGED current
      BY <1>1, <1>6 DEF NextRound
    <2>2. /\ round \in QueueRecords /\ round.items = Q.items /\ round.draining = Q.draining
          /\ round.at = "debounce" /\ round.dropped = Q.dropped
          /\ round.batch = <<>> /\ round.take = 0 /\ round.summary = FALSE /\ round.rest = <<>>
      BY <1>2, <1>6 DEF QueueRecords, Places
    <2> HIDE DEF round
    <2>3. /\ HoldsNothing(round) /\ Len(round.items) <= Cap /\ IsInjective(round.items)
          /\ \A i \in DOMAIN round.items : AfterRun(q)[round.items[i]] = "queued"
          /\ round.draining = (round.at # "idle")
          /\ \A m \in Messages : Contains(round.items, m) => Holds(queues[q], m)
      BY <1>2, <1>3, <2>2 DEF HoldsNothing, Shortened
    <2>4. /\ QueueSound(round, AfterRun(q))
          /\ \A m : Holds(round, m) <=> Contains(round.items, m)
          /\ round.dropped = 0 => Exact(round)
      BY <2>2, <2>3, RestingSound
    <2>5. QED
      BY <1>1, <1>2, <1>3, <1>4, <2>1, <2>2, <2>3, <2>4, GoesOnKeeps
  <1>7. CASE Q.rest = <<>> /\ Idle(Q)
    <2>1. EndDrain(q, Q)
      BY <1>1, <1>7 DEF NextRound
    <2>2. /\ Sound(queues', current', AfterRun(q))
          /\ Complete([queues EXCEPT ![q] = Ended(Q)], current, AfterRun(q)) =>
               Complete(queues', current', AfterRun(q))
          /\ Leftover(queues', current') \subseteq Leftover(queues, current)
      BY <1>2, <1>3, <2>1, EndDrainKeeps
    <2>3. ASSUME ~overflowed
          PROVE  Complete([queues EXCEPT ![q] = Ended(Q)], current, AfterRun(q))
      <3>1. /\ Ended(Q) \in QueueRecords /\ HoldsNothing(Ended(Q))
            /\ Ended(Q).items = Left(q) /\ (q = current => Ended(Q).dropped = 0)
        BY <1>2, <1>3, <2>3, EndedIs
      <3>2. QED
        BY <2>3, <3>1, RestingExact, FinishedComplete
    <2>4. /\ AfterRun(q) \in [Messages -> Fates]
          /\ \A m \in Messages :
               AfterRun(q)[m] \in {"none", "refused"} <=> fate[m] \in {"none", "refused"}
      BY AfterRunIs
    <2>5. QED
      BY <1>1, <1>4, <2>2, <2>3, <2>4, DrainAssembled
  <1>8. QED
    BY <1>5, <1>6, <1>7

(***************************************************************************)
(* The reply agent, other runs, and the clearing of the key                *)
(***************************************************************************)
HandlerStates == {"new", "enqueue", "runNow", "running", "ended", "done"}

\* No queue object and no message is touched.
LEMMA QueuesKept ==
  ASSUME FollowupInv, UNCHANGED <<queues, current, recent, clears, throws, fate, overflowed,
                                  unattended>>,
         active' \in Deliveries \cup Queues \cup {None}, embedded' \in BOOLEAN,
         handler' \in [Deliveries -> HandlerStates], embeds' \in 0..MaxEmbedded
  PROVE  FollowupInv'
  <1>1. TypeOK'
    BY DEF FollowupInv, TypeOK, HandlerStates
  <1>2. /\ Sound(queues, current, fate)' <=> Sound(queues, current, fate)
        /\ Complete(queues, current, fate)' <=> Complete(queues, current, fate)
        /\ Leftover(queues, current)' = Leftover(queues, current)
    BY DEF Sound, Complete, Leftover
  <1>3. QED
    BY <1>1, <1>2 DEF FollowupInv

\* The map's queue is scheduled, and nothing else of the queues changes.
LEMMA ScheduledKept ==
  ASSUME FollowupInv, ScheduleFollowupDrain(queues, current),
         UNCHANGED <<embedded, recent, clears, throws, embeds, fate, overflowed, unattended>>,
         active' \in Deliveries \cup Queues \cup {None},
         handler' \in [Deliveries -> HandlerStates]
  PROVE  FollowupInv'
  <1>1. /\ queues' = QueuesScheduled(queues, current)
        /\ current' = EntryScheduled(queues, current)
        /\ Sound(queues, current, fate) /\ TypeOK
        /\ recent = {m \in Messages : fate[m] \notin {"none", "refused"}}
        /\ ~overflowed => Complete(queues, current, fate)
    BY DEF ScheduleFollowupDrain, FollowupInv
  <1>2. /\ Sound(queues', current', fate)
        /\ ~overflowed => Complete(queues', current', fate)
        /\ Leftover(queues', current') \subseteq Leftover(queues, current)
    BY <1>1, ScheduleKeeps
  <1>3. Cardinality(Leftover(queues', current')) <= clears
    BY <1>2, NoneLeftOver
  <1>4. /\ overflowed' \in BOOLEAN /\ embedded' \in BOOLEAN
        /\ handler' \in [Deliveries -> {"new", "enqueue", "runNow", "running", "ended", "done"}]
        /\ clears' \in 0..MaxClears /\ throws' \in 0..MaxThrows /\ embeds' \in 0..MaxEmbedded
        /\ fate' \in [Messages -> Fates] /\ unattended' \subseteq Messages
    BY <1>1 DEF TypeOK, HandlerStates
  <1>5. QED
    BY <1>1, <1>2, <1>3, <1>4, Assembled

LEMMA HandlerTypes ==
  ASSUME FollowupInv
  PROVE  /\ active \in Deliveries \cup Queues \cup {None} /\ embedded \in BOOLEAN
         /\ handler \in [Deliveries -> HandlerStates] /\ embeds \in 0..MaxEmbedded
         /\ \A d \in Deliveries, h \in HandlerStates :
              [handler EXCEPT ![d] = h] \in [Deliveries -> HandlerStates]
         /\ {"enqueue", "runNow", "running", "ended", "done"} \subseteq HandlerStates
  BY DEF FollowupInv, TypeOK, HandlerStates

LEMMA ReceiveKeeps ==
  ASSUME FollowupInv, NEW d \in Deliveries, Receive(d)
  PROVE  FollowupInv'
  <1>1. \E h \in {"enqueue", "runNow"} : handler' = [handler EXCEPT ![d] = h]
    BY DEF Receive
  <1>2. handler' \in [Deliveries -> HandlerStates]
    BY <1>1, HandlerTypes
  <1>3. UNCHANGED <<queues, current, active, embedded, recent, clears, throws, embeds,
                    fate, overflowed, unattended>>
    BY DEF Receive
  <1>4. QED
    BY <1>2, <1>3, HandlerTypes, QueuesKept

LEMMA RunNowKeeps ==
  ASSUME FollowupInv, NEW d \in Deliveries, RunNow(d)
  PROVE  FollowupInv'
  <1>1. \E h \in {"running", "done"} : handler' = [handler EXCEPT ![d] = h]
    BY DEF RunNow
  <1>2. handler' \in [Deliveries -> HandlerStates]
    BY <1>1, HandlerTypes
  <1>3. UNCHANGED <<queues, current, embedded, recent, clears, throws, embeds,
                    fate, overflowed, unattended>>
    BY DEF RunNow, replyFrame
  <1>4. active' \in Deliveries \cup Queues \cup {None}
    BY HandlerTypes DEF RunNow
  <1>5. QED
    BY <1>2, <1>3, <1>4, HandlerTypes, QueuesKept

LEMMA ReleaseEarlyKeeps ==
  ASSUME FollowupInv, NEW d \in Deliveries, ReleaseEarly(d)
  PROVE  FollowupInv'
  <1>1. handler' = [handler EXCEPT ![d] = "ended"]
    BY DEF ReleaseEarly
  <1>2. handler' \in [Deliveries -> HandlerStates]
    BY <1>1, HandlerTypes
  <1>3. UNCHANGED <<queues, current, embedded, recent, clears, throws, embeds,
                    fate, overflowed, unattended>>
    BY DEF ReleaseEarly, replyFrame
  <1>4. active' \in Deliveries \cup Queues \cup {None}
    BY HandlerTypes DEF ReleaseEarly, ReleasedBy
  <1>5. QED
    BY <1>2, <1>3, <1>4, HandlerTypes, QueuesKept

LEMMA EndReplyKeeps ==
  ASSUME FollowupInv, NEW d \in Deliveries, EndReply(d)
  PROVE  FollowupInv'
  <1>1. handler' = [handler EXCEPT ![d] = "done"] /\ ScheduleFollowupDrain(queues, current)
    BY DEF EndReply
  <1>2. handler' \in [Deliveries -> HandlerStates]
    BY <1>1, HandlerTypes
  <1>3. UNCHANGED <<embedded, recent, clears, throws, embeds, fate, overflowed, unattended>>
    BY DEF EndReply, replyFrame
  <1>4. active' \in Deliveries \cup Queues \cup {None}
    BY HandlerTypes DEF EndReply, ReleasedBy
  <1>5. QED
    BY <1>1, <1>2, <1>3, <1>4, ScheduledKept

LEMMA StartEmbeddedKeeps ==
  ASSUME FollowupInv, StartEmbedded
  PROVE  FollowupInv'
  <1>1. /\ UNCHANGED <<queues, current, recent, clears, throws, fate, overflowed, unattended>>
        /\ UNCHANGED <<active, handler>> /\ embedded' = TRUE
        /\ embeds < MaxEmbedded /\ embeds' = embeds + 1
    BY DEF StartEmbedded, outerFrame
  <1>2. embeds' \in 0..MaxEmbedded
    BY <1>1, HandlerTypes, FollowupAssumption
  <1>3. QED
    BY <1>1, <1>2, HandlerTypes, QueuesKept

LEMMA EndEmbeddedKeeps ==
  ASSUME FollowupInv, EndEmbedded
  PROVE  FollowupInv'
  <1>1. /\ UNCHANGED <<queues, current, recent, clears, throws, fate, overflowed, unattended>>
        /\ UNCHANGED <<active, handler, embeds>> /\ embedded' = FALSE
    BY DEF EndEmbedded, outerFrame
  <1>2. QED
    BY <1>1, HandlerTypes, QueuesKept

\* A clear takes the messages that wait, and leaves at most one more drain.
LEMMA ClearKeeps ==
  ASSUME FollowupInv, ClearSessionQueues
  PROVE  FollowupInv'
  <1> DEFINE q == current
             Q == queues[q]
             R == [Q EXCEPT !.items = <<>>, !.dropped = 0]
             after == [m \in Messages |-> IF Contains(Q.items, m) THEN "cleared" ELSE fate[m]]
  <1>1. /\ clears < MaxClears /\ current # None /\ current' = None /\ clears' = clears + 1
        /\ fate' = after
        /\ UNCHANGED <<embedded, embeds, active, handler, recent, throws, overflowed,
                       unattended>>
    BY DEF ClearSessionQueues, outerFrame
  <1>2. /\ TypeOK /\ Sound(queues, current, fate) /\ q \in Queues
        /\ queues \in [Queues -> QueueRecords] /\ fate \in [Messages -> Fates]
        /\ recent = {m \in Messages : fate[m] \notin {"none", "refused"}}
    BY <1>1 DEF FollowupInv, Sound, TypeOK
  <1>3. Q \in QueueRecords /\ QueueSound(Q, fate)
    BY <1>2, Drained
  <1>4. queues' = [queues EXCEPT ![q] = R]
    BY <1>2 DEF ClearSessionQueues, ClearedItems
  <1>5. /\ R \in QueueRecords /\ R.items = <<>> /\ R.dropped = 0 /\ R.draining = Q.draining
        /\ R.at = Q.at /\ R.batch = Q.batch /\ R.rest = Q.rest /\ R.take = Q.take
        /\ R.summary = Q.summary
    <2>1. <<>> \in Seq(Messages)
      OBVIOUS
    <2>2. QED
      BY <1>3, <2>1 DEF QueueRecords
  <1>6. /\ after \in [Messages -> Fates]
        /\ \A m \in Messages : after[m] = IF Contains(Q.items, m) THEN "cleared" ELSE fate[m]
    BY <1>2 DEF Fates
  <1> HIDE DEF R, after
  <1>7. /\ Q.items \in Seq(Messages) /\ Q.batch \in Seq(Messages) /\ Q.rest \in Seq(Messages)
        /\ DOMAIN Q.items = 1..Len(Q.items) /\ DOMAIN Q.batch = 1..Len(Q.batch)
        /\ DOMAIN Q.rest = 1..Len(Q.rest)
    BY <1>3, Fields
  <1>8. QueueSound(R, after)
    <2>1. DOMAIN <<>> = {} /\ Len(<<>>) = 0 /\ IsInjective(<<>>)
      BY DEF IsInjective
    <2>2. InOrder(R)
      BY <1>3, <1>5, <2>1 DEF QueueSound, InOrder
    <2>3. NotYetRun(R, after)
      <3>1. /\ \A k \in DOMAIN Q.batch : Q.batch[k] \in Messages
            /\ \A k \in DOMAIN Q.rest : Q.rest[k] \in Messages
        BY <1>7
      <3>2. QED
        BY <1>3, <1>5, <1>6, <2>1, <3>1 DEF QueueSound, NotYetRun
    <2>4. Len(R.items) <= Cap
      BY <1>5, <2>1, FollowupAssumption
    <2>5. R.at \in {"idle", "debounce", "collect"} => HoldsNothing(R)
      BY <1>3, <1>5 DEF QueueSound, HoldsNothing
    <2>6. QED
      BY <1>3, <1>5, <2>2, <2>3, <2>4, <2>5 DEF QueueSound
  <1>9. \A r \in Queues \ {q} : QueueSound(queues[r], after)
    <2> TAKE r \in Queues \ {q}
    <2>1. QueueSound(queues[r], fate)
      BY Drained
    <2>2. \A m \in Messages : Holds(queues[r], m) => after[m] = fate[m]
      BY <1>2, <1>6 DEF Sound, Holds
    <2>3. QED
      BY <2>1, <2>2, FatesKept
  <1>10. \A m \in Messages : Holds(R, m) => Holds(Q, m)
    BY <1>5 DEF Holds, Contains
  <1>11. Sound(queues', None, after)
    <2>1. /\ \A r \in Queues \ {q, None} : queues[r].items = <<>>
          /\ None \in Queues \cup {None} /\ q # None
          /\ R.items = <<>>
      BY <1>1, <1>2, <1>5 DEF Sound
    <2>2. QED
      BY <1>2, <1>4, <1>8, <1>9, <1>10, <2>1, ReplaceKeeps
  <1>12. ~overflowed => Complete(queues', None, after)
    <2>1. SUFFICES ASSUME ~overflowed PROVE Complete(queues', None, after)
      OBVIOUS
    <2>2. ASSUME NEW m \in Messages, after[m] = "queued" PROVE FALSE
      <3>1. fate[m] = "queued" /\ ~Contains(Q.items, m)
        BY <1>6, <2>2
      <3>2. PICK r \in Queues : Contains(queues[r].items, m)
        BY <2>1, <3>1 DEF FollowupInv, Complete
      <3>3. queues[r].items = <<>>
        BY <1>2, <3>1, <3>2 DEF Sound
      <3>4. QED
        BY <3>2, <3>3 DEF Contains
    <2>3. \A r \in Queues : r # None
      BY FollowupAssumption DEF None
    <2>4. QED
      BY <2>2, <2>3 DEF Complete
  <1>13. Cardinality(Leftover(queues', None)) <= clears'
    <2> DEFINE L == Leftover(queues, current)
    <2>1. L \subseteq Queues /\ IsFiniteSet(L)
      BY FollowupAssumption, FS_Subset DEF Leftover
    <2>2. Leftover(queues', None) \subseteq L \cup {q}
      BY <1>2, <1>4 DEF Leftover
    <2>3. /\ IsFiniteSet(L \cup {q})
          /\ Cardinality(L \cup {q}) <= Cardinality(L) + 1
          /\ Cardinality(L) \in Nat /\ Cardinality(L \cup {q}) \in Nat
      <3> HIDE DEF L
      <3>1. /\ IsFiniteSet(L \cup {q})
            /\ Cardinality(L \cup {q}) = IF q \in L THEN Cardinality(L) ELSE Cardinality(L) + 1
        BY <2>1, FS_AddElement
      <3>2. Cardinality(L) \in Nat
        BY <2>1, FS_CardinalityType
      <3>3. QED
        BY <3>1, <3>2
    <2>4. /\ IsFiniteSet(Leftover(queues', None)) /\ Cardinality(Leftover(queues', None)) \in Nat
          /\ Cardinality(Leftover(queues', None)) <= Cardinality(L \cup {q})
      BY <2>2, <2>3, FS_Subset, FS_CardinalityType
    <2>5. Cardinality(L) <= clears /\ clears \in Nat
      BY <1>2, FollowupAssumption DEF FollowupInv, TypeOK
    <2> HIDE DEF L
    <2>6. QED
      BY <1>1, <2>3, <2>4, <2>5
  <1>14. recent' = {m \in Messages : after[m] \notin {"none", "refused"}}
    <2>1. \A m \in Messages : Contains(Q.items, m) => fate[m] = "queued"
      BY <1>3, <1>7 DEF QueueSound, NotYetRun, Contains
    <2>2. \A m \in Messages : after[m] \in {"none", "refused"} <=> fate[m] \in {"none", "refused"}
      BY <1>6, <2>1
    <2>3. QED
      BY <1>1, <1>2, <2>2
  <1>15. clears' \in 0..MaxClears
    BY <1>1, <1>2, FollowupAssumption DEF TypeOK
  <1>16. QED
    BY <1>1, <1>2, <1>6, <1>11, <1>12, <1>13, <1>14, <1>15, Assembled DEF TypeOK

(***************************************************************************)
(* The enqueue                                                             *)
(***************************************************************************)
\* There is a queue object for a key that has none: drains that a clear left over
\* do not use up the pool.
LEMMA QueueForIs ==
  ASSUME FollowupInv
  PROVE  /\ QueueFor \in Queues /\ QueueFor # None
         /\ current # None => QueueFor = current
         /\ current = None => queues[QueueFor].items = <<>> /\ ~queues[QueueFor].draining
         /\ \A r \in Queues \ {QueueFor} : queues[r].items = <<>>
  <1>1. /\ Sound(queues, current, fate) /\ current \in Queues \cup {None} /\ None \notin Queues
        /\ \A r \in Queues \ {current} : queues[r].items = <<>>
    BY FollowupAssumption DEF FollowupInv, Sound, None
  <1>2. CASE current # None
    BY <1>1, <1>2 DEF QueueFor
  <1>3. CASE current = None
    <2>1. Unused # {}
      <3>1. SUFFICES ASSUME Unused = {} PROVE FALSE
        OBVIOUS
      <3>2. Queues \subseteq Leftover(queues, current)
        BY <1>1, <1>3, <3>1 DEF Unused, Leftover
      <3>3. Leftover(queues, current) \subseteq Queues
        BY DEF Leftover
      <3>4. Queues = Leftover(queues, current)
        BY <3>2, <3>3
      <3>5. Cardinality(Queues) <= clears /\ clears <= MaxClears /\ clears \in Nat
            /\ MaxClears \in Nat /\ MaxClears < Cardinality(Queues)
        BY <3>4, FollowupAssumption DEF FollowupInv, TypeOK
      <3>6. Cardinality(Queues) \in Nat
        BY FollowupAssumption, FS_CardinalityType
      <3>7. QED
        BY <3>5, <3>6
    <2>2. QueueFor \in Unused
      BY <1>3, <2>1 DEF QueueFor
    <2>3. QED
      BY <1>1, <1>3, <2>2 DEF Unused
  <1>4. QED
    BY <1>2, <1>3

\* It holds what it held, or nothing.
LEMMA QueueWithIs ==
  ASSUME FollowupInv, NEW d \in Deliveries, NEW s \in SettingsOf[d]
  PROVE  LET Q == QueueWith(s)
         IN  /\ Q \in QueueRecords /\ QueueSound(Q, fate)
             /\ Q.items = queues[QueueFor].items
             /\ Q.draining => queues[QueueFor].draining
             /\ \A m \in Messages : Holds(Q, m) => Holds(queues[QueueFor], m)
             /\ ~overflowed => Exact(Q)
  <1> DEFINE Q == QueueWith(s)
             old == queues[QueueFor]
  <1>1. s \in [mode : {"followup", "collect"}, policy : {"summarize", "old", "new"}]
    BY FollowupAssumption
  <1>2. CASE current # None
    <2>1. QueueFor = current /\ QueueFor \in Queues
      BY <1>2, QueueForIs
    <2>2. old \in QueueRecords /\ QueueSound(old, fate)
      BY <2>1, Drained
    <2>3. /\ Q \in QueueRecords
          /\ Q.items = old.items /\ Q.draining = old.draining /\ Q.at = old.at
          /\ Q.batch = old.batch /\ Q.rest = old.rest /\ Q.take = old.take
          /\ Q.summary = old.summary /\ Q.dropped = old.dropped
      BY <1>1, <1>2, <2>1, <2>2 DEF QueueWith, QueueRecords
    <2> HIDE DEF Q
    <2>4. QueueSound(Q, fate)
      BY <2>2, <2>3 DEF QueueSound, HoldsNothing, InOrder, NotYetRun
    <2>5. \A m \in Messages : Holds(Q, m) => Holds(old, m)
      BY <2>3 DEF Holds
    <2>6. ~overflowed => Exact(Q)
      BY <2>1, <2>3 DEF FollowupInv, Complete, Exact
    <2>7. QED
      BY <2>3, <2>4, <2>5, <2>6 DEF Q
  <1>3. CASE current = None
    <2>1. <<>> \in Seq(Messages) /\ DOMAIN <<>> = {} /\ Len(<<>>) = 0 /\ IsInjective(<<>>)
      BY DEF IsInjective
    <2>2. /\ Q \in QueueRecords
          /\ Q.items = <<>> /\ Q.draining = FALSE /\ Q.at = "idle" /\ Q.batch = <<>>
          /\ Q.rest = <<>> /\ Q.take = 0 /\ Q.summary = FALSE /\ Q.dropped = 0
      BY <1>1, <1>3, <2>1 DEF QueueWith, Fresh, QueueRecords, Places
    <2> HIDE DEF Q
    <2>3. /\ HoldsNothing(Q) /\ Len(Q.items) <= Cap /\ IsInjective(Q.items)
          /\ \A i \in DOMAIN Q.items : fate[Q.items[i]] = "queued"
      BY <2>1, <2>2, FollowupAssumption DEF HoldsNothing
    <2>4. /\ QueueSound(Q, fate)
          /\ \A m : Holds(Q, m) <=> Contains(Q.items, m)
          /\ Exact(Q)
      BY <2>2, <2>3, RestingSound
    <2>5. \A m \in Messages : ~Holds(Q, m)
      BY <2>2, <2>4 DEF Contains
    <2>6. old.items = <<>>
      BY <1>3, QueueForIs
    <2>7. QED
      BY <2>2, <2>4, <2>5, <2>6 DEF Q
  <1>4. QED
    BY <1>2, <1>3

\* The object R takes its place in the map, and its drain may be scheduled.
LEMMA EnqueueKeeps ==
  ASSUME FollowupInv, NEW R, NEW after, QueueSound(R, after),
         \A r \in Queues \ {QueueFor} : QueueSound(queues[r], after),
         \A m \in Messages : Holds(R, m) =>
           Holds(queues[QueueFor], m) \/ \A r \in Queues \ {QueueFor} : ~Holds(queues[r], m),
         ~overflowed' => Complete([queues EXCEPT ![QueueFor] = R], QueueFor, after),
         ScheduleUnlessBusy([queues EXCEPT ![QueueFor] = R], QueueFor),
         NEW d \in Deliveries, Enqueued(d),
         fate' = after, after \in [Messages -> Fates], overflowed' \in BOOLEAN,
         unattended' \subseteq Messages,
         recent' = {m \in Messages : after[m] \notin {"none", "refused"}},
         UNCHANGED <<active, embedded, clears, throws, embeds>>
  PROVE  FollowupInv'
  <1> DEFINE qs == [queues EXCEPT ![QueueFor] = R]
  <1>1. /\ Sound(queues, current, fate) /\ TypeOK /\ queues \in [Queues -> QueueRecords]
        /\ QueueFor \in Queues /\ QueueFor \in Queues \cup {None}
        /\ \A r \in Queues \ {QueueFor, QueueFor} : queues[r].items = <<>>
    BY QueueForIs DEF FollowupInv, Sound
  <1>2. Sound(qs, QueueFor, after)
    BY <1>1, ReplaceKeeps
  <1>3. Leftover(qs, QueueFor) \subseteq Leftover(queues, current)
    <2>1. \A r \in Queues \ {QueueFor} : qs[r] = queues[r] /\ r # current
      BY <1>1, QueueForIs, FollowupAssumption DEF None
    <2>2. QED
      BY <2>1 DEF Leftover
  <1> HIDE DEF qs
  <1>4. /\ Sound(queues', current', after)
        /\ Complete(qs, QueueFor, after) => Complete(queues', current', after)
        /\ Leftover(queues', current') \subseteq Leftover(qs, QueueFor)
    <2>1. ScheduleUnlessBusy(qs, QueueFor)
      BY DEF qs
    <2>2. CASE Busy
      BY <1>2, <2>1, <2>2 DEF ScheduleUnlessBusy
    <2>3. CASE ~Busy
      <3>1. queues' = QueuesScheduled(qs, QueueFor) /\ current' = EntryScheduled(qs, QueueFor)
        BY <2>1, <2>3 DEF ScheduleUnlessBusy, ScheduleFollowupDrain
      <3>2. QED
        BY <1>2, <3>1, ScheduleKeeps
    <2>4. QED
      BY <2>2, <2>3
  <1>5. Cardinality(Leftover(queues', current')) <= clears
    BY <1>3, <1>4, NoneLeftOver
  <1>6. handler' \in [Deliveries -> {"new", "enqueue", "runNow", "running", "ended", "done"}]
    BY <1>1 DEF TypeOK, Enqueued
  <1>7. ~overflowed' => Complete(queues', current', fate')
    BY <1>4 DEF qs
  <1>8. QED
    BY <1>1, <1>4, <1>5, <1>6, <1>7, Assembled DEF TypeOK

\* A message that is not recent is with no queue object.
LEMMA NotRecent ==
  ASSUME FollowupInv, NEW m \in Messages, m \notin recent
  PROVE  /\ fate[m] \in {"none", "refused"}
         /\ \A r \in Queues : ~Holds(queues[r], m)
         /\ \A Q \in QueueRecords : QueueSound(Q, fate) => ~Holds(Q, m)
  <1>1. fate[m] \in {"none", "refused"}
    BY DEF FollowupInv
  <1>2. ASSUME NEW Q \in QueueRecords, QueueSound(Q, fate) PROVE ~Holds(Q, m)
    BY <1>1, <1>2, Fields DEF QueueSound, NotYetRun, Holds, Contains
  <1>3. \A r \in Queues : queues[r] \in QueueRecords /\ QueueSound(queues[r], fate)
    BY Drained
  <1>4. QED
    BY <1>1, <1>2, <1>3

\* Without overflow an object with the same messages is complete.
LEMMA SettingsComplete ==
  ASSUME FollowupInv, NEW d \in Deliveries, NEW s \in SettingsOf[d], NEW after,
         \A m \in Messages : after[m] = "queued" => fate[m] = "queued", ~overflowed
  PROVE  Complete([queues EXCEPT ![QueueFor] = QueueWith(s)], QueueFor, after)
  <1> DEFINE Q == QueueWith(s)
             new == [queues EXCEPT ![QueueFor] = Q]
  <1>1. /\ Q.items = queues[QueueFor].items /\ Exact(Q) /\ QueueFor \in Queues
        /\ queues \in [Queues -> QueueRecords] /\ Complete(queues, current, fate)
    BY QueueWithIs, QueueForIs DEF FollowupInv, Sound
  <1>2. new[QueueFor] = Q /\ \A r \in Queues : new[r].items = queues[r].items
    BY <1>1
  <1> HIDE DEF new, Q
  <1>3. QED
    BY <1>1, <1>2 DEF Complete, new, Q

LEMMA EnqueueDuplicateKeeps ==
  ASSUME FollowupInv, NEW d \in Deliveries, NEW s \in SettingsOf[d], EnqueueDuplicate(d, s)
  PROVE  FollowupInv'
  <1>1. /\ ScheduleUnlessBusy([queues EXCEPT ![QueueFor] = QueueWith(s)], QueueFor)
        /\ Enqueued(d)
        /\ UNCHANGED <<recent, fate, overflowed, unattended>>
        /\ UNCHANGED <<active, embedded, clears, throws, embeds>>
    BY DEF EnqueueDuplicate, enqueueFrame
  <1>2. /\ QueueSound(QueueWith(s), fate)
        /\ \A m \in Messages : Holds(QueueWith(s), m) => Holds(queues[QueueFor], m)
        /\ \A r \in Queues : QueueSound(queues[r], fate)
    BY QueueWithIs, Drained
  <1>3. ~overflowed => Complete([queues EXCEPT ![QueueFor] = QueueWith(s)], QueueFor, fate)
    BY SettingsComplete
  <1>4. /\ fate \in [Messages -> Fates] /\ overflowed \in BOOLEAN /\ unattended \subseteq Messages
        /\ recent = {m \in Messages : fate[m] \notin {"none", "refused"}}
    BY DEF FollowupInv, TypeOK
  <1>5. QED
    BY <1>1, <1>2, <1>3, <1>4, EnqueueKeeps

LEMMA EnqueueRefusedKeeps ==
  ASSUME FollowupInv, NEW d \in Deliveries, NEW s \in SettingsOf[d], EnqueueRefused(d, s)
  PROVE  FollowupInv'
  <1> DEFINE m == MessageOf[d]
             after == [fate EXCEPT ![m] = "refused"]
  <1>1. /\ ScheduleUnlessBusy([queues EXCEPT ![QueueFor] = QueueWith(s)], QueueFor)
        /\ Enqueued(d) /\ fate' = after /\ m \notin recent
        /\ UNCHANGED <<recent, overflowed, unattended>>
        /\ UNCHANGED <<active, embedded, clears, throws, embeds>>
    BY DEF EnqueueRefused, enqueueFrame, AlreadyQueued
  <1>2. /\ fate \in [Messages -> Fates] /\ overflowed \in BOOLEAN /\ unattended \subseteq Messages
        /\ recent = {n \in Messages : fate[n] \notin {"none", "refused"}}
        /\ m \in Messages
    BY DEF FollowupInv, TypeOK, Messages
  <1>3. /\ after \in [Messages -> Fates]
        /\ \A n \in Messages : after[n] = IF n = m THEN "refused" ELSE fate[n]
    BY <1>2 DEF Fates
  <1> HIDE DEF m, after
  <1>4. /\ fate[m] \in {"none", "refused"}
        /\ \A r \in Queues : ~Holds(queues[r], m)
        /\ \A Q \in QueueRecords : QueueSound(Q, fate) => ~Holds(Q, m)
    BY <1>1, <1>2, NotRecent
  <1>5. ASSUME NEW Q, QueueSound(Q, fate) PROVE QueueSound(Q, after)
    <2>1. ~Holds(Q, m)
      BY <1>4, <1>5 DEF QueueSound
    <2>2. \A n \in Messages : Holds(Q, n) => after[n] = fate[n]
      BY <1>3, <2>1
    <2>3. QED
      BY <1>5, <2>2, FatesKept
  <1>6. /\ QueueSound(QueueWith(s), fate)
        /\ \A n \in Messages : Holds(QueueWith(s), n) => Holds(queues[QueueFor], n)
        /\ \A r \in Queues : QueueSound(queues[r], fate)
    BY QueueWithIs, Drained
  <1>7. QueueSound(QueueWith(s), after) /\ \A r \in Queues : QueueSound(queues[r], after)
    BY <1>5, <1>6
  <1>8. ~overflowed => Complete([queues EXCEPT ![QueueFor] = QueueWith(s)], QueueFor, after)
    <2>1. \A n \in Messages : after[n] = "queued" => fate[n] = "queued"
      BY <1>3
    <2>2. QED
      BY <2>1, SettingsComplete
  <1>9. recent = {n \in Messages : after[n] \notin {"none", "refused"}}
    BY <1>2, <1>3, <1>4
  <1>10. QED
    BY <1>1, <1>2, <1>3, <1>6, <1>7, <1>8, <1>9, EnqueueKeeps

(***************************************************************************)
(* A message is pushed: at the cap the oldest gives way                    *)
(***************************************************************************)
\* Items without the first n, and with m at the end.
LEMMA PushedItems ==
  ASSUME NEW s \in Seq(Messages), NEW n \in {0, 1}, NEW m \in Messages,
         IsInjective(s), ~Contains(s, m), n <= Len(s), Len(s) - n < Cap
  PROVE  LET t == Append(WithoutFirst(s, n), m)
         IN  /\ t \in Seq(Messages) /\ Len(t) <= Cap /\ IsInjective(t)
             /\ DOMAIN t = 1..Len(t) /\ Len(t) = Len(s) - n + 1
             /\ \A i \in DOMAIN t :
                  \/ i = Len(t) /\ t[i] = m
                  \/ i < Len(t) /\ i + n \in DOMAIN s /\ t[i] = s[i + n]
             /\ t[Len(t)] = m
             /\ n = 0 => \A i \in DOMAIN s : t[i] = s[i]
  <1> DEFINE w == WithoutFirst(s, n)
             t == Append(w, m)
  <1>1. /\ w \in Seq(Messages) /\ Len(w) = Len(s) - n /\ DOMAIN w = 1..Len(w)
        /\ \A i \in 1..Len(w) : w[i] = s[i + n] /\ i + n \in 1..Len(s)
        /\ Len(s) \in Nat /\ DOMAIN s = 1..Len(s) /\ n \in Nat
    <2>1. n \in Nat /\ Len(s) \in Nat /\ DOMAIN s = 1..Len(s)
      OBVIOUS
    <2>2. /\ w \in Seq(Messages) /\ DOMAIN w = 1..Len(w)
          /\ Len(w) = IF n >= Len(s) THEN 0 ELSE Len(s) - n
          /\ \A i \in 1..Len(w) : w[i] = s[i + n] /\ i + n \in 1..Len(s)
      BY <2>1, WithoutFirstIs
    <2> HIDE DEF w
    <2>3. Len(w) = Len(s) - n
      <3>1. CASE n >= Len(s)
        <4>1. Len(w) = 0
          BY <2>2, <3>1
        <4>2. n = Len(s)
          <5> DEFINE l == Len(s)
          <5>1. l \in Nat /\ n \in Nat /\ n <= l /\ n >= l
            BY <2>1, <3>1
          <5> HIDE DEF l
          <5>2. n = l
            BY <5>1
          <5>3. QED
            BY <5>2 DEF l
        <4>3. QED
          BY <2>1, <4>1, <4>2
      <3>2. CASE ~(n >= Len(s))
        BY <2>2, <3>2
      <3>3. QED
        BY <3>1, <3>2
    <2>4. QED
      BY <2>1, <2>2, <2>3
  <1> HIDE DEF w
  <1>2. /\ t \in Seq(Messages) /\ Len(t) = Len(w) + 1 /\ DOMAIN t = 1..Len(t)
        /\ t[Len(t)] = m /\ \A i \in 1..Len(w) : t[i] = w[i]
        /\ Len(w) \in Nat
    BY <1>1
  <1> HIDE DEF t
  <1>3. Len(t) <= Cap /\ Len(t) = Len(s) - n + 1
    BY <1>1, <1>2, FollowupAssumption
  <1>4. ASSUME NEW i \in DOMAIN t
        PROVE  \/ i = Len(t) /\ t[i] = m
               \/ i < Len(t) /\ i + n \in DOMAIN s /\ t[i] = s[i + n]
    <2>1. CASE i = Len(t)
      BY <1>2, <2>1
    <2>2. CASE i # Len(t)
      <3>1. i \in 1..Len(w) /\ i < Len(t)
        BY <1>2, <2>2
      <3>2. QED
        BY <1>1, <1>2, <3>1
    <2>3. QED
      BY <2>1, <2>2
  <1>5. \A i \in DOMAIN s : s[i] # m
    BY <1>1 DEF Contains
  <1>6. IsInjective(t)
    <2>1. ASSUME NEW i \in DOMAIN t, NEW k \in DOMAIN t, t[i] = t[k] PROVE i = k
      <3>1. CASE i = Len(t) \/ k = Len(t)
        BY <1>2, <1>4, <1>5, <2>1, <3>1
      <3>2. CASE i # Len(t) /\ k # Len(t)
        <4>1. /\ i + n \in DOMAIN s /\ k + n \in DOMAIN s
              /\ s[i + n] = s[k + n]
          BY <1>4, <2>1, <3>2
        <4>2. i + n = k + n
          BY <4>1 DEF IsInjective
        <4>3. QED
          BY <1>1, <1>2, <4>2
      <3>3. QED
        BY <3>1, <3>2
    <2>2. QED
      BY <2>1 DEF IsInjective
  <1>7. n = 0 => \A i \in DOMAIN s : t[i] = s[i]
    <2>1. SUFFICES ASSUME n = 0, NEW i \in DOMAIN s PROVE t[i] = s[i]
      OBVIOUS
    <2>2. i \in 1..Len(w) /\ i + n = i
      BY <1>1, <2>1
    <2>3. QED
      BY <1>1, <1>2, <2>2
  <1>8. QED
    BY <1>2, <1>3, <1>4, <1>6, <1>7 DEF t, w

\* What the queue makes of the messages: n of the items are dropped for m.
AfterPush(fates, items, n, m) ==
  [k \in Messages |-> IF k = m THEN "queued"
                      ELSE IF \E i \in 1..n : items[i] = k THEN "dropped" ELSE fates[k]]

\* R is the object Q with m pushed and the first n of the items gone.
Pushed(Q, n, m, R) ==
  /\ n \in {0, 1} /\ n <= Len(Q.items) /\ Len(Q.items) - n < Cap
  /\ R \in QueueRecords /\ R.items = Append(WithoutFirst(Q.items, n), m)
  /\ R.draining = Q.draining /\ R.at = Q.at /\ R.batch = Q.batch /\ R.rest = Q.rest
  /\ R.take = Q.take /\ R.summary = Q.summary

LEMMA PushedSound ==
  ASSUME NEW fates, NEW Q, QueueSound(Q, fates), NEW n,
         NEW m \in Messages, ~Holds(Q, m), NEW R, Pushed(Q, n, m, R)
  PROVE  /\ QueueSound(R, AfterPush(fates, Q.items, n, m))
         /\ \A k \in Messages : Holds(R, k) => k = m \/ Holds(Q, k)
         /\ n = 0 /\ Exact(Q) /\ R.dropped = Q.dropped => Exact(R)
         /\ Contains(R.items, m)
         /\ n = 0 => \A k \in Messages : Contains(Q.items, k) => Contains(R.items, k)
  <1> DEFINE after == AfterPush(fates, Q.items, n, m)
  <1>14. /\ n \in {0, 1} /\ n <= Len(Q.items) /\ Len(Q.items) - n < Cap
         /\ R \in QueueRecords /\ R.items = Append(WithoutFirst(Q.items, n), m)
         /\ R.draining = Q.draining /\ R.at = Q.at /\ R.batch = Q.batch /\ R.rest = Q.rest
         /\ R.take = Q.take /\ R.summary = Q.summary
    BY DEF Pushed
  <1>1. /\ Q \in QueueRecords /\ IsInjective(Q.items)
        /\ \A i \in DOMAIN Q.items : fates[Q.items[i]] = "queued"
    BY SoundParts
  <1>2. /\ Q.items \in Seq(Messages) /\ Q.batch \in Seq(Messages) /\ Q.rest \in Seq(Messages)
        /\ Q.take \in Nat /\ Len(Q.items) \in Nat /\ Len(Q.batch) \in Nat /\ Len(Q.rest) \in Nat
        /\ DOMAIN Q.items = 1..Len(Q.items) /\ DOMAIN Q.batch = 1..Len(Q.batch)
        /\ DOMAIN Q.rest = 1..Len(Q.rest)
    BY <1>1, Fields
  <1>3. ~Contains(Q.items, m) /\ ~Contains(Q.batch, m) /\ ~Contains(Q.rest, m)
    BY DEF Holds
  <1>13. \A k \in Messages : after[k] = IF k = m THEN "queued"
                                        ELSE IF \E i \in 1..n : Q.items[i] = k THEN "dropped"
                                        ELSE fates[k]
    BY DEF AfterPush
  <1> HIDE DEF after
  <1>4. /\ Len(R.items) <= Cap /\ IsInjective(R.items)
        /\ DOMAIN R.items = 1..Len(R.items) /\ Len(R.items) = Len(Q.items) - n + 1
        /\ \A i \in DOMAIN R.items :
             \/ i = Len(R.items) /\ R.items[i] = m
             \/ i < Len(R.items) /\ i + n \in DOMAIN Q.items /\ R.items[i] = Q.items[i + n]
        /\ R.items[Len(R.items)] = m
        /\ n = 0 => \A i \in DOMAIN Q.items : R.items[i] = Q.items[i]
    <2> DEFINE t == Append(WithoutFirst(Q.items, n), m)
    <2>1. n \in {0, 1} /\ n <= Len(Q.items) /\ Len(Q.items) - n < Cap
      BY <1>14
    <2>2. /\ Len(t) <= Cap /\ IsInjective(t)
          /\ DOMAIN t = 1..Len(t) /\ Len(t) = Len(Q.items) - n + 1
          /\ \A i \in DOMAIN t :
               \/ i = Len(t) /\ t[i] = m
               \/ i < Len(t) /\ i + n \in DOMAIN Q.items /\ t[i] = Q.items[i + n]
          /\ t[Len(t)] = m
          /\ n = 0 => \A i \in DOMAIN Q.items : t[i] = Q.items[i]
      BY <1>1, <1>2, <1>3, <2>1, PushedItems
    <2>3. R.items = t
      BY <1>14
    <2> HIDE DEF t
    <2>4. QED
      BY <2>2, <2>3
  <1>5. InOrder(R)
    <2>1. /\ Len(Q.batch) <= Q.take
          /\ \A i \in DOMAIN Q.items :
               /\ \A k \in DOMAIN Q.batch : Q.items[i] = Q.batch[k] => i <= k
               /\ \A k \in DOMAIN Q.rest : Q.items[i] = Q.rest[k] => i <= Q.take + k
          /\ IsInjective(Q.batch) /\ IsInjective(Q.rest)
          /\ \A k \in DOMAIN Q.batch, l \in DOMAIN Q.rest : Q.batch[k] # Q.rest[l]
      BY DEF QueueSound, InOrder
    <2>2. ASSUME NEW i \in DOMAIN R.items, NEW k \in DOMAIN Q.batch, R.items[i] = Q.batch[k]
          PROVE  i <= k
      <3>1. R.items[i] # m
        BY <1>2, <1>3, <2>2 DEF Contains
      <3>2. i + n \in DOMAIN Q.items /\ Q.items[i + n] = Q.batch[k]
        BY <1>4, <1>14, <2>2, <3>1
      <3>3. i + n <= k
        BY <2>1, <3>2
      <3>4. QED
        BY <1>2, <1>4, <1>14, <3>3
    <2>3. ASSUME NEW i \in DOMAIN R.items, NEW k \in DOMAIN Q.rest, R.items[i] = Q.rest[k]
          PROVE  i <= Q.take + k
      <3>1. R.items[i] # m
        BY <1>2, <1>3, <2>3 DEF Contains
      <3>2. i + n \in DOMAIN Q.items /\ Q.items[i + n] = Q.rest[k]
        BY <1>4, <2>3, <3>1
      <3>3. i + n <= Q.take + k
        BY <2>1, <3>2
      <3>4. QED
        BY <1>2, <1>4, <1>14, <3>3
    <2>4. QED
      BY <1>4, <1>14, <2>1, <2>2, <2>3 DEF InOrder
  <1>6. NotYetRun(R, after)
    <2>1. ASSUME NEW i \in DOMAIN R.items PROVE after[R.items[i]] = "queued"
      <3>1. CASE R.items[i] = m
        BY <1>13, <3>1
      <3>2. CASE R.items[i] # m
        <4>1. i + n \in DOMAIN Q.items /\ R.items[i] = Q.items[i + n] /\ i >= 1 /\ i \in Nat
          BY <1>4, <3>2
        <4>2. R.items[i] \in Messages /\ fates[R.items[i]] = "queued"
          BY <1>1, <1>2, <4>1
        <4>3. ASSUME NEW k \in 1..n, Q.items[k] = R.items[i] PROVE FALSE
          <5>1. k \in DOMAIN Q.items
            BY <1>2, <1>14, <4>3
          <5>2. k = i + n
            BY <1>1, <4>1, <4>3, <5>1 DEF IsInjective
          <5>3. QED
            BY <1>14, <4>1, <5>2
        <4>4. QED
          BY <1>13, <3>2, <4>2, <4>3
      <3>3. QED
        BY <3>1, <3>2
    <2>2. /\ \A k \in DOMAIN Q.batch : Q.batch[k] \in Messages /\ Q.batch[k] # m
          /\ \A k \in DOMAIN Q.rest : Q.rest[k] \in Messages /\ Q.rest[k] # m
      BY <1>2, <1>3 DEF Contains
    <2>3. /\ \A k \in DOMAIN Q.batch : fates[Q.batch[k]] \in {"queued", "dropped", "cleared"}
          /\ \A k \in DOMAIN Q.rest : fates[Q.rest[k]] \in {"queued", "dropped", "cleared"}
      BY DEF QueueSound, NotYetRun
    <2>4. QED
      BY <1>13, <1>14, <2>1, <2>2, <2>3 DEF NotYetRun
  <1>7. QueueSound(R, after)
    BY <1>4, <1>5, <1>6, <1>14 DEF QueueSound, HoldsNothing
  <1>8. \A k \in Messages : Holds(R, k) => k = m \/ Holds(Q, k)
    <2>1. ASSUME NEW k \in Messages, Contains(R.items, k), k # m
          PROVE  Contains(Q.items, k)
      <3>1. PICK i \in DOMAIN R.items : R.items[i] = k
        BY <1>4, <2>1 DEF Contains
      <3>2. i + n \in 1..Len(Q.items) /\ Q.items[i + n] = k
        BY <1>2, <1>4, <2>1, <3>1
      <3>3. QED
        BY <3>2 DEF Contains
    <2>2. QED
      BY <1>14, <2>1 DEF Holds
  <1>9. ASSUME n = 0, Exact(Q), R.dropped = Q.dropped PROVE Exact(R)
    <2>1. /\ Q.dropped = 0 /\ ~Q.summary
          /\ Len(Q.batch) = Q.take /\ Q.take + Len(Q.rest) <= Len(Q.items)
          /\ \A k \in DOMAIN Q.batch : Q.items[k] = Q.batch[k]
          /\ \A k \in DOMAIN Q.rest : Q.items[Q.take + k] = Q.rest[k]
      BY <1>9 DEF Exact
    <2>2. Q.take + Len(Q.rest) <= Len(R.items)
      BY <1>2, <1>4, <1>9, <2>1
    <2>3. \A k \in DOMAIN Q.batch : k \in DOMAIN Q.items
      BY <1>2, <2>1
    <2>4. \A k \in DOMAIN Q.rest : Q.take + k \in DOMAIN Q.items
      BY <1>2, <2>1
    <2>5. QED
      BY <1>4, <1>9, <1>14, <2>1, <2>2, <2>3, <2>4 DEF Exact
  <1>10. Contains(R.items, m)
    <2>1. Len(R.items) \in 1..Len(R.items)
      BY <1>2, <1>4, <1>14
    <2>2. QED
      BY <1>4, <2>1 DEF Contains
  <1>11. n = 0 => \A k \in Messages : Contains(Q.items, k) => Contains(R.items, k)
    <2>1. SUFFICES ASSUME n = 0, NEW k \in Messages, Contains(Q.items, k)
                   PROVE  Contains(R.items, k)
      OBVIOUS
    <2>2. PICK i \in DOMAIN Q.items : Q.items[i] = k
      BY <1>2, <2>1 DEF Contains
    <2>3. i \in 1..Len(R.items) /\ R.items[i] = k
      BY <1>2, <1>4, <2>1, <2>2
    <2>4. QED
      BY <2>3 DEF Contains
  <1>12. QED
    BY <1>7, <1>8, <1>9, <1>10, <1>11 DEF after

LEMMA EnqueueFollowupRunKeeps ==
  ASSUME FollowupInv, NEW d \in Deliveries, NEW s \in SettingsOf[d], EnqueueFollowupRun(d, s)
  PROVE  FollowupInv'
  <1> DEFINE m == MessageOf[d]
             Q == QueueWith(s)
             n == IF Full(Q) THEN Len(Q.items) - Cap + 1 ELSE 0
             R == [Q EXCEPT !.items = Append(WithoutFirst(Q.items, n), m),
                            !.dropped = IF s.policy = "summarize" THEN @ + n ELSE @]
             after == AfterPush(fate, Q.items, n, m)
  <1>1. /\ ~AlreadyQueued(m, Q.items)
        /\ ScheduleUnlessBusy([queues EXCEPT ![QueueFor] = R], QueueFor)
        /\ fate' = after /\ overflowed' = (overflowed \/ n > 0)
        /\ unattended' = unattended \/ unattended' = unattended \cup {m}
        /\ recent' = recent \cup {m} /\ Enqueued(d)
        /\ UNCHANGED <<active, embedded, clears, throws, embeds>>
    BY DEF EnqueueFollowupRun, enqueueFrame, AfterPush
  <1>2. /\ Q \in QueueRecords /\ QueueSound(Q, fate)
        /\ Q.items = queues[QueueFor].items
        /\ \A k \in Messages : Holds(Q, k) => Holds(queues[QueueFor], k)
        /\ ~overflowed => Exact(Q)
    BY QueueWithIs
  <1>3. /\ Sound(queues, current, fate) /\ queues \in [Queues -> QueueRecords]
        /\ fate \in [Messages -> Fates] /\ overflowed \in BOOLEAN /\ unattended \subseteq Messages
        /\ recent = {k \in Messages : fate[k] \notin {"none", "refused"}}
        /\ m \in Messages /\ QueueFor \in Queues
        /\ \A r \in Queues : QueueSound(queues[r], fate)
    BY QueueForIs, Drained DEF FollowupInv, TypeOK, Messages
  <1> HIDE DEF m
  <1>4. m \notin recent
    BY <1>1 DEF AlreadyQueued
  <1>5. /\ fate[m] \in {"none", "refused"} /\ \A r \in Queues : ~Holds(queues[r], m)
        /\ ~Holds(Q, m)
    BY <1>2, <1>3, <1>4, NotRecent
  <1> HIDE DEF Q
  <1>6. /\ Q.items \in Seq(Messages) /\ Len(Q.items) \in Nat /\ Len(Q.items) <= Cap
        /\ Q.dropped \in Nat /\ DOMAIN Q.items = 1..Len(Q.items)
    BY <1>2, Fields, SoundParts
  <1>7. n \in {0, 1} /\ n <= Len(Q.items) /\ Len(Q.items) - n < Cap
    <2> DEFINE l == Len(Q.items)
    <2>1. l \in Nat /\ l <= Cap /\ Cap \in Nat /\ Cap >= 1
      BY <1>6, FollowupAssumption
    <2>2. n = IF l >= Cap THEN l - Cap + 1 ELSE 0
      BY DEF Full
    <2> HIDE DEF l, n
    <2>3. CASE l >= Cap
      <3>1. l = Cap
        BY <2>1, <2>3
      <3>2. n = 1
        BY <2>1, <2>2, <2>3, <3>1
      <3>3. QED
        BY <2>1, <3>1, <3>2 DEF l
    <2>4. CASE ~(l >= Cap)
      <3>1. n = 0
        BY <2>2, <2>4
      <3>2. QED
        BY <2>1, <2>4, <3>1 DEF l
    <2>5. QED
      BY <2>3, <2>4
  <1>8. /\ after \in [Messages -> Fates]
        /\ \A k \in Messages : after[k] = IF k = m THEN "queued"
                                          ELSE IF \E i \in 1..n : Q.items[i] = k THEN "dropped"
                                          ELSE fate[k]
        /\ after = AfterPush(fate, Q.items, n, m)
    BY <1>3 DEF Fates, AfterPush
  <1> HIDE DEF n, after
  <1>9. /\ R \in QueueRecords /\ R.items = Append(WithoutFirst(Q.items, n), m)
        /\ R.draining = Q.draining /\ R.at = Q.at /\ R.batch = Q.batch /\ R.rest = Q.rest
        /\ R.take = Q.take /\ R.summary = Q.summary
        /\ n = 0 => R.dropped = Q.dropped
    <2>1. Append(WithoutFirst(Q.items, n), m) \in Seq(Messages)
      <3>1. n \in Nat
        BY <1>7
      <3>2. WithoutFirst(Q.items, n) \in Seq(Messages)
        BY <1>6, <3>1, WithoutFirstIs
      <3>3. QED
        BY <1>3, <3>2
    <2>2. Q.dropped + n \in Nat /\ (n = 0 => Q.dropped + n = Q.dropped)
      BY <1>6, <1>7
    <2>3. QED
      BY <1>2, <2>1, <2>2 DEF QueueRecords
  <1> HIDE DEF R
  <1>10. /\ QueueSound(R, after)
         /\ \A k \in Messages : Holds(R, k) => k = m \/ Holds(Q, k)
         /\ n = 0 /\ Exact(Q) /\ R.dropped = Q.dropped => Exact(R)
         /\ Contains(R.items, m)
         /\ n = 0 => \A k \in Messages : Contains(Q.items, k) => Contains(R.items, k)
    <2>1. QueueSound(Q, fate) /\ m \in Messages /\ ~Holds(Q, m)
      BY <1>2, <1>3, <1>5
    <2>2. Pushed(Q, n, m, R)
      BY <1>7, <1>9 DEF Pushed
    <2>3. after = AfterPush(fate, Q.items, n, m)
      BY <1>8
    <2>4. QED
      BY <2>1, <2>2, <2>3, PushedSound
  <1>11. \A k \in Messages : (\E i \in 1..n : Q.items[i] = k) =>
                               Contains(Q.items, k) /\ fate[k] = "queued"
    <2>1. \A i \in 1..n : i \in DOMAIN Q.items
      BY <1>6, <1>7
    <2>2. \A i \in DOMAIN Q.items : Contains(Q.items, Q.items[i]) /\ fate[Q.items[i]] = "queued"
      BY <1>2, <1>6, SoundParts DEF Contains
    <2>3. QED
      BY <2>1, <2>2
  <1>12. \A r \in Queues \ {QueueFor} : QueueSound(queues[r], after)
    <2> TAKE r \in Queues \ {QueueFor}
    <2>1. \A k \in Messages : Holds(queues[r], k) => k # m /\ ~Contains(Q.items, k)
      BY <1>2, <1>3, <1>5 DEF Sound, Holds
    <2>2. \A k \in Messages : Holds(queues[r], k) => after[k] = fate[k]
      BY <1>8, <1>11, <2>1
    <2>3. QED
      BY <1>3, <2>2, FatesKept
  <1>13. \A k \in Messages : Holds(R, k) =>
           Holds(queues[QueueFor], k) \/ \A r \in Queues \ {QueueFor} : ~Holds(queues[r], k)
    BY <1>2, <1>5, <1>10
  <1>14. ~overflowed' => Complete([queues EXCEPT ![QueueFor] = R], QueueFor, after)
    <2> DEFINE new == [queues EXCEPT ![QueueFor] = R]
    <2>1. SUFFICES ASSUME ~overflowed' PROVE Complete(new, QueueFor, after)
      OBVIOUS
    <2>2. ~overflowed /\ n = 0
      <3>1. ~(overflowed \/ n > 0)
        BY <1>1, <2>1, Zenon
      <3>2. QED
        BY <1>7, <3>1
    <2>3. new[QueueFor] = R /\ \A r \in Queues \ {QueueFor} : new[r] = queues[r]
      BY <1>3
    <2> HIDE DEF new
    <2>4. Exact(R)
      BY <1>2, <1>9, <1>10, <2>2
    <2>5. ASSUME NEW k \in Messages, after[k] = "queued"
          PROVE  \E r \in Queues : Contains(new[r].items, k)
      <3>1. CASE k = m
        BY <1>3, <1>10, <2>3, <3>1
      <3>2. CASE k # m
        <4>1. fate[k] = "queued"
          BY <1>8, <2>5, <3>2
        <4>2. PICK r \in Queues : Contains(queues[r].items, k)
          BY <2>2, <4>1 DEF FollowupInv, Complete
        <4>3. QED
          BY <1>2, <1>3, <1>10, <2>2, <2>3, <4>2
      <3>3. QED
        BY <3>1, <3>2
    <2>6. QED
      BY <2>3, <2>4, <2>5 DEF Complete
  <1>15. /\ overflowed' \in BOOLEAN /\ unattended' \subseteq Messages
         /\ recent' = {k \in Messages : after[k] \notin {"none", "refused"}}
    <2>1. \A k \in Messages : k # m =>
            (after[k] \in {"none", "refused"} <=> fate[k] \in {"none", "refused"})
      BY <1>8, <1>11
    <2>2. overflowed' \in BOOLEAN
      BY <1>1
    <2>3. QED
      BY <1>1, <1>3, <1>8, <2>1, <2>2
  <1>16. QED
    BY <1>1, <1>8, <1>10, <1>12, <1>13, <1>14, <1>15, EnqueueKeeps

(***************************************************************************)
(* The theorems                                                            *)
(***************************************************************************)
LEMMA FollowupInit == Init => FollowupInv
  <1> SUFFICES ASSUME Init PROVE FollowupInv
    OBVIOUS
  <1>1. /\ Fresh(Default) \in QueueRecords
        /\ Fresh(Default).items = <<>> /\ Fresh(Default).draining = FALSE
        /\ Fresh(Default).at = "idle" /\ Fresh(Default).batch = <<>>
        /\ Fresh(Default).rest = <<>> /\ Fresh(Default).take = 0
        /\ Fresh(Default).summary = FALSE
    <2>1. <<>> \in Seq(Messages)
      OBVIOUS
    <2>2. QED
      BY <2>1 DEF Fresh, Default, QueueRecords, Places
  <1>2. /\ queues \in [Queues -> QueueRecords]
        /\ \A q \in Queues : queues[q] = Fresh(Default)
        /\ \A q \in Queues : q # current
    BY <1>1, FollowupAssumption DEF Init, None
  <1>3. DOMAIN <<>> = {} /\ Len(<<>>) = 0 /\ IsInjective(<<>>)
    BY DEF IsInjective
  <1>4. ASSUME NEW q \in Queues
        PROVE  QueueSound(queues[q], fate) /\ \A m \in Messages : ~Holds(queues[q], m)
    <2> DEFINE Q == queues[q]
    <2>1. /\ Q \in QueueRecords /\ Q.items = <<>> /\ Q.draining = (Q.at # "idle")
          /\ HoldsNothing(Q)
      BY <1>1, <1>2 DEF HoldsNothing
    <2> HIDE DEF Q
    <2>2. /\ Len(Q.items) <= Cap /\ IsInjective(Q.items)
          /\ \A i \in DOMAIN Q.items : fate[Q.items[i]] = "queued"
      BY <1>3, <2>1, FollowupAssumption
    <2>3. QueueSound(Q, fate) /\ \A m : Holds(Q, m) <=> Contains(Q.items, m)
      BY <2>1, <2>2, RestingSound
    <2>4. QED
      BY <2>1, <2>3 DEF Q, Contains
  <1>5. Sound(queues, current, fate)
    BY <1>1, <1>2, <1>4 DEF Sound, Init
  <1>6. Complete(queues, current, fate)
    BY <1>2 DEF Complete, Init
  <1>7. Leftover(queues, current) = {} /\ Cardinality({}) = 0
    BY <1>1, <1>2, FS_EmptySet DEF Leftover
  <1>8. TypeOK
    <2>1. /\ 0 \in 0..MaxClears /\ 0 \in 0..MaxThrows /\ 0 \in 0..MaxEmbedded
      BY FollowupAssumption
    <2>2. \A q \in Queues : Len(queues[q].items) <= Cap
                            /\ queues[q].draining = (queues[q].at # "idle")
      BY <1>4 DEF QueueSound
    <2>3. QED
      BY <1>2, <2>1, <2>2 DEF TypeOK, Init, Fates
  <1>9. QED
    BY <1>5, <1>6, <1>7, <1>8 DEF FollowupInv, Init

LEMMA FollowupStutters ==
  ASSUME FollowupInv, UNCHANGED vars
  PROVE  FollowupInv'
  <1>1. UNCHANGED <<queues, current, recent, clears, throws, fate, overflowed, unattended>>
        /\ UNCHANGED <<active, embedded, handler, embeds>>
    BY DEF vars
  <1>2. QED
    BY <1>1, HandlerTypes, QueuesKept

LEMMA FollowupNext ==
  ASSUME FollowupInv, Next
  PROVE  FollowupInv'
  <1>1. ASSUME NEW q \in Queues, Drain(q) PROVE FollowupInv'
    BY <1>1, TakeNextHandsOver, TakeSummaryTurnHandsOver, CollectGroupsHandsOver,
       CollectSummaryHandsOver, HandOverKeeps, CheckCollectKeeps, BreakKeeps, StartRunKeeps, RunRefusedKeeps, FinishRunKeeps,
       RunThrowsKeeps DEF Drain
  <1>2. ASSUME NEW d \in Deliveries, Reply(d) PROVE FollowupInv'
    BY <1>2, EnqueueDuplicateKeeps, EnqueueRefusedKeeps, EnqueueFollowupRunKeeps,
       RunNowKeeps, EndReplyKeeps DEF Reply
  <1>3. QED
    BY <1>1, <1>2, ReceiveKeeps, ReleaseEarlyKeeps, StartEmbeddedKeeps, EndEmbeddedKeeps,
       ClearKeeps DEF Next

\* The queue objects of a key stay sound through drains, runs that return or
\* throw, enqueues, overflow and clears: what a drain holds stands at the front of
\* its queue, and each message is with one object.
THEOREM FollowupInvariant == Spec => []FollowupInv
  <1>1. FollowupInv /\ [Next]_vars => FollowupInv'
    BY FollowupNext, FollowupStutters
  <1>2. QED
    BY FollowupInit, <1>1, PTL DEF Spec

\* As long as the cap was never exceeded, every queued message that has not run is
\* in the queue of the key or in one whose drain goes on.
THEOREM NoFollowupLost == Spec => []NothingLost
  <1>1. FollowupInv => NothingLost
    <2> SUFFICES ASSUME FollowupInv, ~overflowed, NEW m \in Messages, fate[m] = "queued"
                 PROVE  \E q \in Queues : /\ Contains(queues[q].items, m)
                                          /\ q = current \/ queues[q].draining
      BY DEF NothingLost
    <2>1. PICK q \in Queues : Contains(queues[q].items, m)
      BY DEF FollowupInv, Complete
    <2>2. q = current
      <3>1. queues[q].items # <<>>
        BY <2>1 DEF Contains
      <3>2. QED
        BY <3>1 DEF FollowupInv, Sound
    <2>3. QED
      BY <2>1, <2>2
  <1>2. QED
    BY FollowupInvariant, <1>1, PTL

\* No message is given to a second run once a run that carried it has returned.
THEOREM NoFollowupRunsTwice == Spec => []RunsOnce
  <1>1. FollowupInv => RunsOnce
    <2> SUFFICES ASSUME FollowupInv, NEW q \in Queues, NEW m \in Messages,
                        Contains(queues[q].batch, m)
                 PROVE  fate[m] # "ran"
      BY DEF RunsOnce
    <2>1. queues[q] \in QueueRecords /\ QueueSound(queues[q], fate)
      BY Drained
    <2>2. QED
      BY <2>1, Fields DEF QueueSound, NotYetRun, Contains
  <1>2. QED
    BY FollowupInvariant, <1>1, PTL

\* The prompts of one run come from one sender's authorization.
THEOREM RunsHaveOneSender == Spec => []OneSenderPerRun
  <1>1. FollowupInv => OneSenderPerRun
    BY Drained DEF OneSenderPerRun, QueueSound, SameSender
  <1>2. QED
    BY FollowupInvariant, <1>1, PTL

(***************************************************************************)
(* What a drain takes                                                      *)
(***************************************************************************)
Takes(q) == queues[q].at \in {"debounce", "collect"} /\ queues'[q].at = "start"

\* A schedule takes nothing.
LEMMA ScheduleTakesNothing ==
  ASSUME NEW qs \in [Queues -> QueueRecords], NEW cur \in Queues \cup {None}, NEW q \in Queues
  PROVE  QueuesScheduled(qs, cur)[q].at = "start" => qs[q].at = "start"
  <1>1. CASE Schedulable(qs, cur) /\ ~Idle(qs[cur]) /\ q = cur
    <2>1. QueuesScheduled(qs, cur)[q] = Begun(qs[q])
      BY <1>1 DEF QueuesScheduled, Begun
    <2>2. QED
      BY <2>1, BegunIs
  <1>2. CASE ~(Schedulable(qs, cur) /\ ~Idle(qs[cur]) /\ q = cur)
    <2>1. QueuesScheduled(qs, cur)[q] = qs[q]
      BY <1>2 DEF QueuesScheduled, Schedulable
    <2>2. QED
      BY <2>1
  <1>3. QED
    BY <1>1, <1>2

\* Nor does a drain that ends.
LEMMA EndTakesNothing ==
  ASSUME FollowupInv, NEW r \in Queues, NEW Q \in QueueRecords, EndDrain(r, Q), NEW q \in Queues
  PROVE  ~Takes(q)
  <1> DEFINE qs == [queues EXCEPT ![r] = Ended(Q)]
  <1>1. /\ queues \in [Queues -> QueueRecords] /\ current \in Queues \cup {None}
        /\ Ended(Q) \in QueueRecords /\ Ended(Q).at = "idle"
    BY EndedIs DEF FollowupInv, Sound
  <1>2. qs \in [Queues -> QueueRecords] /\ (qs[q].at = "start" => queues[q].at = "start")
    BY <1>1
  <1>3. queues' = qs \/ queues' = QueuesScheduled(qs, current)
    BY DEF EndDrain, Ended, ScheduleFollowupDrain
  <1> HIDE DEF qs
  <1>4. queues'[q].at = "start" => qs[q].at = "start"
    BY <1>1, <1>2, <1>3, ScheduleTakesNothing
  <1>5. QED
    BY <1>2, <1>4 DEF Takes

\* Nor does a step after which the objects are in their places.
LEMMA StaysTakesNothing ==
  ASSUME NEW q \in Queues, queues'[q].at = "start" => queues[q].at = "start"
  PROVE  ~Takes(q)
  BY DEF Takes

\* A drain that takes messages takes ones that wait.
LEMMA HandOverTakesWaiting ==
  ASSUME FollowupInv, NEW r \in Queues, HandOverStep(r), NEW q \in Queues, Takes(q),
         NEW m \in Messages, Contains(queues'[q].batch, m)
  PROVE  fate[m] = "queued"
  <1>1. PICK R : HandsOver(r, R) /\ queues' = [queues EXCEPT ![r] = R]
    BY DEF HandOverStep
  <1>2. /\ queues \in [Queues -> QueueRecords] /\ queues[q] \in QueueRecords
        /\ QueueSound(queues[q], fate)
    BY Drained
  <1>3. q = r /\ queues'[q] = R
    BY <1>1, <1>2 DEF Takes
  <1>4. /\ R \in QueueRecords /\ R.take <= Len(queues[q].items) /\ Len(R.batch) <= R.take
        /\ \A k \in DOMAIN R.batch : R.batch[k] = queues[q].items[k]
    BY <1>1, <1>3 DEF HandsOver
  <1>5. /\ DOMAIN R.batch = 1..Len(R.batch) /\ Len(R.batch) \in Nat /\ R.take \in Nat
        /\ DOMAIN queues[q].items = 1..Len(queues[q].items) /\ Len(queues[q].items) \in Nat
    BY <1>2, <1>4, Fields
  <1>6. PICK k \in DOMAIN R.batch : R.batch[k] = m
    BY <1>3, <1>5 DEF Contains
  <1>7. k \in DOMAIN queues[q].items /\ queues[q].items[k] = m
    BY <1>4, <1>5, <1>6
  <1>8. QED
    BY <1>2, <1>7 DEF QueueSound, NotYetRun

LEMMA FinishTakesNothing ==
  ASSUME FollowupInv, NEW r \in Queues, FinishRun(r), NEW q \in Queues
  PROVE  ~Takes(q)
  <1> DEFINE Q == Returned(r)
  <1>1. queues[r].at = "running" /\ queues \in [Queues -> QueueRecords] /\ Q \in QueueRecords
    BY ReturnedIs DEF FinishRun, FollowupInv, Sound
  <1>2. \/ EndDrain(r, Q)
        \/ \E R : queues' = [queues EXCEPT ![r] = R]
    BY DEF FinishRun, Returned, NextRound
  <1>3. CASE EndDrain(r, Q)
    BY <1>1, <1>3, EndTakesNothing
  <1>4. CASE \E R : queues' = [queues EXCEPT ![r] = R]
    <2>1. q # r => queues'[q] = queues[q]
      BY <1>1, <1>4
    <2>2. QED
      BY <1>1, <2>1 DEF Takes
  <1>5. QED
    BY <1>2, <1>3, <1>4

LEMMA DrainTakesWaiting ==
  ASSUME FollowupInv, NEW r \in Queues, Drain(r), NEW q \in Queues, Takes(q),
         NEW m \in Messages, Contains(queues'[q].batch, m)
  PROVE  fate[m] = "queued"
  <1>1. CASE TakeNext(r) \/ TakeSummaryTurn(r) \/ CollectGroups(r) \/ CollectSummary(r)
    <2>1. HandOverStep(r)
      BY <1>1, TakeNextHandsOver, TakeSummaryTurnHandsOver, CollectGroupsHandsOver,
         CollectSummaryHandsOver
    <2>2. QED
      BY <2>1, HandOverTakesWaiting
  <1>2. CASE CheckCollect(r) \/ StartRun(r)
    <2>1. queues \in [Queues -> QueueRecords]
      BY Drained
    <2>2. queues'[q].at = "start" => queues[q].at = "start"
      BY <1>2, <2>1 DEF CheckCollect, StartRun, QueueRecords
    <2>3. QED
      BY <2>2, StaysTakesNothing
  <1>3. CASE Break(r) \/ RunRefused(r) \/ RunThrows(r)
    <2>1. EndDrain(r, queues[r]) /\ queues[r] \in QueueRecords
      BY <1>3, Drained DEF Break, RunRefused, RunThrows
    <2>2. QED
      BY <2>1, EndTakesNothing
  <1>4. CASE FinishRun(r)
    BY <1>4, FinishTakesNothing
  <1>5. QED
    BY <1>1, <1>2, <1>3, <1>4 DEF Drain

LEMMA EnqueueTakesNothing ==
  ASSUME FollowupInv, NEW d \in Deliveries, NEW s \in SettingsOf[d], NEW q \in Queues,
         NEW R \in QueueRecords, R.at = QueueWith(s).at,
         ScheduleUnlessBusy([queues EXCEPT ![QueueFor] = R], QueueFor)
  PROVE  ~Takes(q)
  <1> DEFINE qs == [queues EXCEPT ![QueueFor] = R]
  <1>1. /\ queues \in [Queues -> QueueRecords] /\ QueueFor \in Queues
        /\ QueueFor \in Queues \cup {None}
    BY Drained, QueueForIs
  <1>2. R.at = "start" => queues[QueueFor].at = "start"
    <2>1. CASE current = None
      <3>1. R.at = "idle"
        BY <2>1 DEF QueueWith, Fresh
      <3>2. QED
        BY <3>1
    <2>2. CASE current # None
      <3>1. QueueFor = current /\ queues[current] \in QueueRecords
        BY <1>1, <2>2, QueueForIs
      <3>2. R.at = queues[current].at
        BY <2>2, <3>1 DEF QueueWith, QueueRecords
      <3>3. QED
        BY <3>1, <3>2
    <2>3. QED
      BY <2>1, <2>2
  <1>3. qs \in [Queues -> QueueRecords] /\ (qs[q].at = "start" => queues[q].at = "start")
    BY <1>1, <1>2
  <1>4. queues' = qs \/ queues' = QueuesScheduled(qs, QueueFor)
    BY DEF ScheduleUnlessBusy, ScheduleFollowupDrain
  <1> HIDE DEF qs
  <1>5. queues'[q].at = "start" => queues[q].at = "start"
    BY <1>1, <1>3, <1>4, ScheduleTakesNothing
  <1>6. QED
    BY <1>5, StaysTakesNothing

LEMMA ReplyTakesNothing ==
  ASSUME FollowupInv, NEW d \in Deliveries, Reply(d), NEW q \in Queues
  PROVE  ~Takes(q)
  <1>1. /\ queues \in [Queues -> QueueRecords] /\ current \in Queues \cup {None}
    BY DEF FollowupInv, Sound
  <1>2. ASSUME NEW s \in SettingsOf[d], EnqueueDuplicate(d, s) \/ EnqueueRefused(d, s)
        PROVE  ~Takes(q)
    <2>1. QueueWith(s) \in QueueRecords
      BY QueueWithIs
    <2>2. ScheduleUnlessBusy([queues EXCEPT ![QueueFor] = QueueWith(s)], QueueFor)
      BY <1>2 DEF EnqueueDuplicate, EnqueueRefused
    <2>3. QED
      BY <2>1, <2>2, EnqueueTakesNothing
  <1>3. ASSUME NEW s \in SettingsOf[d], EnqueueFollowupRun(d, s)
        PROVE  ~Takes(q)
    <2> DEFINE Q == QueueWith(s)
               n == IF Full(Q) THEN Len(Q.items) - Cap + 1 ELSE 0
               R == [Q EXCEPT !.items = Append(WithoutFirst(Q.items, n), MessageOf[d]),
                              !.dropped = IF s.policy = "summarize" THEN @ + n ELSE @]
    <2>1. ScheduleUnlessBusy([queues EXCEPT ![QueueFor] = R], QueueFor)
      BY <1>3 DEF EnqueueFollowupRun
    <2>2. /\ Q \in QueueRecords /\ Len(Q.items) \in Nat /\ Q.items \in Seq(Messages)
          /\ Q.dropped \in Nat /\ MessageOf[d] \in Messages
      BY QueueWithIs, Fields DEF Messages
    <2> HIDE DEF Q
    <2>3. n \in Nat
      BY <2>2, FollowupAssumption DEF Full
    <2> HIDE DEF n
    <2>4. Append(WithoutFirst(Q.items, n), MessageOf[d]) \in Seq(Messages)
      <3>1. WithoutFirst(Q.items, n) \in Seq(Messages)
        BY <2>2, <2>3, WithoutFirstIs
      <3>2. QED
        BY <2>2, <3>1
    <2>5. Q.dropped + n \in Nat
      BY <2>2, <2>3
    <2>6. R \in QueueRecords /\ R.at = Q.at
      BY <2>2, <2>4, <2>5 DEF QueueRecords
    <2> HIDE DEF R
    <2>7. QED
      BY <2>1, <2>6, EnqueueTakesNothing DEF Q
  <1>4. ASSUME RunNow(d) \/ EndReply(d)
        PROVE  ~Takes(q)
    <2>1. queues' = queues \/ queues' = QueuesScheduled(queues, current)
      BY <1>4 DEF RunNow, EndReply, ScheduleFollowupDrain
    <2>2. queues'[q].at = "start" => queues[q].at = "start"
      BY <1>1, <2>1, ScheduleTakesNothing
    <2>3. QED
      BY <2>2, StaysTakesNothing
  <1>5. QED
    BY <1>2, <1>3, <1>4 DEF Reply

LEMMA OthersTakeNothing ==
  ASSUME FollowupInv, NEW q \in Queues,
         \/ \E d \in Deliveries : Receive(d) \/ ReleaseEarly(d)
         \/ StartEmbedded \/ EndEmbedded \/ ClearSessionQueues \/ UNCHANGED vars
  PROVE  ~Takes(q)
  <1>1. queues \in [Queues -> QueueRecords]
    BY Drained
  <1>2. CASE ClearSessionQueues
    <2>1. current \in Queues /\ queues[current] \in QueueRecords
      BY <1>1, <1>2 DEF ClearSessionQueues, FollowupInv, Sound
    <2>2. queues'[q].at = queues[q].at
      BY <1>1, <1>2, <2>1 DEF ClearSessionQueues, QueueRecords
    <2>3. QED
      BY <2>2, StaysTakesNothing
  <1>3. CASE ~ClearSessionQueues
    <2>1. queues' = queues
      BY <1>3 DEF Receive, ReleaseEarly, StartEmbedded, EndEmbedded, vars
    <2>2. QED
      BY <2>1, StaysTakesNothing
  <1>4. QED
    BY <1>2, <1>3

\* A drain takes from the queue only messages that wait.
THEOREM OnlyWaitingTaken == Spec => TakesOnlyWaiting
  <1> DEFINE Right == \A q \in Queues :
                        queues[q].at \in {"debounce", "collect"} /\ queues'[q].at = "start" =>
                          \A m \in Messages : Contains(queues'[q].batch, m) => fate[m] = "queued"
  <1>1. FollowupInv /\ [Next]_vars => Right
    <2> SUFFICES ASSUME FollowupInv, [Next]_vars, NEW q \in Queues, Takes(q),
                        NEW m \in Messages, Contains(queues'[q].batch, m)
                 PROVE  fate[m] = "queued"
      BY DEF Takes
    <2>1. CASE \E r \in Queues : Drain(r)
      BY <2>1, DrainTakesWaiting
    <2>2. CASE \E d \in Deliveries : Reply(d)
      BY <2>2, ReplyTakesNothing
    <2>3. CASE ~(\E r \in Queues : Drain(r)) /\ ~(\E d \in Deliveries : Reply(d))
      <3>1. \/ \E d \in Deliveries : Receive(d) \/ ReleaseEarly(d)
            \/ StartEmbedded \/ EndEmbedded \/ ClearSessionQueues \/ UNCHANGED vars
        BY <2>3 DEF Next
      <3>2. QED
        BY <3>1, OthersTakeNothing
    <2>4. QED
      BY <2>1, <2>2, <2>3
  <1>2. Spec => [][Right]_vars
    BY FollowupInvariant, <1>1, PTL DEF Spec
  <1>3. QED
    BY <1>2 DEF TakesOnlyWaiting

=============================================================================

------------------------------ MODULE CronProofs ------------------------------
(***************************************************************************)
(* Proofs about CronService for any jobs, callers, clock and limits: runs   *)
(* of a job do not overlap, no marker is left behind, and the scheduler    *)
(* keeps its timer.  The inductive invariant is CronInv.                   *)
(***************************************************************************)
EXTENDS CronService, TLAPS

(***************************************************************************)
(* Records                                                                 *)
(***************************************************************************)
LEMMA LargerNat ==
  ASSUME NEW a \in Nat, NEW b \in Nat
  PROVE  Larger(a, b) \in Nat
  BY DEF Larger

LEMMA SlotNat ==
  ASSUME NEW t \in Nat
  PROVE  EverySlot(t) \in Nat
  <1>1. Period \in Nat \ {0}
    BY CronAssumption
  <1>2. t + Period - 1 \in Int
    BY <1>1
  <1>3. (t + Period - 1) \div Period \in Int
    BY <1>1, <1>2
  <1>4. Larger(1, (t + Period - 1) \div Period) \in Nat
    BY <1>3 DEF Larger
  <1>5. \A a, b \in Nat : a * b \in Nat
    OBVIOUS
  <1>6. QED
    BY <1>1, <1>4, <1>5 DEF EverySlot

LEMMA NextNat ==
  ASSUME NEW j \in Jobs, NEW r \in JobRecords, NEW t \in Nat
  PROVE  ComputeNext(j, r, t) \in Nat
  <1>1. Period \in Nat /\ r.at \in Nat /\ r.last \in Nat
    BY CronAssumption DEF JobRecords
  <1>2. r.last + Period \in Nat /\ EverySlot(t) \in Nat
    BY <1>1, SlotNat
  <1>3. QED
    BY <1>1, <1>2 DEF ComputeNext

\* What the bookkeeping of a section may make of a record: it keeps it, and
\* clears its marker only if the job is disabled or has been marked too long.
Clears(r) == ~r.enabled \/ Stuck(r, now)

Carried(r, s) ==
  IF r = Absent THEN s = Absent
  ELSE /\ s \in JobRecords
       /\ s.enabled = r.enabled
       /\ \/ s.running = r.running
          \/ s.running = 0 /\ Clears(r)

Carries(old, new) ==
  /\ new \in JobStore
  /\ \A j \in Jobs : Carried(old[j], new[j])

LEMMA RecomputedKeeps ==
  ASSUME NEW j \in Jobs, NEW r \in JobRecords, NEW t \in Nat
  PROVE  /\ Recomputed(j, r, t) \in JobRecords
         /\ Recomputed(j, r, t).enabled = r.enabled
         /\ Recomputed(j, r, t).running = r.running
  <1>1. ComputeNext(j, r, t) \in Nat
    BY NextNat
  <1>2. r.last + Backoff \in Nat
    BY CronAssumption DEF JobRecords
  <1>3. Larger(ComputeNext(j, r, t), r.last + Backoff) \in Nat
    BY <1>1, <1>2, LargerNat
  <1>4. \A n \in Nat : /\ [r EXCEPT !.next = n] \in JobRecords
                       /\ [r EXCEPT !.next = n].enabled = r.enabled
                       /\ [r EXCEPT !.next = n].running = r.running
    BY DEF JobRecords
  <1>5. QED
    BY <1>1, <1>3, <1>4 DEF Recomputed

LEMMA NormalizedKeeps ==
  ASSUME now \in Nat, NEW r \in {Absent} \cup JobRecords
  PROVE  Carried(r, Normalized(r))
  <1>1. CASE r = Absent
    BY <1>1 DEF Carried, Normalized
  <1>2. CASE r # Absent
    <2>1. r \in JobRecords /\ r.enabled \in BOOLEAN
      BY <1>2 DEF JobRecords
    <2>2. \A s \in JobRecords :
            /\ [s EXCEPT !.running = 0] \in JobRecords
            /\ [s EXCEPT !.running = 0].enabled = s.enabled
            /\ [s EXCEPT !.running = 0].running = 0
            /\ [s EXCEPT !.next = 0] \in JobRecords
            /\ [s EXCEPT !.next = 0].enabled = s.enabled
      BY DEF JobRecords
    <2>3. CASE ~r.enabled
      <3>1. Normalized(r) = [[r EXCEPT !.next = 0] EXCEPT !.running = 0]
        BY <1>2, <2>1, <2>3 DEF Normalized
      <3>2. QED
        BY <1>2, <2>1, <2>2, <2>3, <3>1 DEF Carried, Clears
    <2>4. CASE r.enabled
      <3>1. Normalized(r) = IF Stuck(r, now) THEN [r EXCEPT !.running = 0] ELSE r
        BY <1>2, <2>1, <2>4 DEF Normalized
      <3>2. QED
        BY <1>2, <2>1, <2>2, <3>1 DEF Carried, Clears
    <2>5. QED
      BY <2>1, <2>3, <2>4
  <1>3. QED
    BY <1>1, <1>2

\* A recomputed record of a job that stands as it did.
LEMMA RecomputedCarries ==
  ASSUME NEW j \in Jobs, NEW r \in {Absent} \cup JobRecords, r # Absent,
         NEW s, Carried(r, s), NEW t \in Nat
  PROVE  Carried(r, Recomputed(j, s, t))
  <1>1. s \in JobRecords
    BY DEF Carried
  <1>2. /\ Recomputed(j, s, t) \in JobRecords
        /\ Recomputed(j, s, t).enabled = s.enabled
        /\ Recomputed(j, s, t).running = s.running
    BY <1>1, RecomputedKeeps
  <1>3. QED
    BY <1>2 DEF Carried

LEMMA RecomputeCarries ==
  ASSUME now \in Nat, NEW jobs \in JobStore
  PROVE  Carries(jobs, RecomputeNextRuns(jobs))
  <1>1. ASSUME NEW j \in Jobs
        PROVE  /\ Carried(jobs[j], RecomputeNextRuns(jobs)[j])
               /\ RecomputeNextRuns(jobs)[j] \in {Absent} \cup JobRecords
    <2>1. jobs[j] \in {Absent} \cup JobRecords
      BY DEF JobStore
    <2>2. Carried(jobs[j], Normalized(jobs[j]))
      BY <2>1, NormalizedKeeps
    <2>3. Walked(jobs[j]) => Carried(jobs[j], Recomputed(j, Normalized(jobs[j]), now))
      BY <2>1, <2>2, RecomputedCarries DEF Walked
    <2>4. Carried(jobs[j], RecomputeNextRuns(jobs)[j])
      BY <2>2, <2>3 DEF RecomputeNextRuns
    <2>5. QED
      BY <2>4 DEF Carried
  <1>2. RecomputeNextRuns(jobs) = [j \in Jobs |-> RecomputeNextRuns(jobs)[j]]
    BY DEF RecomputeNextRuns
  <1>3. QED
    BY <1>1, <1>2 DEF Carries, JobStore

LEMMA MaintainCarries ==
  ASSUME now \in Nat, NEW jobs \in JobStore, NEW expired \in BOOLEAN
  PROVE  Carries(jobs, Maintain(jobs, expired))
  <1>1. ASSUME NEW j \in Jobs
        PROVE  /\ Carried(jobs[j], Maintain(jobs, expired)[j])
               /\ Maintain(jobs, expired)[j] \in {Absent} \cup JobRecords
    <2>1. jobs[j] \in {Absent} \cup JobRecords
      BY DEF JobStore
    <2>2. Carried(jobs[j], Normalized(jobs[j]))
      BY <2>1, NormalizedKeeps
    <2>3. Walked(jobs[j]) => Carried(jobs[j], Recomputed(j, Normalized(jobs[j]), now))
      BY <2>1, <2>2, RecomputedCarries DEF Walked
    <2>4. \/ Maintain(jobs, expired)[j] = Normalized(jobs[j])
          \/ /\ Walked(jobs[j])
             /\ Maintain(jobs, expired)[j] = Recomputed(j, Normalized(jobs[j]), now)
      BY DEF Maintain
    <2>5. Carried(jobs[j], Maintain(jobs, expired)[j])
      BY <2>2, <2>3, <2>4
    <2>6. QED
      BY <2>5 DEF Carried
  <1>2. Maintain(jobs, expired) = [j \in Jobs |-> Maintain(jobs, expired)[j]]
    BY DEF Maintain
  <1>3. QED
    BY <1>1, <1>2 DEF Carries, JobStore

\* The result of a run clears the marker of its job.
LEMMA AppliedUnmarks ==
  ASSUME NEW j \in Jobs, NEW r \in JobRecords, NEW x \in Result, NEW keep \in BOOLEAN
  PROVE  /\ Applied(j, r, x, keep) \in {Absent} \cup JobRecords
         /\ Unmarked(Applied(j, r, x, keep))
  <1> DEFINE failed == x.outcome \in {"transient", "permanent"}
             errors == IF ~failed \/ j \notin OneShots THEN 0
                       ELSE IF r.errors > MaxAttempts THEN r.errors ELSE r.errors + 1
             ran == [r EXCEPT !.running = 0, !.last = x.started, !.errors = errors,
                              !.status = IF failed THEN "error" ELSE x.outcome]
             natural == ComputeNext(j, IF keep THEN r ELSE ran, x.ended)
  <1>1. /\ x.started \in Nat /\ x.ended \in Nat
        /\ x.outcome \in {"ok", "skipped", "transient", "permanent"}
    BY CronAssumption DEF Result
  <1>2. errors \in 0..(MaxAttempts + 1)
    BY CronAssumption DEF JobRecords
  <1>3. ran \in JobRecords /\ ran.running = 0
    <2> HIDE DEF errors
    <2>1. (IF failed THEN "error" ELSE x.outcome) \in {"none", "ok", "skipped", "error"}
      BY <1>1
    <2>2. QED
      BY <1>1, <1>2, <2>1 DEF JobRecords
  <1>4. natural \in Nat
    <2> HIDE DEF ran
    <2>1. (IF keep THEN r ELSE ran) \in JobRecords
      BY <1>3
    <2>2. QED
      BY <1>1, <2>1, NextNat
  <1>5. x.ended + Backoff \in Nat
    BY <1>1, CronAssumption
  <1>6. Larger(natural, x.ended + Backoff) \in Nat
    <2> HIDE DEF natural
    <2>1. QED
      BY <1>4, <1>5, LargerNat
  <1>7. \A n \in Nat : /\ [ran EXCEPT !.next = n] \in JobRecords
                       /\ [ran EXCEPT !.next = n].running = 0
                       /\ [ran EXCEPT !.enabled = FALSE, !.next = 0] \in JobRecords
                       /\ [ran EXCEPT !.enabled = FALSE, !.next = 0].running = 0
    <2> HIDE DEF ran
    <2>1. QED
      BY <1>3 DEF JobRecords
  <1>8. Applied(j, r, x, keep) \in
          {Absent, [ran EXCEPT !.next = x.ended + Backoff],
           [ran EXCEPT !.enabled = FALSE, !.next = 0],
           [ran EXCEPT !.next = Larger(natural, x.ended + Backoff)],
           [ran EXCEPT !.next = natural]}
    BY DEF Applied
  <1> HIDE DEF failed, errors, ran, natural
  <1>9. QED
    BY <1>4, <1>5, <1>6, <1>7, <1>8 DEF Unmarked

LEMMA InterruptedUnmarks ==
  ASSUME NEW j \in Jobs, NEW r \in JobRecords
  PROVE  Interrupted(j, r) \in JobRecords /\ Unmarked(Interrupted(j, r))
  <1> DEFINE errors == IF j \notin OneShots \/ r.errors > MaxAttempts THEN r.errors
                       ELSE r.errors + 1
             stopped(b) == [r EXCEPT !.running = 0, !.last = r.running, !.status = "error",
                                     !.next = 0, !.enabled = b, !.errors = errors]
  <1>1. errors \in 0..(MaxAttempts + 1) /\ r.running \in Nat
    BY CronAssumption DEF JobRecords
  <1>2. Interrupted(j, r) = stopped(r.enabled /\ j \notin OneShots)
    BY DEF Interrupted
  <1>3. Interrupted(j, r) \in {stopped(TRUE), stopped(FALSE)}
    <2>1. CASE r.enabled /\ j \notin OneShots
      BY <1>2, <2>1
    <2>2. CASE ~(r.enabled /\ j \notin OneShots)
      BY <1>2, <2>2
    <2>3. QED
      BY <2>1, <2>2
  <1> HIDE DEF errors
  <1>4. \A b \in BOOLEAN : stopped(b) \in JobRecords /\ stopped(b).running = 0
    BY <1>1 DEF JobRecords
  <1> HIDE DEF stopped
  <1>5. QED
    BY <1>3, <1>4 DEF Unmarked

\* A forced reload keeps what is on disk, but for a next run.
LEMMA ReloadedKeeps ==
  ASSUME file \in JobStore, mem \in JobStore
  PROVE  /\ Reloaded \in JobStore
         /\ \A j \in Jobs : /\ Reloaded[j] = Absent <=> file[j] = Absent
                            /\ file[j] # Absent => Reloaded[j].running = file[j].running
  <1>1. ASSUME NEW j \in Jobs
        PROVE  /\ Reloaded[j] \in {Absent} \cup JobRecords
               /\ Reloaded[j] = Absent <=> file[j] = Absent
               /\ file[j] # Absent => Reloaded[j].running = file[j].running
    <2>1. file[j] \in {Absent} \cup JobRecords
      BY DEF JobStore
    <2>2. CASE file[j] = Absent
      BY <2>2 DEF Reloaded
    <2>3. CASE file[j] # Absent
      <3>1. file[j] \in JobRecords
        BY <2>1, <2>3
      <3>2. /\ [file[j] EXCEPT !.next = 0] \in JobRecords
            /\ [file[j] EXCEPT !.next = 0].running = file[j].running
        BY <3>1 DEF JobRecords
      <3>3. Reloaded[j] \in {file[j], [file[j] EXCEPT !.next = 0]}
        BY DEF Reloaded
      <3>4. QED
        BY <2>3, <3>1, <3>2, <3>3, RecordAssumption
    <2>4. QED
      BY <2>2, <2>3
  <1>2. Reloaded = [j \in Jobs |-> Reloaded[j]]
    BY DEF Reloaded
  <1>3. QED
    BY <1>1, <1>2 DEF JobStore

LEMMA MarkKeeps ==
  ASSUME NEW jobs \in JobStore, NEW S \in SUBSET Jobs, now \in Nat \ {0},
         \A j \in S : jobs[j] # Absent
  PROVE  /\ Mark(jobs, S) \in JobStore
         /\ \A j \in S : Mark(jobs, S)[j] \in JobRecords /\ Marked(Mark(jobs, S)[j])
                         /\ Mark(jobs, S)[j].enabled = jobs[j].enabled
         /\ \A j \in Jobs \ S : Mark(jobs, S)[j] = jobs[j]
  <1>1. ASSUME NEW j \in S
        PROVE  /\ Mark(jobs, S)[j] \in JobRecords /\ Marked(Mark(jobs, S)[j])
               /\ Mark(jobs, S)[j].enabled = jobs[j].enabled
    <2>1. jobs[j] \in JobRecords
      BY DEF JobStore
    <2>2. Mark(jobs, S)[j] = [jobs[j] EXCEPT !.running = now]
      BY DEF Mark
    <2>3. QED
      BY <2>1, <2>2 DEF JobRecords, Marked
  <1>2. \A j \in Jobs \ S : Mark(jobs, S)[j] = jobs[j]
    BY DEF Mark
  <1>3. Mark(jobs, S) = [j \in Jobs |-> Mark(jobs, S)[j]]
    BY DEF Mark
  <1>4. QED
    BY <1>1, <1>2, <1>3 DEF JobStore

LEMMA NewJobTyped ==
  ASSUME now \in Nat, NEW j \in Jobs, NEW at \in Times(j)
  PROVE  NewJob(j, at) \in JobRecords /\ Unmarked(NewJob(j, at))
  <1> DEFINE r == [enabled |-> TRUE, at |-> at, next |-> 0, running |-> 0, last |-> 0,
                   status |-> "none", errors |-> 0]
  <1>1. at \in Nat
    BY DEF Times
  <1>2. 0 \in 0..(MaxAttempts + 1)
    BY CronAssumption
  <1>3. r \in JobRecords /\ r.running = 0
    BY <1>1, <1>2 DEF JobRecords
  <1>4. NewJob(j, at) = [r EXCEPT !.next = ComputeNext(j, r, now)]
    BY DEF NewJob
  <1> HIDE DEF r
  <1>5. ComputeNext(j, r, now) \in Nat
    BY <1>3, NextNat
  <1>6. QED
    BY <1>3, <1>4, <1>5 DEF JobRecords, Unmarked

\* A patch keeps the marker, or clears it.
LEMMA PatchedKeeps ==
  ASSUME now \in Nat, NEW j \in Jobs, NEW r \in JobRecords, NEW patch \in Patches,
         NEW at \in Times(j)
  PROVE  /\ Patched(j, r, patch, at) \in JobRecords
         /\ Patched(j, r, patch, at).running \in {r.running, 0}
  <1> DEFINE s == CASE patch = "enable" -> [r EXCEPT !.enabled = TRUE]
                    [] patch = "disable" -> [r EXCEPT !.enabled = FALSE]
                    [] patch = "schedule" -> [r EXCEPT !.at = at]
                    [] patch = "other" -> r
  <1>1. at \in Nat
    BY DEF Times
  <1>2. s \in JobRecords /\ s.running = r.running
    <2>1. /\ [r EXCEPT !.enabled = TRUE] \in JobRecords
          /\ [r EXCEPT !.enabled = TRUE].running = r.running
          /\ [r EXCEPT !.enabled = FALSE] \in JobRecords
          /\ [r EXCEPT !.enabled = FALSE].running = r.running
          /\ [r EXCEPT !.at = at] \in JobRecords
          /\ [r EXCEPT !.at = at].running = r.running
      BY <1>1 DEF JobRecords
    <2>2. CASE patch = "enable"
      BY <2>1, <2>2
    <2>3. CASE patch = "disable"
      BY <2>1, <2>3
    <2>4. CASE patch = "schedule"
      BY <2>1, <2>4
    <2>5. CASE patch = "other"
      BY <2>5
    <2>6. QED
      BY <2>2, <2>3, <2>4, <2>5 DEF Patches
  <1>3. ComputeNext(j, s, now) \in Nat
    <2> HIDE DEF s
    <2>1. QED
      BY <1>2, NextNat
  <1>4. Patched(j, r, patch, at) \in
          {s, [s EXCEPT !.next = ComputeNext(j, s, now)], [s EXCEPT !.next = 0, !.running = 0]}
    BY DEF Patched
  <1> HIDE DEF s
  <1>5. \A n \in Nat : /\ [s EXCEPT !.next = n] \in JobRecords
                       /\ [s EXCEPT !.next = n].running = r.running
                       /\ [s EXCEPT !.next = 0, !.running = 0] \in JobRecords
                       /\ [s EXCEPT !.next = 0, !.running = 0].running = 0
    BY <1>2 DEF JobRecords
  <1>6. QED
    BY <1>2, <1>3, <1>4, <1>5

(***************************************************************************)
(* What a section writes                                                   *)
(***************************************************************************)
FaultsGrow ==
  /\ faults' \in [{"service", "user"} -> Nat]
  /\ NothingFailed' => NothingFailed
  /\ faults'["user"] = 0 => faults["user"] = 0

Written(jobs) ==
  /\ mem' = jobs /\ loaded' = TRUE
  /\ file' = jobs /\ UNCHANGED faults

NotWritten(jobs) ==
  /\ mem' = jobs /\ loaded' = TRUE
  /\ UNCHANGED file /\ FaultsGrow /\ ~NothingFailed'

LEMMA SaveSucceeds ==
  ASSUME NEW who, NEW jobs, SaveFor(who, jobs, TRUE)
  PROVE  Written(jobs)
  BY DEF SaveFor, Written

LEMMA SaveFails ==
  ASSUME TypeOK, NEW who \in {"service", "user"}, NEW jobs, SaveFor(who, jobs, FALSE)
  PROVE  NotWritten(jobs) /\ (who = "user" => faults'["user"] # 0)
  <1>1. /\ mem' = jobs /\ loaded' = TRUE /\ UNCHANGED file
        /\ faults' = [faults EXCEPT ![who] = @ + 1]
    BY DEF SaveFor
  <1>2. faults \in [{"service", "user"} -> Nat]
    BY DEF TypeOK
  <1>3. faults["service"] \in Nat /\ faults["user"] \in Nat
    BY <1>2
  <1>4. CASE who = "service"
    <2>1. faults'["service"] = faults["service"] + 1 /\ faults'["user"] = faults["user"]
      BY <1>1, <1>2, <1>4
    <2>2. faults' \in [{"service", "user"} -> Nat]
      BY <1>1, <1>2, <1>3
    <2>3. QED
      BY <1>1, <1>3, <1>4, <2>1, <2>2 DEF NotWritten, FaultsGrow, NothingFailed
  <1>5. CASE who = "user"
    <2>1. faults'["user"] = faults["user"] + 1 /\ faults'["service"] = faults["service"]
      BY <1>1, <1>2, <1>5
    <2>2. faults' \in [{"service", "user"} -> Nat]
      BY <1>1, <1>2, <1>3
    <2>3. QED
      BY <1>1, <1>3, <1>5, <2>1, <2>2 DEF NotWritten, FaultsGrow, NothingFailed
  <1>6. QED
    BY <1>4, <1>5

LEMMA UserSaves ==
  ASSUME TypeOK, NEW jobs, NEW ok \in BOOLEAN, SaveFor("user", jobs, ok)
  PROVE  IF ok THEN Written(jobs) ELSE NotWritten(jobs) /\ faults'["user"] # 0
  <1>1. CASE ok = TRUE
    BY <1>1, SaveSucceeds
  <1>2. CASE ok = FALSE
    BY <1>2, SaveFails
  <1>3. QED
    BY <1>1, <1>2

LEMMA ServiceSaves ==
  ASSUME TypeOK, NEW jobs, NEW ok \in BOOLEAN, Save(jobs, ok)
  PROVE  IF ok THEN Written(jobs) ELSE NotWritten(jobs)
  <1>1. SaveFor("service", jobs, ok)
    BY DEF Save
  <1>2. CASE ok = TRUE
    BY <1>1, <1>2, SaveSucceeds
  <1>3. CASE ok = FALSE
    BY <1>1, <1>3, SaveFails
  <1>4. QED
    BY <1>2, <1>3

\* A section that found nothing to change writes nothing.
NothingToWrite(jobs) ==
  /\ mem' = jobs /\ loaded' = TRUE /\ UNCHANGED <<file, faults>>

LEMMA ChangesSaved ==
  ASSUME TypeOK, NEW jobs, NEW from, NEW ok \in BOOLEAN, SaveChanged(jobs, from, ok)
  PROVE  IF ok THEN Written(jobs) \/ (jobs = from /\ NothingToWrite(jobs))
               ELSE NotWritten(jobs)
  <1>1. CASE jobs = from
    BY <1>1 DEF SaveChanged, NothingToWrite
  <1>2. CASE jobs # from
    <2>1. Save(jobs, ok)
      BY <1>2 DEF SaveChanged
    <2>2. QED
      BY <2>1, ServiceSaves
  <1>3. QED
    BY <1>1, <1>2

LEMMA FaultsKept ==
  ASSUME TypeOK, UNCHANGED faults
  PROVE  FaultsGrow
  BY DEF TypeOK, FaultsGrow, NothingFailed

LEMMA ReleaseGrows ==
  ASSUME TypeOK, NEW jobs, Release(jobs)
  PROVE  /\ released \subseteq released' /\ released' \subseteq Jobs
         /\ done' \subseteq OneShots
  <1>1. Busy \cap {j \in Jobs : jobs[j] # Absent /\ jobs[j].running # 0
                                /\ (~jobs[j].enabled \/ Stuck(jobs[j], now))} \subseteq Jobs
    OBVIOUS
  <1>2. QED
    BY <1>1 DEF Release, TypeOK

\* Bookkeeping clears the marker of a job only as it releases the job.
LEMMA CarriedMark ==
  ASSUME NEW old \in JobStore, Release(old), NEW j \in Jobs, NEW s, Carried(old[j], s)
  PROVE  /\ j \in Busy \ released' /\ Marked(old[j]) => Marked(s)
         /\ Unmarked(old[j]) => Unmarked(s)
         /\ s = Absent <=> old[j] = Absent
         /\ s # Absent => s.enabled = old[j].enabled
  <1>1. CASE old[j] = Absent
    BY <1>1 DEF Carried, Marked, Unmarked
  <1>2. CASE old[j] # Absent
    <2>1. /\ s \in JobRecords /\ s.enabled = old[j].enabled
          /\ s.running = old[j].running \/ (s.running = 0 /\ Clears(old[j]))
      BY <1>2 DEF Carried
    <2>2. s # Absent
      BY <2>1, RecordAssumption
    <2>3. ASSUME j \in Busy \ released', Marked(old[j])
          PROVE  Marked(s)
      <3>1. old[j].running # 0
        BY <1>2, <2>3 DEF Marked
      <3>2. ~Clears(old[j])
        BY <1>2, <2>3, <3>1 DEF Release, Clears
      <3>3. QED
        BY <2>1, <3>1, <3>2 DEF Marked
    <2>4. Unmarked(old[j]) => Unmarked(s)
      BY <1>2, <2>1 DEF Unmarked
    <2>5. QED
      BY <1>2, <2>1, <2>2, <2>3, <2>4
  <1>3. QED
    BY <1>1, <1>2

LEMMA CarriedMarks ==
  ASSUME NEW old \in JobStore, NEW new, Carries(old, new), Release(old), NEW j \in Jobs
  PROVE  /\ j \in Busy \ released' /\ Marked(old[j]) => Marked(new[j])
         /\ Unmarked(old[j]) => Unmarked(new[j])
         /\ new[j] = Absent <=> old[j] = Absent
         /\ new[j] # Absent => new[j].enabled = old[j].enabled
  BY CarriedMark DEF Carries

(***************************************************************************)
(* What a section starts from                                              *)
(***************************************************************************)
\* Jobs in which the busy ones are marked and, once start() has begun and
\* while no write has failed, no others.
Grounded(jobs) ==
  /\ jobs \in JobStore
  /\ \A j \in Busy \ released : Marked(jobs[j])
  /\ \A j \in Jobs \ added : jobs[j] = Absent
  /\ NothingFailed /\ boot # "off" =>
       /\ \A j \in Jobs \ Busy : Unmarked(jobs[j])
       /\ \A j \in Jobs : jobs[j] = Absent => file[j] = Absent

LEMMA BusyJobs ==
  ASSUME TypeOK
  PROVE  Busy \subseteq Jobs
  BY DEF TypeOK, Busy, Run, Result

LEMMA NowNat ==
  ASSUME CronInv
  PROVE  now \in Nat \ {0}
  BY CronAssumption DEF CronInv, TypeOK

LEMMA GroundedMem ==
  ASSUME CronInv
  PROVE  Grounded(mem)
  BY DEF CronInv, TypeOK, MarkedWhileBusy, Known, NoneLeftBehind, Grounded

LEMMA GroundedFile ==
  ASSUME CronInv
  PROVE  Grounded(file)
  BY DEF CronInv, TypeOK, MarkedWhileBusy, Known, NoneLeftBehind, Grounded

LEMMA GroundedStored ==
  ASSUME CronInv
  PROVE  Grounded(Stored)
  BY GroundedMem, GroundedFile DEF Stored

LEMMA GroundedReloaded ==
  ASSUME CronInv
  PROVE  Grounded(Reloaded)
  <1>1. Grounded(file)
    BY GroundedFile
  <1>2. /\ Reloaded \in JobStore
        /\ \A j \in Jobs : /\ Reloaded[j] = Absent <=> file[j] = Absent
                           /\ file[j] # Absent => Reloaded[j].running = file[j].running
    BY ReloadedKeeps DEF CronInv, TypeOK
  <1>3. Busy \subseteq Jobs
    BY BusyJobs DEF CronInv
  <1>4. \A j \in Jobs : /\ Marked(Reloaded[j]) <=> Marked(file[j])
                        /\ Unmarked(Reloaded[j]) <=> Unmarked(file[j])
    BY <1>2 DEF Marked, Unmarked
  <1>5. QED
    BY <1>1, <1>2, <1>3, <1>4 DEF Grounded

(***************************************************************************)
(* How a section keeps the invariant                                       *)
(***************************************************************************)
StoreInv == Known /\ MarkedWhileBusy /\ NoneLeftBehind

\* The conditions of NoneLeftBehind, after the step.
Orderly == NothingFailed' /\ boot' # "off"

\* The jobs a section leaves in memory, written or not.
LEMMA StoresHold ==
  ASSUME CronInv, NEW new \in JobStore, added \subseteq added',
         \A j \in Busy' \ released' : Marked(new[j]),
         \A j \in Jobs \ added' : new[j] = Absent /\ j \notin Busy',
         Orderly => \A j \in Jobs \ Busy' : Unmarked(new[j]),
         \/ Written(new)
         \/ NotWritten(new) /\ Busy' \ released' \subseteq Busy \ released
         \/ /\ NothingToWrite(new)
            /\ Busy' = Busy /\ released \subseteq released'
            /\ boot' # "off" => boot # "off"
            /\ Orderly => \A j \in Jobs : new[j] = Absent => file[j] = Absent
  PROVE  StoreInv' /\ mem' \in JobStore /\ file' \in JobStore
  <1>1. /\ Known /\ MarkedWhileBusy /\ NoneLeftBehind
        /\ file \in JobStore
    BY DEF CronInv, TypeOK
  <1>2. mem' = new /\ loaded' = TRUE
    BY DEF Written, NotWritten, NothingToWrite
  <1>3. CASE Written(new)
    <2>1. file' = new
      BY <1>3 DEF Written
    <2>2. QED
      BY <1>2, <2>1 DEF StoreInv, Known, MarkedWhileBusy, NoneLeftBehind, Orderly
  <1>4. CASE NotWritten(new) /\ Busy' \ released' \subseteq Busy \ released
    <2>1. file' = file /\ ~NothingFailed'
      BY <1>4 DEF NotWritten
    <2>2. Known'
      BY <1>1, <1>2, <2>1 DEF Known
    <2>3. MarkedWhileBusy'
      BY <1>1, <1>2, <1>4, <2>1 DEF MarkedWhileBusy
    <2>4. NoneLeftBehind'
      BY <2>1 DEF NoneLeftBehind
    <2>5. QED
      BY <1>1, <1>2, <2>1, <2>2, <2>3, <2>4 DEF StoreInv
  <1>5. CASE /\ NothingToWrite(new)
             /\ Busy' = Busy /\ released \subseteq released'
             /\ boot' # "off" => boot # "off"
             /\ Orderly => \A j \in Jobs : new[j] = Absent => file[j] = Absent
    <2>1. file' = file /\ NothingFailed' = NothingFailed
      BY <1>5 DEF NothingToWrite, NothingFailed
    <2>2. Known'
      BY <1>1, <1>2, <2>1 DEF Known
    <2>3. MarkedWhileBusy'
      BY <1>1, <1>2, <1>5, <2>1 DEF MarkedWhileBusy
    <2>4. NoneLeftBehind'
      BY <1>1, <1>2, <1>5, <2>1 DEF NoneLeftBehind, Orderly
    <2>5. QED
      BY <1>1, <1>2, <2>1, <2>2, <2>3, <2>4 DEF StoreInv
  <1>6. QED
    BY <1>3, <1>4, <1>5

\* Nothing starts, ends or is claimed.
QuietPlaces == UNCHANGED <<todo, missed, exec, results>>

LEMMA QuietKeeps ==
  ASSUME CronInv, QuietPlaces, released \subseteq released'
  PROVE  OnePlace' /\ Busy' = Busy
  BY DEF CronInv, QuietPlaces, OnePlace, Busy

\* A section that does its bookkeeping and nothing else.
LEMMA CarryHolds ==
  ASSUME CronInv, NEW old, Grounded(old), NEW new, Carries(old, new), Release(old),
         QuietPlaces, UNCHANGED added, boot' # "off" => boot # "off",
         Written(new) \/ NotWritten(new) \/ NothingToWrite(new)
  PROVE  /\ StoreInv' /\ OnePlace' /\ mem' \in JobStore /\ file' \in JobStore
         /\ released' \subseteq Jobs /\ done' \subseteq OneShots
         /\ FaultsGrow /\ loaded' = TRUE
  <1>1. new \in JobStore /\ old \in JobStore
    BY DEF Carries, Grounded
  <1>2. TypeOK /\ Known
    BY DEF CronInv
  <1>3. released \subseteq released' /\ released' \subseteq Jobs /\ done' \subseteq OneShots
    BY <1>2, ReleaseGrows
  <1>4. OnePlace' /\ Busy' = Busy
    BY <1>3, QuietKeeps
  <1>5. FaultsGrow
    <2>1. CASE NotWritten(new)
      BY <2>1 DEF NotWritten
    <2>2. CASE UNCHANGED faults
      BY <1>2, <2>2, FaultsKept
    <2>3. QED
      BY <2>1, <2>2 DEF Written, NothingToWrite
  <1>6. Orderly => NothingFailed /\ boot # "off"
    BY <1>5 DEF Orderly, FaultsGrow
  <1>7. Busy \subseteq Jobs
    BY <1>2, BusyJobs
  <1>8. \A j \in Busy' \ released' : Marked(new[j])
    BY <1>1, <1>3, <1>4, <1>7, CarriedMarks DEF Grounded
  <1>9. \A j \in Jobs \ added' : new[j] = Absent /\ j \notin Busy'
    BY <1>1, <1>2, <1>4, CarriedMarks DEF Grounded, Known
  <1>10. Orderly => \A j \in Jobs \ Busy' : Unmarked(new[j])
    BY <1>1, <1>4, <1>6, CarriedMarks DEF Grounded
  <1>11. Orderly => \A j \in Jobs : new[j] = Absent => file[j] = Absent
    BY <1>1, <1>6, CarriedMarks DEF Grounded
  <1>12. StoreInv' /\ mem' \in JobStore /\ file' \in JobStore
    BY <1>1, <1>3, <1>4, <1>8, <1>9, <1>10, <1>11, StoresHold
  <1>13. loaded' = TRUE
    BY DEF Written, NotWritten, NothingToWrite
  <1>14. QED
    BY <1>3, <1>4, <1>5, <1>12, <1>13

LEMMA CallersQuiet ==
  ASSUME CronInv, UNCHANGED <<exec, results, manual>>
  PROVE  CallersOwn'
  BY DEF CronInv, CallersOwn

LEMMA CarriedArmed ==
  ASSUME NEW old \in JobStore, NEW new, Carries(old, new)
  PROVE  Armed(new) <=> Armed(old)
  <1>1. \A j \in Jobs : Carried(old[j], new[j]) /\ old[j] \in {Absent} \cup JobRecords
    BY DEF Carries, JobStore
  <1>2. \A j \in Jobs : /\ new[j] = Absent <=> old[j] = Absent
                        /\ old[j] # Absent => new[j].enabled = old[j].enabled
    BY <1>1, RecordAssumption DEF Carried
  <1>3. QED
    BY <1>2 DEF Armed

\* A section of a running service that changes no switch and no timer.
LEMMA TimerCarried ==
  ASSUME CronInv, NEW new, Carries(mem, new), mem' = new, FaultsGrow,
         UNCHANGED <<timer, boot>>, tick' = tick
  PROVE  TimerKept'
  <1>1. mem \in JobStore /\ TimerKept
    BY DEF CronInv, TypeOK
  <1>2. Armed(mem)' <=> Armed(mem)
    <2>1. Armed(new) <=> Armed(mem)
      BY <1>1, CarriedArmed
    <2>2. Armed(mem)' <=> Armed(new)
      BY DEF Armed
    <2>3. QED
      BY <2>1, <2>2
  <1>3. QED
    BY <1>1, <1>2 DEF TimerKept, FaultsGrow

(***************************************************************************)
(* Reading, and the sections with nothing to do                            *)
(***************************************************************************)
LEMMA ReadKeeps ==
  ASSUME CronInv, Read
  PROVE  CronInv'
  <1> DEFINE new == Maintain(Stored, FALSE)
  <1>1. /\ Release(Stored)
        /\ UNCHANGED <<now, timer, tick, todo, held, boot, interrupted, missed, deferred,
                       exec, results, manual, edits, crashes, added>>
    BY DEF Read, ticking, booting, runs
  <1>2. Grounded(Stored)
    BY GroundedStored
  <1>3. Carries(Stored, new)
    BY <1>2, NowNat, MaintainCarries DEF Grounded
  <1>4. PICK ok \in BOOLEAN : SaveChanged(new, Stored, ok)
    BY DEF Read
  <1> HIDE DEF new
  <1>5. Written(new) \/ NotWritten(new) \/ NothingToWrite(new)
    BY <1>4, ChangesSaved DEF CronInv
  <1>6. /\ StoreInv' /\ OnePlace' /\ mem' \in JobStore /\ file' \in JobStore
        /\ released' \subseteq Jobs /\ done' \subseteq OneShots
        /\ FaultsGrow /\ loaded' = TRUE
    BY <1>1, <1>2, <1>3, <1>5, CarryHolds DEF QuietPlaces
  <1>7. TypeOK' /\ Waits'
    BY <1>1, <1>6 DEF CronInv, TypeOK, Waits, FaultsGrow
  <1>8. CallersOwn'
    BY <1>1, CallersQuiet
  <1>9. TimerKept'
    <2>1. CASE boot # "off"
      <3>1. Stored = mem
        BY <2>1 DEF CronInv, Waits, Stored
      <3>2. mem' = new
        BY <1>5 DEF Written, NotWritten, NothingToWrite
      <3>3. QED
        BY <1>1, <1>3, <1>6, <3>1, <3>2, TimerCarried
    <2>2. CASE boot = "off"
      BY <1>1, <2>2 DEF TimerKept
    <2>3. QED
      BY <2>1, <2>2
  <1>10. QED
    BY <1>6, <1>7, <1>8, <1>9 DEF CronInv, StoreInv

LEMMA PreflightKeeps ==
  ASSUME CronInv, NEW m \in Manuals, NEW j \in Jobs, NEW force \in BOOLEAN,
         Preflight(m, j, force)
  PROVE  CronInv'
  <1> DEFINE new == Maintain(Stored, FALSE)
  <1>1. /\ Release(Stored) /\ manual[m].pc = "idle"
        /\ mem' = new /\ loaded' = TRUE
        /\ UNCHANGED <<now, file, timer, tick, todo, held, boot, interrupted, missed, deferred,
                       exec, results, faults, crashes, added>>
        /\ \/ /\ edits' = edits + 1
              /\ manual' = [manual EXCEPT ![m] = [pc |-> "reserve", job |-> j, force |-> force,
                                                  started |-> now]]
           \/ UNCHANGED <<manual, edits>>
    BY DEF Preflight, ticking, booting, runs, Edit, Step
  <1>2. Grounded(Stored)
    BY GroundedStored
  <1>3. Carries(Stored, new)
    BY <1>2, NowNat, MaintainCarries DEF Grounded
  <1> HIDE DEF new
  <1>4. NothingToWrite(new)
    BY <1>1 DEF NothingToWrite
  <1>5. /\ StoreInv' /\ OnePlace' /\ mem' \in JobStore /\ file' \in JobStore
        /\ released' \subseteq Jobs /\ done' \subseteq OneShots
        /\ FaultsGrow /\ loaded' = TRUE
    BY <1>1, <1>2, <1>3, <1>4, CarryHolds DEF QuietPlaces
  <1>6. /\ now \in Nat \ {0} /\ edits' \in Nat
        /\ manual' \in [Manuals -> [pc : {"idle", "reserve", "run", "finish"},
                                    job : {Absent} \cup Jobs, force : BOOLEAN, started : Nat]]
    BY <1>1, CronAssumption DEF CronInv, TypeOK
  <1>7. TypeOK' /\ Waits'
    BY <1>1, <1>5, <1>6 DEF CronInv, TypeOK, Waits, FaultsGrow
  <1>8. CallersOwn'
    <2>1. CASE UNCHANGED manual
      BY <1>1, <2>1, CallersQuiet
    <2>2. CASE manual' = [manual EXCEPT ![m] = [pc |-> "reserve", job |-> j, force |-> force,
                                                started |-> now]]
      <3>1. /\ manual'[m].pc = "reserve" /\ manual'[m].job = j /\ manual'[m].started = now
            /\ \A n \in Manuals \ {m} : manual'[n] = manual[n]
        BY <2>2 DEF CronInv, TypeOK
      <3>2. \A x \in exec \cup results : x.by # m
        BY <1>1 DEF CronInv, CallersOwn
      <3>3. QED
        BY <1>1, <1>6, <3>1, <3>2 DEF CronInv, CallersOwn
    <2>3. QED
      BY <1>1, <2>1, <2>2
  <1>9. TimerKept'
    <2>1. CASE boot # "off"
      <3>1. Stored = mem
        BY <2>1 DEF CronInv, Waits, Stored
      <3>2. QED
        BY <1>1, <1>3, <1>5, <3>1, TimerCarried
    <2>2. CASE boot = "off"
      BY <1>1, <2>2 DEF TimerKept
    <2>3. QED
      BY <2>1, <2>2
  <1>10. QED
    BY <1>5, <1>7, <1>8, <1>9 DEF CronInv, StoreInv

\* Steps that touch neither the store nor the places of the jobs.
LEMMA IdleKeeps ==
  ASSUME CronInv, TimerFires \/ Finally \/ TimePasses \/ UNCHANGED vars
  PROVE  CronInv'
  <1>1. UNCHANGED <<file, mem, loaded, todo, held, boot, interrupted, missed, deferred,
                    exec, results, manual, edits, faults, crashes, added, released, done>>
    BY DEF TimerFires, Finally, TimePasses, vars, store, ticking, booting, runs, history
  <1>2. /\ now' \in 1..MaxNow
        /\ tick' \in {"idle", "collect", "run", "finally"}
        /\ tick = "run" => tick' = "run"
        /\ tick' = "run" => tick = "run"
    BY CronAssumption DEF TimerFires, Finally, TimePasses, vars, ticking, CronInv, TypeOK
  <1>3. timer' \in BOOLEAN
    <2>1. CASE Finally
      BY <2>1 DEF Finally, Armed
    <2>2. CASE TimerFires \/ TimePasses \/ UNCHANGED vars
      BY <2>2 DEF TimerFires, TimePasses, vars, CronInv, TypeOK
    <2>3. QED
      BY <2>1, <2>2
  <1>4. TypeOK' /\ Waits'
    BY <1>1, <1>2, <1>3 DEF CronInv, TypeOK, Waits
  <1>5. Busy' = Busy
    BY <1>1 DEF Busy
  <1>6. Known' /\ OnePlace' /\ MarkedWhileBusy' /\ NoneLeftBehind' /\ CallersOwn'
    BY <1>1, <1>5 DEF CronInv, Known, OnePlace, MarkedWhileBusy, NoneLeftBehind,
                      NothingFailed, CallersOwn
  <1>7. TimerKept'
    <2>1. Armed(mem)' <=> Armed(mem)
      BY <1>1 DEF Armed
    <2>2. CASE Finally
      BY <1>1, <2>1, <2>2 DEF Finally, TimerKept
    <2>3. CASE TimerFires
      BY <2>3 DEF TimerFires, TimerKept
    <2>4. CASE TimePasses \/ UNCHANGED vars
      BY <1>1, <2>1, <2>4 DEF TimePasses, vars, ticking, CronInv, TimerKept
    <2>5. QED
      BY <2>2, <2>3, <2>4
  <1>8. QED
    BY <1>4, <1>6, <1>7 DEF CronInv

\* The end of the process leaves the file and nothing that holds a job.
LEMMA CrashKeeps ==
  ASSUME CronInv, Crash
  PROVE  CronInv'
  <1>1. /\ mem' = [j \in Jobs |-> Absent] /\ loaded' = FALSE /\ timer' = FALSE
        /\ tick' = "idle" /\ todo' = {} /\ held' = {}
        /\ boot' = "off" /\ interrupted' = {} /\ missed' = {} /\ deferred' = {}
        /\ exec' = {} /\ results' = {}
        /\ manual' = [m \in Manuals |-> IdleManual]
        /\ released' = {}
        /\ crashes' = crashes + 1
        /\ UNCHANGED <<now, file, edits, faults, added, done>>
    BY DEF Crash
  <1>2. mem' \in JobStore
    BY <1>1 DEF JobStore
  <1>3. IdleManual \in [pc : {"idle", "reserve", "run", "finish"}, job : {Absent} \cup Jobs,
                        force : BOOLEAN, started : Nat]
    BY DEF IdleManual
  <1>4. TypeOK' /\ Waits'
    <2>1. manual' \in [Manuals -> [pc : {"idle", "reserve", "run", "finish"},
                                   job : {Absent} \cup Jobs, force : BOOLEAN, started : Nat]]
      BY <1>1, <1>3
    <2>2. /\ todo' \subseteq Jobs /\ held' \subseteq Jobs /\ interrupted' \subseteq Jobs
          /\ missed' \subseteq Jobs /\ deferred' \subseteq Jobs /\ released' \subseteq Jobs
          /\ exec' \subseteq Run /\ results' \subseteq Result
      BY <1>1
    <2>3. /\ crashes' \in Nat /\ edits' \in Nat
          /\ now' \in 1..MaxNow /\ file' \in JobStore
          /\ faults' \in [{"service", "user"} -> Nat]
          /\ added' \subseteq Jobs /\ done' \subseteq OneShots
      BY <1>1 DEF CronInv, TypeOK
    <2>4. /\ loaded' \in BOOLEAN /\ timer' \in BOOLEAN
          /\ tick' \in {"idle", "collect", "run", "finally"}
          /\ boot' \in {"off", "plan", "missed", "arm", "up", "failed"}
      BY <1>1
    <2>5. TypeOK'
      BY <1>2, <2>1, <2>2, <2>3, <2>4 DEF TypeOK
    <2>6. QED
      BY <1>1, <2>5 DEF Waits
  <1>5. Busy' = {}
    BY <1>1 DEF Busy
  <1>6. \A m \in Manuals : manual'[m].pc = "idle"
    BY <1>1 DEF IdleManual
  <1>7. CallersOwn'
    BY <1>1, <1>6 DEF CallersOwn
  <1>8. Known' /\ OnePlace' /\ MarkedWhileBusy' /\ NoneLeftBehind' /\ TimerKept'
    BY <1>1, <1>5 DEF CronInv, Known, OnePlace, MarkedWhileBusy, NoneLeftBehind, TimerKept
  <1>9. QED
    BY <1>4, <1>7, <1>8 DEF CronInv

(***************************************************************************)
(* The tick                                                                *)
(***************************************************************************)
\* What is due, marked and waiting to run.
Due(jobs) == {j \in Jobs : IsDue(jobs[j])}

LEMMA CollectNone ==
  ASSUME CronInv, NEW jobs, jobs = Reloaded, NEW ok \in BOOLEAN, tick = "collect",
         tick' = "finally",
         SaveChanged(Maintain(jobs, TRUE), jobs, ok), Release(jobs),
         UNCHANGED <<now, timer, todo, held, boot, interrupted, missed, deferred,
                     exec, results, manual, edits, crashes, added>>
  PROVE  CronInv'
  <1> DEFINE new == Maintain(jobs, TRUE)
  <1>1. Grounded(jobs)
    BY GroundedReloaded
  <1>2. Carries(jobs, new)
    BY <1>1, NowNat, MaintainCarries DEF Grounded
  <1> HIDE DEF new
  <1>3. Written(new) \/ NotWritten(new) \/ NothingToWrite(new)
    BY ChangesSaved DEF CronInv, new
  <1>4. /\ StoreInv' /\ OnePlace' /\ mem' \in JobStore /\ file' \in JobStore
        /\ released' \subseteq Jobs /\ done' \subseteq OneShots
        /\ FaultsGrow /\ loaded' = TRUE
    BY <1>1, <1>2, <1>3, CarryHolds DEF QuietPlaces
  <1>5. TypeOK' /\ Waits'
    BY <1>4 DEF CronInv, TypeOK, Waits, FaultsGrow
  <1>6. CallersOwn'
    BY CallersQuiet
  <1>7. TimerKept'
    BY DEF TimerKept
  <1>8. QED
    BY <1>4, <1>5, <1>6, <1>7 DEF CronInv, StoreInv

\* Whoever marks jobs that are not marked takes them from nobody.
LEMMA UnmarkedFree ==
  ASSUME CronInv, NEW jobs, Grounded(jobs), NEW j \in Jobs, jobs[j] # Absent,
         jobs[j].running = 0
  PROVE  j \in Busy => j \in released
  BY DEF Grounded, Marked

LEMMA CollectSome ==
  ASSUME CronInv, NEW jobs, jobs = Reloaded, tick = "collect",
         tick' \in {"run", "finally"},
         IF tick' = "run" THEN Written(Mark(jobs, Due(jobs)))
                          ELSE NotWritten(Mark(jobs, Due(jobs))),
         todo' = IF tick' = "run" THEN Due(jobs) ELSE {},
         held' = todo',
         UNCHANGED <<now, timer, boot, interrupted, missed, deferred, released, done,
                     exec, results, manual, edits, crashes, added>>
  PROVE  CronInv'
  <1> DEFINE due == Due(jobs)
             new == Mark(jobs, due)
  <1>1. Grounded(jobs)
    BY GroundedReloaded
  <1>2. /\ due \subseteq Jobs
        /\ \A j \in due : jobs[j] # Absent /\ jobs[j].running = 0
    BY DEF Due, IsDue
  <1>3. \A j \in due : j \in added /\ (j \in Busy => j \in released)
    BY <1>1, <1>2, UnmarkedFree DEF Grounded
  <1>4. /\ new \in JobStore
        /\ \A j \in due : Marked(new[j])
        /\ \A j \in Jobs \ due : new[j] = jobs[j]
    BY <1>1, <1>2, NowNat, MarkKeeps DEF Grounded
  <1> HIDE DEF new, due
  <1>5. todo = {} /\ todo' \in {due, {}}
    BY DEF CronInv, Waits, due
  <1>6. Busy' = Busy \cup todo'
    BY <1>5 DEF Busy
  <1>7. TypeOK /\ Busy \subseteq Jobs
    BY BusyJobs DEF CronInv
  <1>8. \A j \in Busy' \ released' : Marked(new[j])
    BY <1>1, <1>4, <1>5, <1>6, <1>7 DEF Grounded
  <1>9. \A j \in Jobs \ added' : new[j] = Absent /\ j \notin Busy'
    BY <1>1, <1>3, <1>4, <1>5, <1>6 DEF Grounded, CronInv, Known
  <1>10. FaultsGrow
    <2>1. CASE Written(new)
      BY <1>7, <2>1, FaultsKept DEF Written
    <2>2. CASE NotWritten(new)
      BY <2>2 DEF NotWritten
    <2>3. QED
      BY <2>1, <2>2 DEF new, due
  <1>11. Orderly => \A j \in Jobs \ Busy' : Unmarked(new[j])
    <2>1. CASE tick' = "run"
      <3>1. todo' = due
        BY <2>1 DEF due
      <3>2. QED
        BY <1>1, <1>4, <1>6, <1>10, <3>1 DEF Grounded, Orderly, FaultsGrow
    <2>2. CASE tick' # "run"
      <3>1. ~Orderly
        BY <2>2 DEF NotWritten, Orderly
      <3>2. QED
        BY <3>1
    <2>3. QED
      BY <2>1, <2>2
  <1>12. Written(new) \/ (NotWritten(new) /\ Busy' \ released' \subseteq Busy \ released)
    <2>1. CASE tick' = "run"
      BY <2>1 DEF new, due
    <2>2. CASE tick' # "run"
      BY <1>6, <2>2 DEF new, due
    <2>3. QED
      BY <2>1, <2>2
  <1>13. StoreInv' /\ mem' \in JobStore /\ file' \in JobStore
    BY <1>4, <1>8, <1>9, <1>11, <1>12, StoresHold
  <1>14. OnePlace'
    BY <1>3, <1>5, <1>6, <1>7 DEF CronInv, OnePlace, Busy
  <1>15. loaded' = TRUE
    BY <1>12 DEF Written, NotWritten
  <1>16. todo' \subseteq Jobs /\ (tick' # "run" => todo' = {})
    BY <1>2, <1>5
  <1>17. TypeOK' /\ Waits'
    BY <1>10, <1>13, <1>15, <1>16 DEF CronInv, TypeOK, Waits, FaultsGrow
  <1>18. CallersOwn' /\ TimerKept'
    BY CallersQuiet DEF TimerKept
  <1>19. QED
    BY <1>13, <1>14, <1>17, <1>18 DEF CronInv, StoreInv

LEMMA CollectKeeps ==
  ASSUME CronInv, CollectDue
  PROVE  CronInv'
  <1>1. /\ tick = "collect" /\ tick' \in {"run", "finally"}
        /\ UNCHANGED <<now, timer, boot, interrupted, missed, deferred, exec, results,
                       manual, edits, crashes, added>>
    BY DEF CollectDue, booting, runs
  <1> DEFINE jobs == Reloaded
             due == Due(jobs)
  <1>2. \/ /\ due = {} /\ tick' = "finally"
           /\ \E ok \in BOOLEAN : SaveChanged(Maintain(jobs, TRUE), jobs, ok)
           /\ Release(jobs)
           /\ UNCHANGED <<todo, held>>
        \/ /\ due # {}
           /\ Save(Mark(jobs, due), tick' = "run")
           /\ todo' = IF tick' = "run" THEN due ELSE {}
           /\ held' = todo'
           /\ UNCHANGED <<released, done>>
    BY DEF CollectDue, Due
  <1> HIDE DEF jobs, due
  <1>3. CASE /\ due = {} /\ tick' = "finally"
             /\ \E ok \in BOOLEAN : SaveChanged(Maintain(jobs, TRUE), jobs, ok)
             /\ Release(jobs)
             /\ UNCHANGED <<todo, held>>
    BY <1>1, <1>3, CollectNone DEF jobs
  <1>4. CASE /\ due # {}
             /\ Save(Mark(jobs, due), tick' = "run")
             /\ todo' = IF tick' = "run" THEN due ELSE {}
             /\ held' = todo'
             /\ UNCHANGED <<released, done>>
    <2>1. IF tick' = "run" THEN Written(Mark(jobs, due)) ELSE NotWritten(Mark(jobs, due))
      <3>1. CASE tick' = "run"
        <4>1. Save(Mark(jobs, due), TRUE)
          BY <1>4, <3>1
        <4>2. QED
          BY <3>1, <4>1, ServiceSaves DEF CronInv
      <3>2. CASE tick' # "run"
        <4>1. Save(Mark(jobs, due), FALSE)
          BY <1>4, <3>2
        <4>2. QED
          BY <3>2, <4>1, ServiceSaves DEF CronInv
      <3>3. QED
        BY <3>1, <3>2
    <2>2. QED
      BY <1>1, <1>4, <2>1, CollectSome DEF jobs, due
  <1>5. QED
    BY <1>2, <1>3, <1>4

LEMMA RunDueJobKeeps ==
  ASSUME CronInv, NEW j \in Jobs, RunDueJob(j)
  PROVE  CronInv'
  <1> DEFINE x == [by |-> "tick", job |-> j, started |-> now]
  <1>1. /\ tick = "run" /\ j \in todo
        /\ todo' = todo \ {j}
        /\ exec' = exec \cup {x}
        /\ mem' = IF j \in held /\ mem[j] # Absent THEN Mark(mem, {j}) ELSE mem
        /\ UNCHANGED <<now, file, loaded, timer, tick, held, boot, interrupted, missed,
                       deferred, results, manual, edits, faults, crashes, added,
                       released, done>>
    BY DEF RunDueJob, booting, history
  <1>2. TypeOK /\ now \in Nat \ {0}
    BY NowNat DEF CronInv
  <1>3. /\ mem' \in JobStore
        /\ mem[j] # Absent => mem'[j] # Absent
        /\ Marked(mem[j]) => Marked(mem'[j])
        /\ mem[j] = Absent <=> mem'[j] = Absent
        /\ \A i \in Jobs \ {j} : mem'[i] = mem[i]
    <2>1. CASE j \in held /\ mem[j] # Absent
      <3>1. /\ Mark(mem, {j}) \in JobStore
            /\ Mark(mem, {j})[j] \in JobRecords /\ Marked(Mark(mem, {j})[j])
            /\ \A i \in Jobs \ {j} : Mark(mem, {j})[i] = mem[i]
        BY <1>2, <2>1, MarkKeeps DEF TypeOK
      <3>2. QED
        BY <1>1, <2>1, <3>1, RecordAssumption
    <2>2. CASE ~(j \in held /\ mem[j] # Absent)
      BY <1>1, <1>2, <2>2 DEF TypeOK
    <2>3. QED
      BY <2>1, <2>2
  <1>4. x \in Run /\ x.by = "tick" /\ x.job = j
    BY <1>2 DEF Run, Runners
  <1> HIDE DEF x
  <1>5. Busy' = Busy /\ j \in Busy
    <2>1. {y.job : y \in exec'} = {y.job : y \in exec} \cup {j}
      BY <1>1, <1>4
    <2>2. {y.job : y \in exec \cup results}' = {y.job : y \in exec \cup results} \cup {j}
      BY <1>1, <1>4
    <2>3. QED
      BY <1>1, <2>2 DEF Busy
  <1>6. TypeOK' /\ Waits'
    BY <1>1, <1>3, <1>4 DEF CronInv, TypeOK, Waits
  <1>7. Known' /\ MarkedWhileBusy'
    <2>1. Busy \subseteq Jobs
      BY <1>2, BusyJobs
    <2>2. \A i \in Jobs : /\ mem[i] = Absent => mem'[i] = Absent
                          /\ Marked(mem[i]) => Marked(mem'[i])
      BY <1>3
    <2>3. MarkedWhileBusy'
      BY <1>1, <1>5, <2>1, <2>2 DEF CronInv, MarkedWhileBusy
    <2>4. Known'
      BY <1>1, <1>5, <2>2 DEF CronInv, Known
    <2>5. QED
      BY <2>3, <2>4
  <1>8. NoneLeftBehind'
    BY <1>1, <1>3, <1>5 DEF CronInv, NoneLeftBehind, NothingFailed
  <1>9. OnePlace'
    BY <1>1, <1>4 DEF CronInv, OnePlace
  <1>10. CallersOwn'
    BY <1>1, <1>4, CronAssumption DEF CronInv, CallersOwn
  <1>11. TimerKept'
    BY <1>1 DEF TimerKept
  <1>12. QED
    BY <1>6, <1>7, <1>8, <1>9, <1>10, <1>11 DEF CronInv

LEMMA RunMissedJobKeeps ==
  ASSUME CronInv, NEW j \in Jobs, RunMissedJob(j)
  PROVE  CronInv'
  <1> DEFINE x == [by |-> "boot", job |-> j, started |-> now]
  <1>1. /\ boot = "missed" /\ j \in missed
        /\ missed' = missed \ {j}
        /\ exec' = exec \cup {x}
        /\ UNCHANGED <<now, file, mem, loaded, timer, tick, todo, held, boot, interrupted,
                       deferred, results, manual, edits, faults, crashes, added,
                       released, done>>
    BY DEF RunMissedJob, store, ticking, history
  <1>2. TypeOK /\ now \in Nat \ {0}
    BY NowNat DEF CronInv
  <1>3. x \in Run /\ x.by = "boot" /\ x.job = j
    BY <1>2 DEF Run, Runners
  <1> HIDE DEF x
  <1>4. Busy' = Busy
    <2>1. {y.job : y \in exec \cup results}' = {y.job : y \in exec \cup results} \cup {j}
      BY <1>1, <1>3
    <2>2. QED
      BY <1>1, <2>1 DEF Busy
  <1>5. TypeOK' /\ Waits'
    BY <1>1, <1>3 DEF CronInv, TypeOK, Waits
  <1>6. Known' /\ MarkedWhileBusy' /\ NoneLeftBehind'
    BY <1>1, <1>4 DEF CronInv, Known, MarkedWhileBusy, NoneLeftBehind, NothingFailed
  <1>7. OnePlace'
    BY <1>1, <1>3 DEF CronInv, OnePlace
  <1>8. CallersOwn'
    BY <1>1, <1>3, CronAssumption DEF CronInv, CallersOwn
  <1>9. TimerKept'
    BY <1>1 DEF TimerKept
  <1>10. QED
    BY <1>5, <1>6, <1>7, <1>8, <1>9 DEF CronInv

\* A run ends: its place is now its result's.
LEMMA RunEndsKeeps ==
  ASSUME CronInv, NEW by, NEW x \in RunsOf(by), NEW outcome \in Outcomes,
         RunEnds(x, outcome)
  PROVE  CronInv'
  <1> DEFINE y == [by |-> x.by, job |-> x.job, started |-> x.started, ended |-> now,
                   outcome |-> outcome]
  <1>1. /\ exec' = exec \ {x} /\ results' = results \cup {y}
        /\ manual' = IF x.by \in Manuals THEN [manual EXCEPT ![x.by].pc = "finish"] ELSE manual
        /\ UNCHANGED <<now, file, mem, loaded, timer, tick, todo, held, boot, interrupted,
                       missed, deferred, edits, faults, crashes, added, released>>
    BY DEF RunEnds, store, ticking, booting
  <1>2. TypeOK /\ now \in Nat \ {0} /\ x \in exec
    BY NowNat DEF CronInv, RunsOf
  <1>3. x \in Run /\ x.job \in Jobs
    BY <1>2 DEF TypeOK, Run
  <1>4. y \in Result /\ y.by = x.by /\ y.job = x.job
    BY <1>2, <1>3 DEF Run, Result
  <1> HIDE DEF y
  <1>5. Busy' = Busy
    <2>1. {z.job : z \in exec \cup results}' = {z.job : z \in exec \cup results}
      BY <1>1, <1>2, <1>4
    <2>2. QED
      BY <1>1, <2>1 DEF Busy
  <1>6. done' \subseteq OneShots
    BY <1>2 DEF RunEnds, TypeOK
  <1>7. /\ manual' \in [Manuals -> [pc : {"idle", "reserve", "run", "finish"},
                                    job : {Absent} \cup Jobs, force : BOOLEAN, started : Nat]]
        /\ \A m \in Manuals : manual'[m].job = manual[m].job
                              /\ manual'[m].started = manual[m].started
        /\ x.by \in Manuals => manual'[x.by].pc = "finish"
        /\ \A m \in Manuals \ {x.by} : manual'[m] = manual[m]
    <2>1. CASE x.by \in Manuals
      <3>1. manual' = [manual EXCEPT ![x.by].pc = "finish"]
        BY <1>1, <2>1
      <3>2. manual[x.by] \in [pc : {"idle", "reserve", "run", "finish"},
                              job : {Absent} \cup Jobs, force : BOOLEAN, started : Nat]
        BY <1>2, <2>1 DEF TypeOK
      <3>3. /\ manual'[x.by] = [manual[x.by] EXCEPT !.pc = "finish"]
            /\ \A m \in Manuals \ {x.by} : manual'[m] = manual[m]
        BY <1>2, <2>1, <3>1 DEF TypeOK
      <3>4. QED
        BY <1>2, <2>1, <3>1, <3>2, <3>3 DEF TypeOK
    <2>2. CASE x.by \notin Manuals
      BY <1>1, <1>2, <2>2 DEF TypeOK
    <2>3. QED
      BY <2>1, <2>2
  <1>8. TypeOK' /\ Waits'
    BY <1>1, <1>2, <1>4, <1>6, <1>7 DEF CronInv, TypeOK, Waits
  <1>9. Known' /\ MarkedWhileBusy' /\ NoneLeftBehind'
    BY <1>1, <1>5 DEF CronInv, Known, MarkedWhileBusy, NoneLeftBehind, NothingFailed
  <1>10. OnePlace'
    BY <1>1, <1>2, <1>4 DEF CronInv, OnePlace
  <1>11. CallersOwn'
    <2>1. ASSUME x.by \in Manuals, NEW z \in exec, z.by = x.by
          PROVE  z = x
      <3>1. z.job = x.job /\ z.started = x.started
        BY <1>2, <2>1 DEF CronInv, CallersOwn
      <3>2. z \in Run
        BY <1>2 DEF TypeOK
      <3>3. QED
        BY <1>3, <2>1, <3>1, <3>2 DEF Run
    <2>2. x.by \in Manuals => manual[x.by].pc = "run" /\ x.job = manual[x.by].job
      BY <1>2 DEF CronInv, CallersOwn
    <2>3. \A m \in Manuals : manual'[m].pc # "idle" =>
            manual'[m].job \in Jobs /\ manual'[m].started \in Nat \ {0}
      BY <1>7, <2>2 DEF CronInv, CallersOwn
    <2>4. \A z \in exec' : z.by \in Manuals =>
            /\ manual'[z.by].pc = "run"
            /\ z.job = manual'[z.by].job /\ z.started = manual'[z.by].started
      BY <1>1, <1>7, <2>1 DEF CronInv, CallersOwn
    <2>5. \A z \in results' : z.by \in Manuals =>
            manual'[z.by].pc = "finish" /\ z.job = manual'[z.by].job
      BY <1>1, <1>4, <1>7, <2>2 DEF CronInv, CallersOwn
    <2>6. \A m \in Manuals : manual'[m].pc = "finish" => \E z \in results' : z.by = m
      BY <1>1, <1>4, <1>7 DEF CronInv, CallersOwn
    <2>7. QED
      BY <2>3, <2>4, <2>5, <2>6 DEF CallersOwn
  <1>12. TimerKept'
    <2>1. Armed(mem)' <=> Armed(mem)
      BY <1>1 DEF Armed
    <2>2. QED
      BY <1>1, <2>1 DEF CronInv, TimerKept
  <1>13. QED
    BY <1>8, <1>9, <1>10, <1>11, <1>12 DEF CronInv

LEMMA AppliedAllIs ==
  ASSUME TypeOK, NEW jobs \in JobStore, NEW by
  PROVE  /\ AppliedAll(jobs, by) \in JobStore
         /\ \A j \in Jobs : jobs[j] = Absent => AppliedAll(jobs, by)[j] = Absent
         /\ \A j \in Jobs : (\E x \in results : x.by = by /\ x.job = j) =>
              Unmarked(AppliedAll(jobs, by)[j])
         /\ \A j \in Jobs : ~(\E x \in results : x.by = by /\ x.job = j) =>
              AppliedAll(jobs, by)[j] = jobs[j]
  <1> DEFINE new == AppliedAll(jobs, by)
             own(j) == {x \in results : x.by = by /\ x.job = j}
  <1>1. ASSUME NEW j \in Jobs
        PROVE  new[j] = IF jobs[j] = Absent \/ own(j) = {} THEN jobs[j]
                        ELSE Applied(j, jobs[j], CHOOSE x \in own(j) : TRUE, FALSE)
    BY DEF AppliedAll
  <1>2. ASSUME NEW j \in Jobs
        PROVE  /\ new[j] \in {Absent} \cup JobRecords
               /\ jobs[j] = Absent => new[j] = Absent
               /\ own(j) # {} => Unmarked(new[j])
               /\ own(j) = {} => new[j] = jobs[j]
    <2>1. CASE jobs[j] = Absent \/ own(j) = {}
      BY <1>1, <2>1 DEF JobStore, Unmarked
    <2>2. CASE jobs[j] # Absent /\ own(j) # {}
      <3>1. (CHOOSE x \in own(j) : TRUE) \in own(j)
        BY <2>2
      <3>2. PICK x \in own(j) : new[j] = Applied(j, jobs[j], x, FALSE)
        BY <1>1, <2>2, <3>1
      <3>3. x \in Result /\ jobs[j] \in JobRecords
        BY <2>2, <3>2 DEF TypeOK, JobStore
      <3>4. QED
        BY <2>2, <3>2, <3>3, AppliedUnmarks
    <2>3. QED
      BY <2>1, <2>2
  <1>3. new = [j \in Jobs |-> new[j]]
    BY DEF AppliedAll
  <1> HIDE DEF new
  <1>4. new \in JobStore
    BY <1>2, <1>3 DEF JobStore
  <1>5. QED
    BY <1>2, <1>4 DEF new

\* A section that applies the results of a runner and forgets them.
Owns(runner, j) == \E x \in results : x.by = runner /\ x.job = j

LEMMA DropHolds ==
  ASSUME CronInv, NEW runner, NEW old, Grounded(old), NEW mid \in JobStore,
         NEW new, Carries(mid, new), Release(mid),
         Written(new) \/ NotWritten(new),
         results' = {x \in results : x.by # runner},
         UNCHANGED <<todo, missed, exec, added>>,
         boot' # "off" => boot # "off",
         \A j \in Jobs : old[j] = Absent => mid[j] = Absent,
         \A j \in Jobs : Owns(runner, j) => Unmarked(mid[j]),
         \A j \in Jobs : ~Owns(runner, j) =>
           /\ Marked(old[j]) => Marked(mid[j])
           /\ Unmarked(old[j]) => Unmarked(mid[j])
  PROVE  /\ StoreInv' /\ OnePlace' /\ mem' \in JobStore /\ file' \in JobStore
         /\ released' \subseteq Jobs /\ done' \subseteq OneShots
         /\ FaultsGrow /\ loaded' = TRUE
  <1>1. TypeOK /\ Known /\ OnePlace /\ Busy \subseteq Jobs /\ new \in JobStore
    BY BusyJobs DEF CronInv, Carries
  <1>2. released \subseteq released' /\ released' \subseteq Jobs /\ done' \subseteq OneShots
    BY <1>1, ReleaseGrows
  <1>3. Busy' \subseteq Busy
    BY DEF Busy
  <1>4. ASSUME NEW j \in Busy' \ released'
        PROVE  ~Owns(runner, j) /\ j \in Busy \ released
    <2>1. j \in Busy \ released
      BY <1>2, <1>3
    <2>2. ASSUME NEW x \in results, x.by = runner, x.job = j
          PROVE  FALSE
      <3>1. /\ j \notin todo \cup missed
            /\ \A y \in exec : y.job # j
            /\ \A y \in results : y.job = j => y = x
        BY <1>1, <2>1, <2>2 DEF OnePlace
      <3>2. j \notin Busy'
        BY <2>2, <3>1 DEF Busy
      <3>3. QED
        BY <3>2
    <2>3. QED
      BY <2>1, <2>2 DEF Owns
  <1>5. FaultsGrow /\ loaded' = TRUE
    BY <1>1, FaultsKept DEF Written, NotWritten
  <1>6. \A j \in Busy' \ released' : Marked(new[j])
    <2> TAKE j \in Busy' \ released'
    <2>1. ~Owns(runner, j) /\ j \in Busy \ released' /\ j \in Jobs /\ j \in Busy \ released
      BY <1>1, <1>4
    <2>2. Marked(mid[j])
      BY <2>1 DEF Grounded
    <2>3. QED
      BY <2>1, <2>2, CarriedMarks
  <1>7. \A j \in Jobs \ added' : new[j] = Absent /\ j \notin Busy'
    BY <1>1, <1>3, CarriedMarks DEF Grounded, Known
  <1>8. Orderly => \A j \in Jobs \ Busy' : Unmarked(new[j])
    <2> SUFFICES ASSUME Orderly, NEW j \in Jobs \ Busy'
                 PROVE  Unmarked(new[j])
      OBVIOUS
    <2>1. NothingFailed /\ boot # "off"
      BY <1>5 DEF Orderly, FaultsGrow
    <2>2. CASE Owns(runner, j)
      BY <2>2, CarriedMarks
    <2>3. CASE ~Owns(runner, j)
      <3>1. j \notin Busy
        BY <2>3 DEF Busy, Owns
      <3>2. Unmarked(mid[j])
        BY <2>1, <2>3, <3>1 DEF Grounded
      <3>3. QED
        BY <3>2, CarriedMarks
    <2>4. QED
      BY <2>2, <2>3
  <1>9. StoreInv' /\ mem' \in JobStore /\ file' \in JobStore
    BY <1>1, <1>4, <1>6, <1>7, <1>8, StoresHold
  <1>10. OnePlace'
    BY <1>1, <1>2 DEF OnePlace
  <1>11. QED
    BY <1>2, <1>5, <1>9, <1>10

\* A service's runner owns no result of a caller.
LEMMA CallersKeptByService ==
  ASSUME CronInv, NEW by \in {"tick", "boot"}, results' = {x \in results : x.by # by},
         UNCHANGED <<exec, manual>>
  PROVE  CallersOwn'
  BY CronAssumption DEF CronInv, CallersOwn

LEMMA ApplyResultsKeeps ==
  ASSUME CronInv, ApplyResults
  PROVE  CronInv'
  <1> DEFINE jobs == AppliedAll(Reloaded, "tick")
             new == Maintain(jobs, FALSE)
  <1>1. /\ todo = {} /\ tick' = "finally" /\ held' = {}
        /\ results' = {x \in results : x.by # "tick"}
        /\ UNCHANGED <<now, timer, todo, boot, interrupted, missed, deferred, exec, manual,
                       edits, crashes, added>>
        /\ Release(jobs)
    BY DEF ApplyResults, booting
  <1>2. PICK ok \in BOOLEAN : Save(new, ok)
    BY DEF ApplyResults
  <1>3. Grounded(Reloaded) /\ TypeOK
    BY GroundedReloaded DEF CronInv
  <1>4. /\ jobs \in JobStore
        /\ \A j \in Jobs : Reloaded[j] = Absent => jobs[j] = Absent
        /\ \A j \in Jobs : Owns("tick", j) => Unmarked(jobs[j])
        /\ \A j \in Jobs : ~Owns("tick", j) => jobs[j] = Reloaded[j]
    BY <1>3, AppliedAllIs DEF Grounded, Owns
  <1> HIDE DEF jobs
  <1>5. Carries(jobs, new)
    BY <1>4, NowNat, MaintainCarries
  <1> HIDE DEF new
  <1>6. Written(new) \/ NotWritten(new)
    BY <1>2, <1>3, ServiceSaves
  <1>7. /\ StoreInv' /\ OnePlace' /\ mem' \in JobStore /\ file' \in JobStore
        /\ released' \subseteq Jobs /\ done' \subseteq OneShots
        /\ FaultsGrow /\ loaded' = TRUE
    BY <1>1, <1>3, <1>4, <1>5, <1>6, DropHolds
  <1>8. TypeOK' /\ Waits'
    BY <1>1, <1>7 DEF CronInv, TypeOK, Waits, FaultsGrow
  <1>9. CallersOwn' /\ TimerKept'
    BY <1>1, CallersKeptByService DEF TimerKept
  <1>10. QED
    BY <1>7, <1>8, <1>9 DEF CronInv, StoreInv

(***************************************************************************)
(* start()                                                                 *)
(***************************************************************************)
LEMMA MarkInterruptedKeeps ==
  ASSUME CronInv, MarkInterrupted
  PROVE  CronInv'
  <1> DEFINE jobs == Stored
             marked == {j \in Jobs : jobs[j] # Absent /\ jobs[j].running # 0}
             new == [j \in Jobs |-> IF j \in marked THEN Interrupted(j, jobs[j]) ELSE jobs[j]]
  <1>1. /\ boot = "off" /\ boot' \in {"plan", "failed"}
        /\ UNCHANGED <<now, timer, tick, todo, held, missed, deferred, exec, results,
                       manual, edits, crashes, added>>
        /\ Save(new, boot' = "plan")
        /\ interrupted' = marked
        /\ released' = released \cup (Busy \cap marked)
        /\ done' = done \ (Busy \cap marked)
    BY DEF MarkInterrupted, ticking, runs
  <1>2. Grounded(jobs) /\ TypeOK /\ Busy \subseteq Jobs
    BY GroundedStored, BusyJobs DEF CronInv
  <1>3. ASSUME NEW j \in Jobs
        PROVE  /\ new[j] \in {Absent} \cup JobRecords
               /\ jobs[j] = Absent => new[j] = Absent
               /\ Unmarked(new[j])
    <2>1. CASE j \in marked
      <3>1. jobs[j] \in JobRecords /\ new[j] = Interrupted(j, jobs[j])
        BY <1>2, <2>1 DEF Grounded, JobStore
      <3>2. QED
        BY <2>1, <3>1, InterruptedUnmarks
    <2>2. CASE j \notin marked
      BY <1>2, <2>2 DEF Grounded, JobStore, Unmarked
    <2>3. QED
      BY <2>1, <2>2
  <1>4. new \in JobStore
    BY <1>3 DEF JobStore
  <1>5. \A j \in Jobs \ marked : new[j] = jobs[j] /\ (Marked(jobs[j]) => jobs[j] = Absent)
    BY DEF Marked
  <1> HIDE DEF new
  <1>6. Written(new) \/ NotWritten(new)
    <2>1. CASE boot' = "plan"
      <3>1. Save(new, TRUE)
        BY <1>1, <2>1
      <3>2. QED
        BY <1>2, <3>1, ServiceSaves
    <2>2. CASE boot' # "plan"
      <3>1. Save(new, FALSE)
        BY <1>1, <2>2
      <3>2. QED
        BY <1>2, <3>1, ServiceSaves
    <2>3. QED
      BY <2>1, <2>2
  <1>7. /\ OnePlace' /\ Busy' = Busy
        /\ released \subseteq released' /\ released' \subseteq Jobs /\ done' \subseteq OneShots
    <2>1. /\ released \subseteq released' /\ released' \subseteq Jobs
          /\ done' \subseteq OneShots
      BY <1>1, <1>2 DEF TypeOK
    <2>2. QED
      BY <1>1, <2>1, QuietKeeps DEF QuietPlaces
  <1>8. \A j \in Busy' \ released' : Marked(new[j])
    <2> TAKE j \in Busy' \ released'
    <2>1. j \in Busy \ released /\ j \in Jobs \ marked
      BY <1>1, <1>2, <1>7
    <2>2. QED
      BY <1>2, <1>5, <2>1 DEF Grounded, Marked
  <1>9. \A j \in Jobs \ added' : new[j] = Absent /\ j \notin Busy'
    BY <1>1, <1>2, <1>3, <1>7 DEF Grounded, CronInv, Known
  <1>10. StoreInv' /\ mem' \in JobStore /\ file' \in JobStore
    BY <1>1, <1>3, <1>4, <1>6, <1>7, <1>8, <1>9, StoresHold
  <1>11. FaultsGrow /\ loaded' = TRUE
    BY <1>2, <1>6, FaultsKept DEF Written, NotWritten
  <1>12. interrupted' \subseteq Jobs
    BY <1>1
  <1> HIDE DEF marked
  <1>13. TypeOK' /\ Waits'
    BY <1>1, <1>7, <1>10, <1>11, <1>12 DEF CronInv, TypeOK, Waits, FaultsGrow
  <1>14. CallersOwn' /\ TimerKept'
    BY <1>1, CallersQuiet DEF TimerKept
  <1>15. QED
    BY <1>7, <1>10, <1>13, <1>14 DEF CronInv, StoreInv

LEMMA PlanCatchupKeeps ==
  ASSUME CronInv, PlanCatchup
  PROVE  CronInv'
  <1> DEFINE late == {j \in Jobs \ interrupted : IsMissed(j, mem[j])}
  <1>1. /\ boot = "plan" /\ interrupted' = {}
        /\ UNCHANGED <<now, timer, tick, todo, held, exec, results, manual, edits, crashes,
                       added, released, done>>
        /\ \/ /\ boot' = "arm"
              /\ UNCHANGED <<file, mem, loaded, missed, deferred, faults>>
           \/ \E first \in SUBSET (late \ Agents), ok \in BOOLEAN :
                /\ Save(Mark(mem, first), ok)
                /\ boot' = IF ok THEN "missed" ELSE "failed"
                /\ missed' = IF ok THEN first ELSE {}
                /\ deferred' = IF ok THEN late \ first ELSE {}
    BY DEF PlanCatchup, store, ticking, runs, history
  <1>2. /\ late \subseteq Jobs
        /\ \A j \in late : mem[j] # Absent /\ mem[j].running = 0
    BY DEF IsMissed, IsDue
  <1>3. TypeOK /\ Grounded(mem) /\ Busy \subseteq Jobs /\ missed = {}
    BY <1>1, GroundedMem, BusyJobs DEF CronInv, Waits
  <1> HIDE DEF late
  <1>4. CASE boot' = "arm" /\ UNCHANGED <<file, mem, loaded, missed, deferred, faults>>
    <2>1. Busy' = Busy
      BY <1>1, <1>4 DEF Busy
    <2>2. TypeOK' /\ Waits'
      BY <1>1, <1>4 DEF CronInv, TypeOK, Waits
    <2>3. Known' /\ MarkedWhileBusy' /\ NoneLeftBehind' /\ OnePlace'
      BY <1>1, <1>4, <2>1 DEF CronInv, Known, MarkedWhileBusy, NoneLeftBehind, OnePlace,
                              NothingFailed
    <2>4. CallersOwn' /\ TimerKept'
      BY <1>1, <1>4, CallersQuiet DEF TimerKept
    <2>5. QED
      BY <2>2, <2>3, <2>4 DEF CronInv
  <1>5. ASSUME NEW first \in SUBSET (late \ Agents), NEW ok \in BOOLEAN,
               Save(Mark(mem, first), ok),
               boot' = IF ok THEN "missed" ELSE "failed",
               missed' = IF ok THEN first ELSE {},
               deferred' = IF ok THEN late \ first ELSE {}
        PROVE  CronInv'
    <2> DEFINE new == Mark(mem, first)
    <2>1. /\ first \in SUBSET Jobs
          /\ \A j \in first : mem[j] # Absent /\ mem[j].running = 0
      BY <1>2
    <2>2. \A j \in first : j \in added /\ (j \in Busy => j \in released)
      BY <1>3, <2>1, UnmarkedFree DEF Grounded
    <2>3. /\ new \in JobStore
          /\ \A j \in first : Marked(new[j])
          /\ \A j \in Jobs \ first : new[j] = mem[j]
      BY <1>3, <2>1, NowNat, MarkKeeps DEF Grounded
    <2> HIDE DEF new
    <2>4. IF ok THEN Written(new) ELSE NotWritten(new)
      BY <1>3, <1>5, ServiceSaves DEF new
    <2>5. Busy' = Busy \cup missed' /\ missed' \subseteq first
      BY <1>1, <1>3, <1>5 DEF Busy
    <2>6. \A j \in Busy' \ released' : Marked(new[j])
      BY <1>1, <1>3, <2>3, <2>5 DEF Grounded
    <2>7. \A j \in Jobs \ added' : new[j] = Absent /\ j \notin Busy'
      BY <1>1, <1>3, <2>2, <2>3, <2>5 DEF Grounded, CronInv, Known
    <2>8. FaultsGrow /\ loaded' = TRUE
      BY <1>3, <2>4, FaultsKept DEF Written, NotWritten
    <2>9. Orderly => \A j \in Jobs \ Busy' : Unmarked(new[j])
      <3>1. CASE ok
        <4>1. missed' = first
          BY <1>5, <3>1
        <4>2. QED
          BY <1>1, <1>3, <2>3, <2>5, <2>8, <4>1 DEF Grounded, Orderly, FaultsGrow
      <3>2. CASE ~ok
        BY <2>4, <3>2 DEF NotWritten, Orderly
      <3>3. QED
        BY <3>1, <3>2
    <2>10. Written(new) \/ (NotWritten(new) /\ Busy' \ released' \subseteq Busy \ released)
      <3>1. CASE ok
        BY <2>4, <3>1
      <3>2. CASE ~ok
        BY <1>1, <1>5, <2>4, <2>5, <3>2
      <3>3. QED
        BY <3>1, <3>2
    <2>11. StoreInv' /\ mem' \in JobStore /\ file' \in JobStore
      BY <1>1, <2>3, <2>6, <2>7, <2>9, <2>10, StoresHold
    <2>12. OnePlace'
      BY <1>1, <1>3, <2>1, <2>2, <2>5 DEF CronInv, OnePlace, Busy
    <2>13. /\ missed' \subseteq Jobs /\ deferred' \subseteq Jobs
           /\ boot' \in {"missed", "failed"} /\ (boot' # "missed" => missed' = {})
      BY <1>2, <1>5, <2>1
    <2>14. TypeOK' /\ Waits'
      BY <1>1, <2>8, <2>11, <2>13 DEF CronInv, TypeOK, Waits, FaultsGrow
    <2>15. CallersOwn' /\ TimerKept'
      BY <1>1, <2>13, CallersQuiet DEF TimerKept
    <2>16. QED
      BY <2>11, <2>12, <2>14, <2>15 DEF CronInv, StoreInv
  <1>6. QED
    BY <1>1, <1>4, <1>5

LEMMA ApplyCatchupKeeps ==
  ASSUME CronInv, ApplyCatchup
  PROVE  CronInv'
  <1> DEFINE applied == AppliedAll(mem, "boot")
             jobs == [j \in Jobs |->
                        IF j \in deferred /\ applied[j] # Absent /\ applied[j].enabled
                        THEN [applied[j] EXCEPT !.next = now + Delay] ELSE applied[j]]
             new == Maintain(jobs, FALSE)
  <1>1. /\ boot = "missed" /\ missed = {}
        /\ boot' \in {"arm", "failed"} /\ deferred' = {}
        /\ results' = {x \in results : x.by # "boot"}
        /\ UNCHANGED <<now, timer, tick, todo, held, interrupted, missed, exec, manual,
                       edits, crashes, added>>
        /\ Save(new, boot' = "arm")
        /\ Release(jobs)
    BY DEF ApplyCatchup, ticking
  <1>2. Grounded(mem) /\ TypeOK /\ now \in Nat
    BY GroundedMem, NowNat DEF CronInv
  <1>3. /\ applied \in JobStore
        /\ \A j \in Jobs : mem[j] = Absent => applied[j] = Absent
        /\ \A j \in Jobs : Owns("boot", j) => Unmarked(applied[j])
        /\ \A j \in Jobs : ~Owns("boot", j) => applied[j] = mem[j]
    BY <1>2, AppliedAllIs DEF Grounded, Owns
  <1> HIDE DEF applied
  <1>4. ASSUME NEW j \in Jobs
        PROVE  /\ jobs[j] \in {Absent} \cup JobRecords
               /\ applied[j] = Absent => jobs[j] = Absent
               /\ Unmarked(applied[j]) => Unmarked(jobs[j])
               /\ Marked(applied[j]) => Marked(jobs[j])
    <2>1. CASE j \in deferred /\ applied[j] # Absent /\ applied[j].enabled
      <3>1. applied[j] \in JobRecords /\ jobs[j] = [applied[j] EXCEPT !.next = now + Delay]
        BY <1>3, <2>1 DEF JobStore
      <3>2. now + Delay \in Nat
        BY <1>2, CronAssumption
      <3>3. \A r \in JobRecords, n \in Nat : /\ [r EXCEPT !.next = n] \in JobRecords
                                             /\ [r EXCEPT !.next = n].running = r.running
        BY DEF JobRecords
      <3>4. jobs[j] \in JobRecords /\ jobs[j].running = applied[j].running
        BY <3>1, <3>2, <3>3
      <3>5. QED
        BY <2>1, <3>4 DEF Unmarked, Marked
    <2>2. CASE ~(j \in deferred /\ applied[j] # Absent /\ applied[j].enabled)
      BY <1>3, <2>2 DEF JobStore
    <2>3. QED
      BY <2>1, <2>2
  <1>5. jobs \in JobStore
    BY <1>4 DEF JobStore
  <1> HIDE DEF jobs
  <1>6. Carries(jobs, new)
    BY <1>5, NowNat, MaintainCarries
  <1> HIDE DEF new
  <1>7. Written(new) \/ NotWritten(new)
    <2>1. CASE boot' = "arm"
      <3>1. Save(new, TRUE)
        BY <1>1, <2>1
      <3>2. QED
        BY <1>2, <3>1, ServiceSaves
    <2>2. CASE boot' # "arm"
      <3>1. Save(new, FALSE)
        BY <1>1, <2>2
      <3>2. QED
        BY <1>2, <3>1, ServiceSaves
    <2>3. QED
      BY <2>1, <2>2
  <1>8. /\ StoreInv' /\ OnePlace' /\ mem' \in JobStore /\ file' \in JobStore
        /\ released' \subseteq Jobs /\ done' \subseteq OneShots
        /\ FaultsGrow /\ loaded' = TRUE
    <2>1. /\ \A j \in Jobs : mem[j] = Absent => jobs[j] = Absent
          /\ \A j \in Jobs : Owns("boot", j) => Unmarked(jobs[j])
          /\ \A j \in Jobs : ~Owns("boot", j) =>
               /\ Marked(mem[j]) => Marked(jobs[j])
               /\ Unmarked(mem[j]) => Unmarked(jobs[j])
      BY <1>3, <1>4
    <2>2. UNCHANGED <<todo, missed, exec, added>> /\ boot # "off"
      BY <1>1
    <2>3. QED
      BY <1>1, <1>2, <1>5, <1>6, <1>7, <2>1, <2>2, DropHolds
  <1>9. TypeOK' /\ Waits'
    BY <1>1, <1>8 DEF CronInv, TypeOK, Waits, FaultsGrow
  <1>10. CallersOwn' /\ TimerKept'
    BY <1>1, CallersKeptByService DEF TimerKept
  <1>11. QED
    BY <1>8, <1>9, <1>10 DEF CronInv, StoreInv

LEMMA StartTimerKeeps ==
  ASSUME CronInv, StartTimer
  PROVE  CronInv'
  <1> DEFINE new == Maintain(mem, TRUE)
  <1>1. /\ boot = "arm" /\ boot' \in {"up", "failed"}
        /\ UNCHANGED <<now, tick, todo, held, interrupted, missed, deferred, exec, results,
                       manual, edits, crashes, added>>
        /\ SaveChanged(new, mem, boot' = "up")
        /\ Release(mem)
    BY DEF StartTimer, ticking, runs
  <1>2. Grounded(mem) /\ TypeOK
    BY GroundedMem DEF CronInv
  <1>3. Carries(mem, new)
    BY <1>2, NowNat, MaintainCarries DEF Grounded
  <1> HIDE DEF new
  <1>4. Written(new) \/ NotWritten(new) \/ NothingToWrite(new)
    <2>1. CASE boot' = "up"
      <3>1. SaveChanged(new, mem, TRUE)
        BY <1>1, <2>1
      <3>2. QED
        BY <1>2, <3>1, ChangesSaved
    <2>2. CASE boot' # "up"
      <3>1. SaveChanged(new, mem, FALSE)
        BY <1>1, <2>2
      <3>2. QED
        BY <1>2, <3>1, ChangesSaved
    <2>3. QED
      BY <2>1, <2>2
  <1>5. /\ StoreInv' /\ OnePlace' /\ mem' \in JobStore /\ file' \in JobStore
        /\ released' \subseteq Jobs /\ done' \subseteq OneShots
        /\ FaultsGrow /\ loaded' = TRUE
    BY <1>1, <1>2, <1>3, <1>4, CarryHolds DEF QuietPlaces
  <1>6. timer' \in BOOLEAN /\ TimerKept'
    <2>1. CASE boot' = "up"
      <3>1. timer' = Armed(mem')
        BY <2>1 DEF StartTimer
      <3>2. timer' \in BOOLEAN
        BY <3>1 DEF Armed
      <3>3. Armed(mem)' <=> Armed(mem')
        BY DEF Armed
      <3>4. QED
        BY <3>1, <3>2, <3>3 DEF TimerKept
    <2>2. CASE boot' # "up"
      BY <1>2, <2>2 DEF StartTimer, TypeOK, TimerKept
    <2>3. QED
      BY <2>1, <2>2
  <1>7. TypeOK' /\ Waits'
    BY <1>1, <1>5, <1>6 DEF CronInv, TypeOK, Waits, FaultsGrow
  <1>8. CallersOwn'
    BY <1>1, CallersQuiet
  <1>9. QED
    BY <1>5, <1>6, <1>7, <1>8 DEF CronInv, StoreInv

(***************************************************************************)
(* Users                                                                   *)
(***************************************************************************)
LEMMA CarriedTwice ==
  ASSUME NEW r, NEW s, NEW t, Carried(r, s), Carried(s, t)
  PROVE  Carried(r, t)
  <1>1. CASE r = Absent
    BY <1>1 DEF Carried
  <1>2. CASE r # Absent
    <2>1. /\ s \in JobRecords /\ s # Absent /\ s.enabled = r.enabled
          /\ s.running = r.running \/ (s.running = 0 /\ Clears(r))
      BY <1>2, RecordAssumption DEF Carried
    <2>2. /\ t \in JobRecords /\ t.enabled = s.enabled
          /\ t.running = s.running \/ (t.running = 0 /\ Clears(s))
      BY <2>1 DEF Carried
    <2>3. s.running = r.running => (Clears(s) <=> Clears(r))
      BY <2>1 DEF Clears, Stuck
    <2>4. QED
      BY <1>2, <2>1, <2>2, <2>3 DEF Carried
  <1>3. QED
    BY <1>1, <1>2

LEMMA CarriedSame ==
  ASSUME NEW r \in {Absent} \cup JobRecords
  PROVE  Carried(r, r)
  BY DEF Carried

\* Add and remove begin with the jobs of the file recomputed, if they have not
\* been read.
LEMMA StoredCarries ==
  ASSUME CronInv
  PROVE  Carries(Stored, StoredRecomputed)
  <1>1. mem \in JobStore /\ file \in JobStore /\ now \in Nat
    BY NowNat DEF CronInv, TypeOK
  <1>2. CASE loaded
    <2>1. \A j \in Jobs : Carried(mem[j], mem[j])
      BY <1>1, CarriedSame DEF JobStore
    <2>2. QED
      BY <1>1, <1>2, <2>1 DEF Stored, StoredRecomputed, Carries
  <1>3. CASE ~loaded
    BY <1>1, <1>3, RecomputeCarries DEF Stored, StoredRecomputed
  <1>4. QED
    BY <1>2, <1>3

\* A user's section that was saved has set the timer anew.
LEMMA UserTimer ==
  ASSUME CronInv, NEW new, NEW ok \in BOOLEAN,
         IF ok THEN Written(new) ELSE NotWritten(new) /\ faults'["user"] # 0,
         timer' = IF ok THEN Armed(new) ELSE timer
  PROVE  timer' \in BOOLEAN /\ TimerKept' /\ FaultsGrow /\ loaded' = TRUE
  <1>1. CASE ok = TRUE
    <2>1. Written(new) /\ timer' = Armed(new)
      BY <1>1
    <2>2. timer' \in BOOLEAN
      BY <2>1 DEF Armed
    <2>3. Armed(mem)' <=> Armed(new)
      BY <2>1 DEF Armed, Written
    <2>4. UNCHANGED faults /\ loaded' = TRUE
      BY <2>1 DEF Written
    <2>5. QED
      BY <2>1, <2>2, <2>3, <2>4, FaultsKept DEF TimerKept, CronInv
  <1>2. CASE ok = FALSE
    <2>1. NotWritten(new) /\ faults'["user"] # 0 /\ timer' = timer
      BY <1>2
    <2>2. QED
      BY <2>1 DEF NotWritten, TimerKept, CronInv, TypeOK
  <1>3. QED
    BY <1>1, <1>2

LEMMA AddKeeps ==
  ASSUME CronInv, NEW j \in Jobs, NEW at \in Times(j), Add(j, at)
  PROVE  CronInv'
  <1> DEFINE old == Stored
             mid == [StoredRecomputed EXCEPT ![j] = NewJob(j, at)]
             new == RecomputeNextRuns(mid)
  <1>1. /\ edits' = edits + 1
        /\ j \notin added /\ added' = added \cup {j}
        /\ Release(old)
        /\ UNCHANGED <<now, tick, todo, held, boot, interrupted, missed, deferred, exec,
                       results, manual, crashes>>
    BY DEF Add, Edit, ticking, booting, runs
  <1>2. PICK ok \in BOOLEAN : /\ SaveFor("user", new, ok)
                              /\ timer' = IF ok THEN Armed(new) ELSE timer
    BY DEF Add
  <1>3. Grounded(old) /\ TypeOK /\ Busy \subseteq Jobs /\ Known /\ now \in Nat
    BY GroundedStored, BusyJobs, NowNat DEF CronInv
  <1>4. Carries(old, StoredRecomputed)
    BY StoredCarries
  <1>5. NewJob(j, at) \in JobRecords /\ Unmarked(NewJob(j, at))
    BY <1>3, NewJobTyped
  <1>6. /\ mid \in JobStore /\ mid[j] = NewJob(j, at)
        /\ \A i \in Jobs \ {j} : mid[i] = StoredRecomputed[i]
    BY <1>4, <1>5 DEF Carries, JobStore
  <1> HIDE DEF mid
  <1>7. Carries(mid, new)
    BY <1>3, <1>6, RecomputeCarries
  <1> HIDE DEF new, old
  <1>8. \A i \in Jobs \ {j} : Carried(old[i], new[i])
    BY <1>4, <1>6, <1>7, CarriedTwice DEF Carries
  <1>9. new \in JobStore /\ Unmarked(new[j])
    BY <1>5, <1>6, <1>7, RecordAssumption DEF Carries, Carried, Unmarked
  <1>10. IF ok THEN Written(new) ELSE NotWritten(new) /\ faults'["user"] # 0
    BY <1>2, <1>3, UserSaves
  <1>11. timer' \in BOOLEAN /\ TimerKept' /\ FaultsGrow /\ loaded' = TRUE
    BY <1>2, <1>10, UserTimer
  <1>12. /\ released \subseteq released' /\ released' \subseteq Jobs
         /\ done' \subseteq OneShots
    BY <1>1, <1>3, ReleaseGrows
  <1>13. OnePlace' /\ Busy' = Busy /\ j \notin Busy
    BY <1>1, <1>3, <1>12, QuietKeeps DEF QuietPlaces, Known
  <1>14. \A i \in Jobs \ {j} : /\ i \in Busy \ released' /\ Marked(old[i]) => Marked(new[i])
                               /\ Unmarked(old[i]) => Unmarked(new[i])
                               /\ new[i] = Absent <=> old[i] = Absent
    BY <1>1, <1>3, <1>8, CarriedMark DEF Grounded
  <1>15. \A i \in Busy' \ released' : Marked(new[i])
    BY <1>3, <1>12, <1>13, <1>14 DEF Grounded
  <1>16. \A i \in Jobs \ added' : new[i] = Absent /\ i \notin Busy'
    BY <1>1, <1>3, <1>13, <1>14 DEF Grounded, Known
  <1>17. Orderly => \A i \in Jobs \ Busy' : Unmarked(new[i])
    BY <1>1, <1>3, <1>9, <1>11, <1>13, <1>14 DEF Grounded, Orderly, FaultsGrow
  <1>18. Written(new) \/ (NotWritten(new) /\ Busy' \ released' \subseteq Busy \ released)
    BY <1>10, <1>12, <1>13
  <1>19. StoreInv' /\ mem' \in JobStore /\ file' \in JobStore
    BY <1>1, <1>9, <1>15, <1>16, <1>17, <1>18, StoresHold
  <1>20. TypeOK' /\ Waits'
    BY <1>1, <1>11, <1>12, <1>19 DEF CronInv, TypeOK, Waits, FaultsGrow
  <1>21. CallersOwn'
    BY <1>1, CallersQuiet
  <1>22. QED
    BY <1>11, <1>13, <1>19, <1>20, <1>21 DEF CronInv, StoreInv

LEMMA UpdateKeeps ==
  ASSUME CronInv, NEW j \in Jobs, NEW patch \in Patches, NEW at \in Times(j),
         Update(j, patch, at)
  PROVE  CronInv'
  <1> DEFINE old == Stored
             new == [old EXCEPT ![j] = Patched(j, old[j], patch, at)]
  <1>1. /\ edits' = edits + 1
        /\ old[j] # Absent
        /\ released' = IF j \in Busy /\ new[j].running = 0 THEN released \cup {j} ELSE released
        /\ done' = IF patch = "other" THEN done ELSE done \ {j}
        /\ held' = held \ {j}
        /\ UNCHANGED <<now, tick, todo, boot, interrupted, missed, deferred, exec,
                       results, manual, crashes, added>>
    BY DEF Update, Edit, booting, runs
  <1>2. PICK ok \in BOOLEAN : /\ SaveFor("user", new, ok)
                              /\ timer' = IF ok THEN Armed(new) ELSE timer
    BY DEF Update
  <1>3. Grounded(old) /\ TypeOK /\ Busy \subseteq Jobs /\ Known /\ now \in Nat
    BY GroundedStored, BusyJobs, NowNat DEF CronInv
  <1>4. old[j] \in JobRecords
    BY <1>1, <1>3 DEF Grounded, JobStore
  <1>5. /\ Patched(j, old[j], patch, at) \in JobRecords
        /\ Patched(j, old[j], patch, at).running \in {old[j].running, 0}
    BY <1>3, <1>4, PatchedKeeps
  <1>6. /\ new \in JobStore /\ new[j] \in JobRecords
        /\ new[j].running \in {old[j].running, 0}
        /\ \A i \in Jobs \ {j} : new[i] = old[i]
    BY <1>3, <1>5 DEF Grounded, JobStore
  <1> HIDE DEF new, old
  <1>7. IF ok THEN Written(new) ELSE NotWritten(new) /\ faults'["user"] # 0
    BY <1>2, <1>3, UserSaves
  <1>8. timer' \in BOOLEAN /\ TimerKept' /\ FaultsGrow /\ loaded' = TRUE
    BY <1>2, <1>7, UserTimer
  <1>9. /\ released \subseteq released' /\ released' \subseteq Jobs
        /\ done' \subseteq OneShots
    BY <1>1, <1>3 DEF TypeOK
  <1>10. OnePlace' /\ Busy' = Busy
    BY <1>1, <1>9, QuietKeeps DEF QuietPlaces
  <1>11. \A i \in Busy' \ released' : Marked(new[i])
    BY <1>1, <1>3, <1>6, <1>9, <1>10 DEF Grounded, Marked
  <1>12. j \in added
    BY <1>1, <1>3 DEF Grounded
  <1>13. \A i \in Jobs \ added' : new[i] = Absent /\ i \notin Busy'
    BY <1>1, <1>3, <1>6, <1>10, <1>12 DEF Grounded, Known
  <1>14. Orderly => \A i \in Jobs \ Busy' : Unmarked(new[i])
    BY <1>1, <1>3, <1>6, <1>8, <1>10 DEF Grounded, Orderly, FaultsGrow, Unmarked
  <1>15. Written(new) \/ (NotWritten(new) /\ Busy' \ released' \subseteq Busy \ released)
    BY <1>7, <1>9, <1>10
  <1>16. StoreInv' /\ mem' \in JobStore /\ file' \in JobStore
    BY <1>1, <1>6, <1>11, <1>13, <1>14, <1>15, StoresHold
  <1>17. TypeOK' /\ Waits'
    BY <1>1, <1>8, <1>9, <1>16 DEF CronInv, TypeOK, Waits, FaultsGrow
  <1>18. CallersOwn'
    BY <1>1, CallersQuiet
  <1>19. QED
    BY <1>8, <1>10, <1>16, <1>17, <1>18 DEF CronInv, StoreInv

LEMMA RemoveKeeps ==
  ASSUME CronInv, NEW j \in Jobs, Remove(j)
  PROVE  CronInv'
  <1> DEFINE old == Stored
             new == [StoredRecomputed EXCEPT ![j] = Absent]
  <1>1. /\ edits' = edits + 1
        /\ IF loaded THEN UNCHANGED <<released, done>> ELSE Release(file)
        /\ UNCHANGED <<now, tick, todo, held, boot, interrupted, missed, deferred, exec,
                       results, manual, crashes, added>>
    BY DEF Remove, Edit, ticking, booting, runs
  <1>2. PICK ok \in BOOLEAN : /\ SaveFor("user", new, ok)
                              /\ timer' = IF ok THEN Armed(mem') ELSE timer
    BY DEF Remove
  <1>3. Grounded(old) /\ TypeOK /\ Busy \subseteq Jobs /\ Known
    BY GroundedStored, BusyJobs DEF CronInv
  <1>4. Carries(old, StoredRecomputed)
    BY StoredCarries
  <1>5. /\ new \in JobStore /\ new[j] = Absent
        /\ \A i \in Jobs \ {j} : new[i] = StoredRecomputed[i]
    BY <1>4 DEF Carries, JobStore
  <1>6. /\ released \subseteq released' /\ released' \subseteq Jobs
        /\ done' \subseteq OneShots
    BY <1>1, <1>3, ReleaseGrows DEF TypeOK
  <1>7. \A i \in Jobs \ {j} : /\ i \in Busy \ released' /\ Marked(old[i]) => Marked(new[i])
                              /\ Unmarked(old[i]) => Unmarked(new[i])
                              /\ new[i] = Absent <=> old[i] = Absent
    <2>1. CASE loaded
      BY <1>5, <2>1 DEF Stored, StoredRecomputed
    <2>2. CASE ~loaded
      <3>1. Release(old) /\ old \in JobStore
        BY <1>1, <1>3, <2>2 DEF Stored, Grounded
      <3>2. \A i \in Jobs : Carried(old[i], StoredRecomputed[i])
        BY <1>4 DEF Carries
      <3> HIDE DEF old, new
      <3>3. QED
        BY <1>5, <3>1, <3>2, CarriedMark
    <2>3. QED
      BY <2>1, <2>2
  <1> HIDE DEF new, old
  <1>8. IF ok THEN Written(new) ELSE NotWritten(new) /\ faults'["user"] # 0
    BY <1>2, <1>3, UserSaves
  <1>9. timer' \in BOOLEAN /\ TimerKept' /\ FaultsGrow /\ loaded' = TRUE
    <2>1. mem' = new
      BY <1>8 DEF Written, NotWritten
    <2>2. timer' = IF ok THEN Armed(new) ELSE timer
      BY <1>2, <2>1
    <2>3. QED
      BY <1>8, <2>2, UserTimer
  <1>10. OnePlace' /\ Busy' = Busy
    BY <1>1, <1>6, QuietKeeps DEF QuietPlaces
  <1>11. \A i \in Busy' \ released' : Marked(new[i])
    BY <1>3, <1>5, <1>6, <1>7, <1>10 DEF Grounded, Marked
  <1>12. \A i \in Jobs \ added' : new[i] = Absent /\ i \notin Busy'
    BY <1>1, <1>3, <1>5, <1>7, <1>10 DEF Grounded, Known
  <1>13. Orderly => \A i \in Jobs \ Busy' : Unmarked(new[i])
    BY <1>1, <1>3, <1>5, <1>7, <1>9, <1>10 DEF Grounded, Orderly, FaultsGrow, Unmarked
  <1>14. Written(new) \/ (NotWritten(new) /\ Busy' \ released' \subseteq Busy \ released)
    BY <1>6, <1>8, <1>10
  <1>15. StoreInv' /\ mem' \in JobStore /\ file' \in JobStore
    BY <1>1, <1>5, <1>11, <1>12, <1>13, <1>14, StoresHold
  <1>16. TypeOK' /\ Waits'
    BY <1>1, <1>6, <1>9, <1>15 DEF CronInv, TypeOK, Waits, FaultsGrow
  <1>17. CallersOwn'
    BY <1>1, CallersQuiet
  <1>18. QED
    BY <1>9, <1>10, <1>15, <1>16, <1>17 DEF CronInv, StoreInv

(***************************************************************************)
(* Manual runs                                                             *)
(***************************************************************************)
ManualRecords == [pc : {"idle", "reserve", "run", "finish"}, job : {Absent} \cup Jobs,
                  force : BOOLEAN, started : Nat]

LEMMA ManualTyped ==
  ASSUME CronInv, NEW m \in Manuals
  PROVE  /\ manual \in [Manuals -> ManualRecords]
         /\ IdleManual \in ManualRecords /\ IdleManual.pc = "idle"
         /\ [manual[m] EXCEPT !.pc = "run"] \in ManualRecords
  <1>1. manual \in [Manuals -> ManualRecords] /\ manual[m] \in ManualRecords
    BY DEF CronInv, TypeOK, ManualRecords
  <1>2. [manual[m] EXCEPT !.pc = "run"] \in ManualRecords
    BY <1>1 DEF ManualRecords
  <1>3. IdleManual \in ManualRecords /\ IdleManual.pc = "idle"
    BY DEF IdleManual, ManualRecords
  <1>4. QED
    BY <1>1, <1>2, <1>3

\* A caller that ends leaves no run and no result behind.
LEMMA CallerEnds ==
  ASSUME CronInv, NEW m \in Manuals, UNCHANGED exec,
         manual' = [manual EXCEPT ![m] = IdleManual], manual[m].pc \in {"reserve", "finish"},
         results' = {x \in results : x.by # m}
  PROVE  CallersOwn' /\ manual' \in [Manuals -> ManualRecords]
  <1>1. /\ manual'[m].pc = "idle"
        /\ \A n \in Manuals \ {m} : manual'[n] = manual[n]
        /\ manual' \in [Manuals -> ManualRecords]
    BY ManualTyped
  <1>2. \A x \in exec : x.by # m
    BY DEF CronInv, CallersOwn
  <1>3. QED
    BY <1>1, <1>2 DEF CronInv, CallersOwn

LEMMA ReserveRefused ==
  ASSUME CronInv, NEW m \in Manuals, manual[m].pc = "reserve",
         manual' = [manual EXCEPT ![m] = IdleManual],
         UNCHANGED <<now, file, mem, loaded, timer, tick, todo, held, boot, interrupted,
                     missed, deferred, exec, results, edits, faults, crashes, added,
                     released, done>>
  PROVE  CronInv'
  <1>1. results' = {x \in results : x.by # m}
    BY DEF CronInv, CallersOwn
  <1>2. CallersOwn' /\ manual' \in [Manuals -> ManualRecords]
    BY <1>1, CallerEnds
  <1>3. TypeOK' /\ Waits'
    BY <1>2 DEF CronInv, TypeOK, Waits, ManualRecords
  <1>4. Busy' = Busy
    BY DEF Busy
  <1>5. Known' /\ OnePlace' /\ MarkedWhileBusy' /\ NoneLeftBehind'
    BY <1>4 DEF CronInv, Known, OnePlace, MarkedWhileBusy, NoneLeftBehind, NothingFailed
  <1>6. TimerKept'
    <2>1. Armed(mem)' <=> Armed(mem)
      BY DEF Armed
    <2>2. QED
      BY <2>1 DEF CronInv, TimerKept
  <1>7. QED
    BY <1>2, <1>3, <1>5, <1>6 DEF CronInv

\* The job is marked in memory and, if the write succeeds, on disk.
MarkedAt(j, t) == [mem EXCEPT ![j].running = t]

LEMMA ReserveMarks ==
  ASSUME CronInv, NEW j \in Jobs, NEW t \in Nat \ {0}, mem[j] # Absent
  PROVE  /\ MarkedAt(j, t) \in JobStore
         /\ Marked(MarkedAt(j, t)[j]) /\ MarkedAt(j, t)[j] # Absent
         /\ \A i \in Jobs \ {j} : MarkedAt(j, t)[i] = mem[i]
         /\ Armed(MarkedAt(j, t)) <=> Armed(mem)
  <1> DEFINE new == MarkedAt(j, t)
  <1>1. mem \in JobStore /\ mem[j] \in JobRecords
    BY DEF CronInv, TypeOK, JobStore
  <1>2. /\ new[j] = [mem[j] EXCEPT !.running = t]
        /\ \A i \in Jobs \ {j} : new[i] = mem[i]
        /\ new = [i \in Jobs |-> new[i]]
    BY <1>1 DEF JobStore, MarkedAt
  <1> HIDE DEF new
  <1>3. /\ new[j] \in JobRecords /\ new[j].running = t
        /\ new[j].enabled = mem[j].enabled
    BY <1>1, <1>2 DEF JobRecords
  <1>4. new \in JobStore
    BY <1>1, <1>2, <1>3 DEF JobStore
  <1>5. new[j] # Absent
    BY <1>3, RecordAssumption
  <1>6. QED
    BY <1>2, <1>3, <1>4, <1>5 DEF Marked, Armed, new

LEMMA ReserveTakes ==
  ASSUME CronInv, NEW m \in Manuals, manual[m].pc = "reserve", NEW j, j = manual[m].job,
         mem[j] # Absent, mem[j].running = 0,
         NEW new, new = MarkedAt(j, manual[m].started),
         Written(new), manual' = [manual EXCEPT ![m].pc = "run"],
         exec' = exec \cup {[by |-> m, job |-> j, started |-> manual[m].started]},
         UNCHANGED <<now, timer, tick, todo, held, boot, interrupted, missed, deferred,
                     results, edits, crashes, added, released, done>>
  PROVE  CronInv'
  <1> DEFINE x == [by |-> m, job |-> j, started |-> manual[m].started]
  <1>1. j \in Jobs /\ manual[m].started \in Nat \ {0}
    BY DEF CronInv, CallersOwn
  <1>2. /\ x \in Run /\ x.by = m /\ x.job = j /\ x.started = manual[m].started
        /\ exec' = exec \cup {x}
    BY <1>1 DEF Run, Runners
  <1> HIDE DEF x
  <1>3. /\ new \in JobStore /\ Marked(new[j]) /\ new[j] # Absent
        /\ \A i \in Jobs \ {j} : new[i] = mem[i]
        /\ Armed(new) <=> Armed(mem)
    BY <1>1, ReserveMarks
  <1>4. Grounded(mem) /\ TypeOK /\ Busy \subseteq Jobs /\ Known
    BY GroundedMem, BusyJobs DEF CronInv
  <1>5. j \in added /\ (j \in Busy => j \in released)
    BY <1>1, <1>4, UnmarkedFree DEF Grounded
  <1>6. Busy' = Busy \cup {j}
    <2>1. {y.job : y \in exec \cup results}' = {y.job : y \in exec \cup results} \cup {j}
      BY <1>2
    <2>2. QED
      BY <2>1 DEF Busy
  <1>7. \A i \in Busy' \ released' : Marked(new[i])
    BY <1>3, <1>4, <1>6 DEF Grounded
  <1>8. \A i \in Jobs \ added' : new[i] = Absent /\ i \notin Busy'
    BY <1>3, <1>4, <1>5, <1>6 DEF Grounded, Known
  <1>9. FaultsGrow /\ UNCHANGED faults /\ loaded' = TRUE /\ mem' = new
    BY <1>4, FaultsKept DEF Written
  <1>10. Orderly => \A i \in Jobs \ Busy' : Unmarked(new[i])
    BY <1>3, <1>4, <1>6, <1>9 DEF Grounded, Orderly, FaultsGrow
  <1>11. StoreInv' /\ mem' \in JobStore /\ file' \in JobStore
    BY <1>3, <1>7, <1>8, <1>10, StoresHold
  <1>12. OnePlace'
    BY <1>2, <1>5 DEF CronInv, OnePlace, Busy
  <1>13. /\ manual' \in [Manuals -> ManualRecords]
         /\ manual'[m].pc = "run" /\ manual'[m].job = j
         /\ manual'[m].started = manual[m].started
         /\ \A n \in Manuals \ {m} : manual'[n] = manual[n]
    <2>1. manual \in [Manuals -> ManualRecords] /\ manual[m] \in ManualRecords
      BY ManualTyped
    <2>2. manual'[m] = [manual[m] EXCEPT !.pc = "run"]
      BY <2>1
    <2>3. manual'[m] \in ManualRecords
      BY <2>2, ManualTyped
    <2>4. QED
      BY <2>1, <2>2, <2>3 DEF ManualRecords
  <1>14. TypeOK' /\ Waits'
    BY <1>2, <1>9, <1>11, <1>13 DEF CronInv, TypeOK, Waits, ManualRecords, FaultsGrow
  <1>15. CallersOwn'
    BY <1>1, <1>2, <1>13 DEF CronInv, CallersOwn
  <1>16. TimerKept'
    <2>1. Armed(mem)' <=> Armed(new)
      BY <1>9 DEF Armed
    <2>2. QED
      BY <1>3, <1>9, <2>1 DEF CronInv, TimerKept
  <1>17. QED
    BY <1>11, <1>12, <1>14, <1>15, <1>16 DEF CronInv, StoreInv

LEMMA ReserveFails ==
  ASSUME CronInv, NEW m \in Manuals, manual[m].pc = "reserve", NEW j, j = manual[m].job,
         mem[j] # Absent, mem[j].running = 0,
         NEW new, new = MarkedAt(j, manual[m].started),
         NotWritten(new), faults'["user"] # 0,
         manual' = [manual EXCEPT ![m] = IdleManual],
         UNCHANGED <<now, timer, tick, todo, held, boot, interrupted, missed, deferred,
                     exec, results, edits, crashes, added, released, done>>
  PROVE  CronInv'
  <1>1. j \in Jobs /\ manual[m].started \in Nat \ {0}
    BY DEF CronInv, CallersOwn
  <1>2. /\ new \in JobStore /\ Marked(new[j]) /\ new[j] # Absent
        /\ \A i \in Jobs \ {j} : new[i] = mem[i]
    BY <1>1, ReserveMarks
  <1>3. Grounded(mem) /\ TypeOK /\ Busy \subseteq Jobs /\ Known
    BY GroundedMem, BusyJobs DEF CronInv
  <1>4. j \in added
    BY <1>1, <1>3 DEF Grounded
  <1>5. OnePlace' /\ Busy' = Busy
    BY QuietKeeps DEF QuietPlaces
  <1>6. \A i \in Busy' \ released' : Marked(new[i])
    BY <1>2, <1>3, <1>5 DEF Grounded
  <1>7. \A i \in Jobs \ added' : new[i] = Absent /\ i \notin Busy'
    BY <1>2, <1>3, <1>4, <1>5 DEF Grounded, Known
  <1>8. ~Orderly /\ FaultsGrow /\ loaded' = TRUE
    BY DEF NotWritten, Orderly
  <1>9. StoreInv' /\ mem' \in JobStore /\ file' \in JobStore
    BY <1>2, <1>5, <1>6, <1>7, <1>8, StoresHold
  <1>10. results' = {x \in results : x.by # m}
    BY DEF CronInv, CallersOwn
  <1>11. CallersOwn' /\ manual' \in [Manuals -> ManualRecords]
    BY <1>10, CallerEnds
  <1>12. TypeOK' /\ Waits'
    BY <1>8, <1>9, <1>11 DEF CronInv, TypeOK, Waits, ManualRecords, FaultsGrow
  <1>13. TimerKept'
    BY DEF TimerKept
  <1>14. QED
    BY <1>5, <1>9, <1>11, <1>12, <1>13 DEF CronInv, StoreInv

LEMMA ReserveKeeps ==
  ASSUME CronInv, NEW m \in Manuals, Reserve(m)
  PROVE  CronInv'
  <1> DEFINE j == manual[m].job
             new == [mem EXCEPT ![j].running = manual[m].started]
  <1>1. /\ manual[m].pc = "reserve"
        /\ UNCHANGED <<now, timer, tick, todo, held, boot, interrupted, missed, deferred,
                       results, edits, crashes, added, released, done>>
    BY DEF Reserve, ticking, booting, history
  <1>2. CASE mem[j] = Absent \/ mem[j].running # 0
    <2>1. /\ manual' = [manual EXCEPT ![m] = IdleManual]
          /\ UNCHANGED <<file, mem, loaded, exec, faults>>
      BY <1>2 DEF Reserve, store
    <2>2. QED
      BY <1>1, <2>1, ReserveRefused
  <1>3. CASE ~(mem[j] = Absent \/ mem[j].running # 0)
    <2>1. PICK ok \in BOOLEAN :
            /\ SaveFor("user", new, ok)
            /\ manual' = IF ok THEN [manual EXCEPT ![m].pc = "run"]
                         ELSE [manual EXCEPT ![m] = IdleManual]
            /\ exec' = IF ok THEN exec \cup {[by |-> m, job |-> j,
                                             started |-> manual[m].started]}
                       ELSE exec
      BY <1>3 DEF Reserve
    <2> HIDE DEF new, j
    <2>2. IF ok THEN Written(new) ELSE NotWritten(new) /\ faults'["user"] # 0
      BY <2>1, UserSaves DEF CronInv
    <2>3. /\ new = MarkedAt(j, manual[m].started) /\ j = manual[m].job
          /\ mem[j] # Absent /\ mem[j].running = 0
      BY <1>3 DEF MarkedAt, new, j
    <2>4. CASE ok = TRUE
      BY <1>1, <2>1, <2>2, <2>3, <2>4, ReserveTakes
    <2>5. CASE ok = FALSE
      BY <1>1, <2>1, <2>2, <2>3, <2>5, ReserveFails
    <2>6. QED
      BY <2>4, <2>5
  <1>4. QED
    BY <1>2, <1>3

\* The result a caller applies is that of its own job, and its only one.
LEMMA CallerResult ==
  ASSUME CronInv, NEW m \in Manuals, manual[m].pc = "finish",
         NEW x, x = CHOOSE y \in results : y.by = m
  PROVE  /\ x \in Result /\ x \in results /\ x.by = m
         /\ \A i \in Jobs : Owns(m, i) <=> i = manual[m].job
         /\ manual[m].job \in Jobs
  <1>1. \E y \in results : y.by = m
    BY DEF CronInv, CallersOwn
  <1>2. x \in results /\ x.by = m
    BY <1>1
  <1>3. \A y \in results : y.by = m => y.job = manual[m].job
    BY DEF CronInv, CallersOwn
  <1>4. manual[m].job \in Jobs /\ x \in Result
    BY <1>2 DEF CronInv, CallersOwn, TypeOK
  <1>5. QED
    BY <1>2, <1>3, <1>4 DEF Owns

\* The job was removed while it ran: its result is dropped.
LEMMA FinishDropped ==
  ASSUME CronInv, NEW m \in Manuals, manual[m].pc = "finish", mem[manual[m].job] = Absent,
         results' = {y \in results : y.by # m},
         manual' = [manual EXCEPT ![m] = IdleManual],
         UNCHANGED <<now, file, mem, loaded, timer, tick, todo, held, boot, interrupted,
                     missed, deferred, exec, edits, faults, crashes, added, released, done>>
  PROVE  CronInv'
  <1> DEFINE j == manual[m].job
  <1>1. CallersOwn' /\ manual' \in [Manuals -> ManualRecords]
    BY CallerEnds
  <1>2. TypeOK' /\ Waits'
    BY <1>1 DEF CronInv, TypeOK, Waits, ManualRecords
  <1>3. results' \subseteq results
    OBVIOUS
  <1>4. Busy' \subseteq Busy
    BY <1>3 DEF Busy
  <1>5. \A i \in Busy \ Busy' : i = j
    <2>1. \A y \in results \ results' : y.job = j
      BY DEF CronInv, CallersOwn
    <2>2. QED
      BY <2>1 DEF Busy
  <1>6. Known' /\ MarkedWhileBusy'
    BY <1>4 DEF CronInv, Known, MarkedWhileBusy
  <1>7. OnePlace'
    BY <1>3 DEF CronInv, OnePlace
  <1>8. NoneLeftBehind'
    <2>1. SUFFICES ASSUME NothingFailed, boot # "off"
                   PROVE  /\ \A i \in Jobs \ Busy' : Unmarked(mem[i]) /\ Unmarked(file[i])
                          /\ \A i \in Jobs : mem[i] = Absent => file[i] = Absent
      BY DEF NoneLeftBehind, NothingFailed
    <2>2. /\ \A i \in Jobs \ Busy : Unmarked(mem[i]) /\ Unmarked(file[i])
          /\ \A i \in Jobs : mem[i] = Absent => file[i] = Absent
      BY <2>1 DEF CronInv, NoneLeftBehind
    <2>3. j \in Jobs
      BY DEF CronInv, CallersOwn
    <2>4. Unmarked(mem[j]) /\ Unmarked(file[j])
      BY <2>2, <2>3 DEF Unmarked
    <2>5. QED
      BY <1>5, <2>2, <2>4
  <1>9. TimerKept'
    <2>1. Armed(mem)' <=> Armed(mem)
      BY DEF Armed
    <2>2. QED
      BY <2>1 DEF CronInv, TimerKept
  <1>10. QED
    BY <1>1, <1>2, <1>6, <1>7, <1>8, <1>9 DEF CronInv

\* What the end of a manual run makes of the store it has read again.
Merged(j, outcome) ==
  [i \in Jobs |-> IF i # j THEN Reloaded[i]
                  ELSE IF outcome = Absent \/ file[j] = Absent THEN Absent
                  ELSE [outcome EXCEPT !.at = file[j].at]]

LEMMA MergedUnmarks ==
  ASSUME CronInv, NEW j \in Jobs, NEW outcome \in {Absent} \cup JobRecords,
         Unmarked(outcome)
  PROVE  /\ Merged(j, outcome) \in JobStore
         /\ Unmarked(Merged(j, outcome)[j])
         /\ file[j] = Absent => Merged(j, outcome)[j] = Absent
         /\ \A i \in Jobs \ {j} : Merged(j, outcome)[i] = Reloaded[i]
  <1> DEFINE disk == Merged(j, outcome)
  <1>1. /\ disk[j] = IF outcome = Absent \/ file[j] = Absent THEN Absent
                     ELSE [outcome EXCEPT !.at = file[j].at]
        /\ \A i \in Jobs \ {j} : disk[i] = Reloaded[i]
        /\ disk = [i \in Jobs |-> disk[i]]
    BY DEF Merged
  <1> HIDE DEF disk
  <1>2. disk[j] \in {Absent} \cup JobRecords /\ Unmarked(disk[j])
    <2>1. CASE outcome = Absent \/ file[j] = Absent
      BY <1>1, <2>1 DEF Unmarked
    <2>2. CASE ~(outcome = Absent \/ file[j] = Absent)
      <3>1. outcome \in JobRecords /\ outcome.running = 0 /\ file[j].at \in Nat
        BY <2>2 DEF CronInv, TypeOK, JobStore, JobRecords, Unmarked
      <3>2. disk[j] = [outcome EXCEPT !.at = file[j].at]
        BY <1>1, <2>2
      <3>3. disk[j] \in JobRecords /\ disk[j].running = 0
        BY <3>1, <3>2 DEF JobRecords
      <3>4. QED
        BY <3>3 DEF Unmarked
    <2>3. QED
      BY <2>1, <2>2
  <1>3. Reloaded \in JobStore
    BY GroundedReloaded DEF Grounded
  <1>4. disk \in JobStore
    BY <1>1, <1>2, <1>3 DEF JobStore
  <1>5. file[j] = Absent => disk[j] = Absent
    BY <1>1
  <1>6. QED
    BY <1>1, <1>2, <1>4, <1>5 DEF disk

LEMMA FinishRunKeeps ==
  ASSUME CronInv, NEW m \in Manuals, FinishRun(m)
  PROVE  CronInv'
  <1> DEFINE j == manual[m].job
             x == CHOOSE y \in results : y.by = m
             outcome == Applied(j, mem[j], x, manual[m].force /\ j \notin OneShots)
             disk == Merged(j, outcome)
             new == Maintain(disk, TRUE)
  <1>1. /\ manual[m].pc = "finish"
        /\ results' = {y \in results : y.by # m}
        /\ manual' = [manual EXCEPT ![m] = IdleManual]
        /\ UNCHANGED <<now, tick, todo, boot, interrupted, missed, deferred, exec, edits,
                       crashes, added>>
    BY DEF FinishRun, booting
  <1>2. CASE mem[j] = Absent
    <2>1. UNCHANGED <<file, mem, loaded, timer, held, released, done, faults>>
      BY <1>2 DEF FinishRun, store
    <2>2. QED
      BY <1>1, <1>2, <2>1, FinishDropped
  <1>3. CASE mem[j] # Absent
    <2>1. /\ \E ok \in BOOLEAN : /\ SaveFor("user", new, ok)
                                 /\ timer' = IF ok THEN Armed(mem') ELSE timer
          /\ Release(disk)
          /\ held' = {}
      BY <1>3 DEF FinishRun, Merged
    <2>2. PICK ok \in BOOLEAN : /\ SaveFor("user", new, ok)
                                /\ timer' = IF ok THEN Armed(mem') ELSE timer
      BY <2>1
    <2>3. /\ j \in Jobs /\ x \in Result
          /\ \A i \in Jobs : Owns(m, i) <=> i = j
      BY <1>1, CallerResult
    <2>4. outcome \in {Absent} \cup JobRecords /\ Unmarked(outcome)
      <3>1. mem[j] \in JobRecords
        BY <1>3, <2>3 DEF CronInv, TypeOK, JobStore
      <3>2. (manual[m].force /\ j \notin OneShots) \in BOOLEAN
        OBVIOUS
      <3> HIDE DEF x, j
      <3>3. QED
        BY <2>3, <3>1, <3>2, AppliedUnmarks
    <2> HIDE DEF x, outcome
    <2>5. /\ disk \in JobStore
          /\ Unmarked(disk[j])
          /\ file[j] = Absent => disk[j] = Absent
          /\ \A i \in Jobs \ {j} : disk[i] = Reloaded[i]
      BY <2>3, <2>4, MergedUnmarks
    <2> HIDE DEF disk
    <2>6. Carries(disk, new)
      BY <2>5, NowNat, MaintainCarries
    <2> HIDE DEF new
    <2>7. IF ok THEN Written(new) ELSE NotWritten(new) /\ faults'["user"] # 0
      BY <2>2, UserSaves DEF CronInv
    <2>8. /\ Grounded(Reloaded)
          /\ \A i \in Jobs : Reloaded[i] = Absent <=> file[i] = Absent
      BY GroundedReloaded, ReloadedKeeps DEF CronInv, TypeOK
    <2>9. /\ \A i \in Jobs : Reloaded[i] = Absent => disk[i] = Absent
          /\ \A i \in Jobs : Owns(m, i) => Unmarked(disk[i])
          /\ \A i \in Jobs : ~Owns(m, i) => disk[i] = Reloaded[i]
      BY <2>3, <2>5, <2>8
    <2>10. /\ StoreInv' /\ OnePlace' /\ mem' \in JobStore /\ file' \in JobStore
           /\ released' \subseteq Jobs /\ done' \subseteq OneShots
           /\ FaultsGrow /\ loaded' = TRUE
      <3>1. Written(new) \/ NotWritten(new)
        BY <2>7
      <3>2. /\ boot' # "off" => boot # "off"
            /\ UNCHANGED <<todo, missed, exec, added>>
        BY <1>1
      <3>3. Release(disk) /\ Grounded(Reloaded) /\ disk \in JobStore
        BY <2>1, <2>5, <2>8
      <3>4. \A i \in Jobs : ~Owns(m, i) =>
              /\ Marked(Reloaded[i]) => Marked(disk[i])
              /\ Unmarked(Reloaded[i]) => Unmarked(disk[i])
        BY <2>9
      <3>5. results' = {y \in results : y.by # m}
        BY <1>1
      <3>6. QED
        BY <2>6, <2>9, <3>1, <3>2, <3>3, <3>4, <3>5, DropHolds
    <2>11. timer' \in BOOLEAN /\ TimerKept'
      <3>1. timer' = IF ok THEN Armed(new) ELSE timer
        BY <2>2 DEF SaveFor
      <3>2. QED
        BY <2>7, <3>1, UserTimer
    <2>12. CallersOwn' /\ manual' \in [Manuals -> ManualRecords]
      BY <1>1, CallerEnds
    <2>13. TypeOK' /\ Waits'
      BY <1>1, <2>1, <2>10, <2>11, <2>12 DEF CronInv, TypeOK, Waits, ManualRecords, FaultsGrow
    <2>14. QED
      BY <2>10, <2>11, <2>12, <2>13 DEF CronInv, StoreInv
  <1>4. QED
    BY <1>2, <1>3

(***************************************************************************)
(* The theorems                                                            *)
(***************************************************************************)
LEMMA InitInv ==
  ASSUME Init
  PROVE  CronInv
  <1>1. /\ now = 1 /\ added \subseteq Jobs
        /\ mem = [j \in Jobs |-> Absent] /\ loaded = FALSE /\ timer = FALSE
        /\ tick = "idle" /\ todo = {} /\ held = {}
        /\ boot = "off" /\ interrupted = {} /\ missed = {} /\ deferred = {}
        /\ exec = {} /\ results = {}
        /\ manual = [m \in Manuals |-> IdleManual]
        /\ edits = 0 /\ faults = [who \in {"service", "user"} |-> 0] /\ crashes = 0
        /\ released = {} /\ done = {}
    BY DEF Init
  <1>2. ASSUME NEW j \in Jobs
        PROVE  /\ file[j] \in {Absent} \cup JobRecords
               /\ j \notin added => file[j] = Absent
    <2>1. IF j \in added THEN \E at \in Times(j) : file[j] = NewJob(j, at)
                         ELSE file[j] = Absent
      BY DEF Init
    <2>2. \A at \in Times(j) : NewJob(j, at) \in JobRecords
      BY <1>1, NewJobTyped DEF Times
    <2>3. QED
      BY <2>1, <2>2
  <1>3. file \in JobStore
    <2>1. file = [j \in Jobs |-> file[j]]
      BY DEF Init
    <2>2. QED
      BY <1>2, <2>1 DEF JobStore
  <1>4. mem \in JobStore
    BY <1>1 DEF JobStore
  <1>5. IdleManual \in ManualRecords /\ IdleManual.pc = "idle"
    BY DEF IdleManual, ManualRecords
  <1>6. 1 \in 1..MaxNow
    BY CronAssumption
  <1>7. TypeOK
    BY <1>1, <1>3, <1>4, <1>5, <1>6 DEF TypeOK, ManualRecords
  <1>8. Busy = {}
    BY <1>1 DEF Busy
  <1>9. Waits /\ OnePlace /\ TimerKept
    BY <1>1 DEF Waits, OnePlace, TimerKept
  <1>10. Known /\ MarkedWhileBusy /\ NoneLeftBehind
    BY <1>1, <1>2, <1>8 DEF Known, MarkedWhileBusy, NoneLeftBehind
  <1>11. CallersOwn
    BY <1>1, <1>5 DEF CallersOwn
  <1>12. QED
    BY <1>7, <1>9, <1>10, <1>11 DEF CronInv

LEMMA NextKeeps ==
  ASSUME CronInv, [Next]_vars
  PROVE  CronInv'
  <1>1. CASE TickStep
    <2>1. ASSUME NEW y \in RunsOf("tick"), NEW outcome \in Outcomes, RunEnds(y, outcome)
          PROVE  CronInv'
      BY <2>1, RunEndsKeeps
    <2>2. CASE EndOfRun("tick")
      BY <2>1, <2>2 DEF EndOfRun
    <2>3. CASE TimerFires \/ Finally
      BY <2>3, IdleKeeps
    <2>4. CASE CollectDue \/ ApplyResults \/ \E j \in Jobs : RunDueJob(j)
      BY <2>4, CollectKeeps, ApplyResultsKeeps, RunDueJobKeeps
    <2>5. QED
      BY <1>1, <2>2, <2>3, <2>4 DEF TickStep
  <1>2. CASE BootStep
    <2>1. ASSUME NEW y \in RunsOf("boot"), NEW outcome \in Outcomes, RunEnds(y, outcome)
          PROVE  CronInv'
      BY <2>1, RunEndsKeeps
    <2>2. CASE EndOfRun("boot")
      BY <2>1, <2>2 DEF EndOfRun
    <2>3. CASE MarkInterrupted \/ PlanCatchup \/ (\E j \in Jobs : RunMissedJob(j))
      BY <2>3, MarkInterruptedKeeps, PlanCatchupKeeps, RunMissedJobKeeps
    <2>4. CASE ApplyCatchup \/ StartTimer
      BY <2>4, ApplyCatchupKeeps, StartTimerKeeps
    <2>5. QED
      BY <1>2, <2>2, <2>3, <2>4 DEF BootStep
  <1>3. CASE UserStep
    <2>1. CASE AddStep
      BY <2>1, AddKeeps DEF AddStep
    <2>2. CASE UpdateStep
      BY <2>2, UpdateKeeps DEF UpdateStep
    <2>3. CASE RemoveStep
      BY <2>3, RemoveKeeps DEF RemoveStep
    <2>4. CASE Read
      BY <2>4, ReadKeeps
    <2>5. CASE \E m \in Manuals, j \in Jobs, force \in BOOLEAN : Preflight(m, j, force)
      BY <2>5, PreflightKeeps
    <2>6. QED
      BY <1>3, <2>1, <2>2, <2>3, <2>4, <2>5 DEF UserStep
  <1>4. ASSUME NEW m \in Manuals, ManualStep(m)
        PROVE  CronInv'
    <2>1. ASSUME NEW y \in RunsOf(m), NEW outcome \in Outcomes, RunEnds(y, outcome)
          PROVE  CronInv'
      BY <2>1, RunEndsKeeps
    <2>2. CASE EndOfRun(m)
      BY <2>1, <2>2 DEF EndOfRun
    <2>3. QED
      BY <1>4, <2>2, ReserveKeeps, FinishRunKeeps DEF ManualStep
  <1>5. CASE TimePasses \/ UNCHANGED vars
    BY <1>5, IdleKeeps
  <1>6. CASE Crash
    BY <1>6, CrashKeeps
  <1>7. QED
    BY <1>1, <1>2, <1>3, <1>4, <1>5, <1>6 DEF Next

\* The inductive invariant: types, where jobs wait, who owns a run, that a
\* job is marked in memory and on disk as long as it has a run, and only so
\* long, and that the timer is kept.
THEOREM CronInvariant == Spec => []CronInv
  <1>1. Init => CronInv
    BY InitInv
  <1>2. CronInv /\ [Next]_vars => CronInv'
    BY NextKeeps
  <1>3. QED
    BY <1>1, <1>2, PTL DEF Spec

\* Two runs of a job never overlap, whether the tick, the catch-up or a call
\* of run has begun them, except for a job whose marker was cleared under it.
THEOREM RunsDoNotOverlap == Spec => []NoOverlap
  <1>1. CronInv => NoOverlap
    <2>1. SUFFICES ASSUME CronInv, NEW x \in exec, NEW y \in exec, x.job = y.job,
                          x.job \notin released
                   PROVE  x = y
      BY DEF NoOverlap
    <2>2. exec \subseteq Run /\ OnePlace
      BY <2>1 DEF CronInv, TypeOK
    <2>3. x.job \in Jobs
      BY <2>2 DEF Run
    <2>4. QED
      BY <2>1, <2>2, <2>3 DEF OnePlace
  <1>2. QED
    BY <1>1, CronInvariant, PTL

\* Unless a write has failed, every marker on disk belongs to a run that goes
\* on, or is about to begin or to be recorded.
THEOREM MarkersAreOwned == Spec => []MarkersOwned
  <1>1. CronInv => MarkersOwned
    BY DEF CronInv, NoneLeftBehind, MarkersOwned, Unmarked
  <1>2. QED
    BY <1>1, CronInvariant, PTL

\* The scheduler ticks or has its timer set as long as a job is enabled, on
\* disk and in memory.
THEOREM SchedulerStaysAlive == Spec => []SchedulerAlive
  <1>1. CronInv => SchedulerAlive
    BY DEF CronInv, TimerKept, SchedulerAlive, Armed
  <1>2. QED
    BY <1>1, CronInvariant, PTL

=============================================================================

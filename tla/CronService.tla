----------------------------- MODULE CronService -----------------------------
(***************************************************************************)
(* The scheduler of cron jobs (src/cron/service): the store file and its    *)
(* copy in memory, the timer and its tick, the catch-up of a start, manual  *)
(* runs, and the operations of users.                                       *)
(*                                                                         *)
(* Every `locked' section holds the lock of the store file from its first   *)
(* read to its last write: it is one action.  Jobs run between sections,    *)
(* outside the lock.  Abstracted: cron expressions (a job is `at' or        *)
(* `every'), the length of a backoff, what a job does and how it is         *)
(* delivered, and the timer's delay: an armed timer may fire at any time,   *)
(* as it wakes "at least once a minute".                                    *)
(***************************************************************************)
EXTENDS Integers, FiniteSets

CONSTANTS Jobs,           \* job ids
          OneShots,       \* jobs with an `at' schedule; the others have `every'
          DeleteAfterRun, \* one-shots to be removed when they have succeeded
          Agents,         \* jobs whose payload is an agent turn
          Manuals,        \* callers of run
          Absent,         \* no such job
          Period,         \* everyMs
          Backoff,        \* errorBackoffMs
          Delay,          \* the delay of a deferred catch-up run
          MaxAttempts,    \* retries of a one-shot after transient errors
          Outcomes,       \* how a run may end: ok, skipped, transient or permanent error
          MaxConcurrent,  \* maxConcurrentRuns
          MaxImmediate,   \* maxMissedJobsPerRestart
          StuckAge,       \* STUCK_RUN_MS
          MaxNow,         \* bound on the clock (model only)
          MaxEvents,      \* bound on user calls, failed writes of others and crashes (model only)
          MaxEarly        \* bound on user calls before start() has ended (model only)

ASSUME CronAssumption ==
  /\ DeleteAfterRun \subseteq OneShots /\ OneShots \cup Agents \subseteq Jobs
  /\ Manuals \cap {"tick", "boot"} = {}
  /\ Absent \notin Jobs /\ Outcomes \subseteq {"ok", "skipped", "transient", "permanent"}
  /\ {Period, Backoff, Delay, MaxConcurrent, MaxNow} \subseteq Nat \ {0}
  /\ {MaxAttempts, MaxImmediate, StuckAge, MaxEvents, MaxEarly} \subseteq Nat

VARIABLES now,
          file,     \* the jobs on disk
          mem,      \* state.store
          loaded,   \* mem has been read
          timer,    \* state.timer is set
          tick,     \* where onTimer stands; state.running unless "idle"
          todo,     \* jobs the tick has marked and not begun
          held,     \* of these and of its runs: the object is still in mem
          boot,     \* where start() stands
          interrupted, \* jobs start() found marked: skipJobIds
          missed,   \* catch-up runs not begun
          deferred, \* missed jobs to be put off
          exec,     \* runs in progress
          results,  \* runs ended whose result is not applied
          manual,   \* where each caller of run stands
          added,    \* ids given out: each is a new UUID
          edits, crashes,
          faults,   \* failed writes of the service and of its users
          released, \* history: jobs whose marker was cleared under a run
          done      \* history: one-shots that have succeeded, marked till the end

store == <<file, mem, loaded>>
ticking == <<tick, todo, held>>
booting == <<boot, interrupted, missed, deferred>>
runs == <<exec, results>>
history == <<added, released, done>>
vars == <<now, store, timer, ticking, booting, runs, manual, edits, faults, crashes, history>>

\* A job: at is its time, if it is a one-shot, and 0 stands for undefined.
JobRecords == [enabled : BOOLEAN, at : Nat, next : Nat, running : Nat, last : Nat,
               status : {"none", "ok", "skipped", "error"}, errors : 0..(MaxAttempts + 1)]

JobStore == [Jobs -> {Absent} \cup JobRecords]

ASSUME RecordAssumption == Absent \notin JobRecords

Runners == {"tick", "boot"} \cup Manuals
Run == [by : Runners, job : Jobs, started : Nat]
Result == [by : Runners, job : Jobs, started : Nat, ended : Nat, outcome : Outcomes]
IdleManual == [pc |-> "idle", job |-> Absent, force |-> FALSE, started |-> 0]

TypeOK ==
  /\ now \in 1..MaxNow
  /\ file \in JobStore /\ mem \in JobStore
  /\ loaded \in BOOLEAN /\ timer \in BOOLEAN
  /\ tick \in {"idle", "collect", "run", "finally"}
  /\ boot \in {"off", "plan", "missed", "arm", "up", "failed"}
  /\ todo \subseteq Jobs /\ held \subseteq Jobs /\ interrupted \subseteq Jobs
  /\ missed \subseteq Jobs /\ deferred \subseteq Jobs
  /\ exec \subseteq Run /\ results \subseteq Result
  /\ manual \in [Manuals -> [pc : {"idle", "reserve", "run", "finish"}, job : {Absent} \cup Jobs,
                             force : BOOLEAN, started : Nat]]
  /\ edits \in Nat /\ crashes \in Nat
  /\ faults \in [{"service", "user"} -> Nat]
  /\ added \subseteq Jobs /\ released \subseteq Jobs /\ done \subseteq OneShots

Larger(a, b) == IF a > b THEN a ELSE b

(***************************************************************************)
(* The next run of a job: r is the record of job j, t the time.             *)
(***************************************************************************)
\* The slots of everyMs, for an anchor of 0.
EverySlot(t) == Period * Larger(1, (t + Period - 1) \div Period)

ComputeNext(j, r, t) ==
  CASE ~r.enabled -> 0
    [] r.enabled /\ j \in OneShots ->
         IF r.status = "ok" /\ r.last # 0 /\ r.at <= r.last THEN 0 ELSE r.at
    [] OTHER -> IF r.last # 0 /\ r.last + Period > t THEN r.last + Period ELSE EverySlot(t)

Recomputed(j, r, t) ==
  LET next == ComputeNext(j, r, t) IN
  [r EXCEPT !.next = IF j \notin OneShots /\ r.status = "error" /\ r.last # 0 /\ next # 0
                     THEN Larger(next, r.last + Backoff) ELSE next]

Executed(r) == r.next # 0 /\ r.last # 0 /\ r.last >= r.next
Stuck(r, t) == r.running # 0 /\ t - r.running > StuckAge

\* normalizeJobTickState, and whether walkSchedulableJobs goes on with the job.
Normalized(r) ==
  CASE r = Absent -> Absent
    [] r # Absent /\ ~r.enabled -> [r EXCEPT !.next = 0, !.running = 0]
    [] r # Absent /\ r.enabled -> IF Stuck(r, now) THEN [r EXCEPT !.running = 0] ELSE r

Walked(r) == r # Absent /\ r.enabled /\ (Stuck(r, now) => Executed(r))

\* recomputeNextRuns
RecomputeNextRuns(jobs) ==
  [j \in Jobs |-> IF Walked(jobs[j]) /\ jobs[j].next <= now
                  THEN Recomputed(j, Normalized(jobs[j]), now) ELSE Normalized(jobs[j])]

MaintainAll(jobs, recomputeExpired) ==    \* mutant: advances what is due
  RecomputeNextRuns(jobs)

Expired(r) == r.next <= now /\ r.running = 0 /\ Executed(r)

\* recomputeNextRunsForMaintenance
Maintain(jobs, recomputeExpired) ==
  [j \in Jobs |->
     LET r == Normalized(jobs[j]) IN
     IF Walked(jobs[j]) /\ (r.next = 0 \/ (recomputeExpired /\ Expired(r)))
     THEN Recomputed(j, r, now) ELSE r]

(***************************************************************************)
(* The result of a run: the record that replaces r, or Absent              *)
(***************************************************************************)
Applied(j, r, x, preserveSchedule) ==
  LET failed == x.outcome \in {"transient", "permanent"}
      errors == IF ~failed \/ j \notin OneShots THEN 0
                ELSE IF r.errors > MaxAttempts THEN r.errors ELSE r.errors + 1
      ran == [r EXCEPT !.running = 0, !.last = x.started, !.errors = errors,
                       !.status = IF failed THEN "error" ELSE x.outcome]
      natural == ComputeNext(j, IF preserveSchedule THEN r ELSE ran, x.ended)
  IN CASE j \in DeleteAfterRun /\ x.outcome = "ok" -> Absent
       [] j \in OneShots /\ ~(j \in DeleteAfterRun /\ x.outcome = "ok") ->
            IF x.outcome = "transient" /\ errors <= MaxAttempts
            THEN [ran EXCEPT !.next = x.ended + Backoff]
            ELSE [ran EXCEPT !.enabled = FALSE, !.next = 0]
       [] j \notin OneShots /\ failed /\ r.enabled ->
            [ran EXCEPT !.next = Larger(natural, x.ended + Backoff)]
       [] OTHER -> [ran EXCEPT !.next = natural]

\* applyOutcomeToStoredJob for all results of a runner
AppliedAll(jobs, by) ==
  [j \in Jobs |->
     LET own == {x \in results : x.by = by /\ x.job = j}
     IN IF jobs[j] = Absent \/ own = {} THEN jobs[j]
        ELSE Applied(j, jobs[j], CHOOSE x \in own : TRUE, FALSE)]

(***************************************************************************)
(* The store                                                               *)
(***************************************************************************)
\* A forced reload; a job whose schedule or switch differs loses its next run.
Reloaded ==
  [j \in Jobs |->
     IF file[j] # Absent /\ mem[j] # Absent
        /\ (file[j].enabled # mem[j].enabled \/ file[j].at # mem[j].at)
     THEN [file[j] EXCEPT !.next = 0] ELSE file[j]]

Stored == IF loaded THEN mem ELSE file     \* ensureLoaded, skipRecompute

\* ensureLoaded without skipRecompute
StoredRecomputed == IF loaded THEN mem ELSE RecomputeNextRuns(file)

NothingFailed == faults["service"] + faults["user"] = 0
MayHappen == edits + faults["service"] + crashes < MaxEvents

\* The section ends with jobs in memory; ok says whether they could be saved.
SaveFor(who, jobs, ok) ==
  /\ mem' = jobs /\ loaded' = TRUE
  /\ IF ok THEN file' = mem' ELSE UNCHANGED file
  /\ IF ok THEN UNCHANGED faults
     ELSE (who = "user" \/ MayHappen) /\ faults' = [faults EXCEPT ![who] = @ + 1]

Save(jobs, ok) == SaveFor("service", jobs, ok)

\* ... saved only if something has changed.
SaveChanged(jobs, from, ok) ==
  IF jobs = from THEN ok /\ mem' = jobs /\ loaded' = TRUE /\ UNCHANGED <<file, faults>>
  ELSE Save(jobs, ok)

\* armTimer: the next run of some job, or the recheck if there is none.
Armed(jobs) == \E j \in Jobs : jobs[j] # Absent /\ jobs[j].enabled

Busy == {x.job : x \in exec \cup results} \cup todo \cup missed

\* Maintenance of `jobs' clears the markers of disabled and of stuck ones.
Release(jobs) ==
  LET S == {j \in Jobs : jobs[j] # Absent /\ jobs[j].running # 0
                         /\ (~jobs[j].enabled \/ Stuck(jobs[j], now))}
  IN released' = released \cup (Busy \cap S) /\ done' = done \ S

\* The times at which a job of a user may be set.
Times(j) == IF j \in OneShots THEN {now, now + 1} ELSE {0}
NewJob(j, at) ==
  LET r == [enabled |-> TRUE, at |-> at, next |-> 0, running |-> 0, last |-> 0,
            status |-> "none", errors |-> 0]
  IN [r EXCEPT !.next = ComputeNext(j, r, now)]

\* A process before has left some jobs in the file.
Init ==
  /\ now = 1
  /\ added \in SUBSET Jobs
  /\ file \in {f \in [Jobs -> {Absent} \cup UNION {{NewJob(j, at) : at \in Times(j)} : j \in Jobs}] :
                \A j \in Jobs : IF j \in added THEN \E at \in Times(j) : f[j] = NewJob(j, at)
                                ELSE f[j] = Absent}
  /\ mem = [j \in Jobs |-> Absent] /\ loaded = FALSE
  /\ timer = FALSE
  /\ tick = "idle" /\ todo = {} /\ held = {}
  /\ boot = "off" /\ interrupted = {} /\ missed = {} /\ deferred = {}
  /\ exec = {} /\ results = {}
  /\ manual = [m \in Manuals |-> IdleManual]
  /\ edits = 0 /\ faults = [who \in {"service", "user"} |-> 0] /\ crashes = 0
  /\ released = {} /\ done = {}

(***************************************************************************)
(* The timer's tick: onTimer                                               *)
(***************************************************************************)
\* While a tick runs, the timer is only set again.
TimerFires ==
  /\ timer
  /\ tick = "idle"
  /\ tick' = "collect"
  /\ UNCHANGED <<now, store, timer, todo, held, booting, runs, manual, edits, faults,
                 crashes, history>>

IsDue(r) == r # Absent /\ r.enabled /\ r.running = 0 /\ r.next # 0 /\ r.next <= now

Mark(jobs, S) == [j \in Jobs |-> IF j \in S THEN [jobs[j] EXCEPT !.running = now] ELSE jobs[j]]

CollectUnmarked ==                        \* mutant: runs without a marker
  LET due == {j \in Jobs : IsDue(Reloaded[j])} IN
  /\ tick = "collect"
  /\ Save(Reloaded, TRUE)
  /\ todo' = due /\ held' = due
  /\ tick' = IF due = {} THEN "finally" ELSE "run"
  /\ UNCHANGED <<now, timer, booting, runs, manual, edits, crashes, history>>

\* The due jobs are marked on disk before they run; with none, the tick only
\* maintains the store.  A failed write ends the tick.
CollectDue ==
  /\ tick = "collect" /\ tick' \in {"run", "finally"}
  /\ UNCHANGED <<now, timer, booting, runs, manual, edits, crashes, added>>
  /\ \E jobs \in {Reloaded} : \E due \in {{j \in Jobs : IsDue(jobs[j])}} :
     \/ /\ due = {} /\ tick' = "finally"
        /\ \E ok \in BOOLEAN : SaveChanged(Maintain(jobs, TRUE), jobs, ok)
        /\ Release(jobs)
        /\ UNCHANGED <<todo, held>>
     \/ /\ due # {}
        /\ Save(Mark(jobs, due), tick' = "run")
        /\ todo' = IF tick' = "run" THEN due ELSE {}
        /\ held' = todo'
        /\ UNCHANGED <<released, done>>

RunsOf(by) == {x \in exec : x.by = by}

\* runDueJob: the marker becomes the time at which the job really starts, on
\* the object the tick has collected.
RunDueJob(j) ==
  /\ tick = "run" /\ j \in todo
  /\ Cardinality(RunsOf("tick")) < MaxConcurrent
  /\ todo' = todo \ {j}
  /\ exec' = exec \cup {[by |-> "tick", job |-> j, started |-> now]}
  /\ mem' = IF j \in held /\ mem[j] # Absent THEN Mark(mem, {j}) ELSE mem
  /\ UNCHANGED <<now, file, loaded, timer, tick, held, booting, results, manual, edits,
                 faults, crashes, history>>

\* The outcomes are applied to the jobs as they are on disk by then.
ApplyResults ==
  /\ tick = "run" /\ todo = {} /\ RunsOf("tick") = {}
  /\ tick' = "finally" /\ held' = {}
  /\ results' = {x \in results : x.by # "tick"}
  /\ UNCHANGED <<now, timer, todo, booting, exec, manual, edits, crashes, added>>
  /\ \E jobs \in {AppliedAll(Reloaded, "tick")} :
     /\ \E ok \in BOOLEAN : Save(Maintain(jobs, FALSE), ok)
     /\ Release(jobs)

FinallyWithoutTimer ==                    \* mutant: arms only if a job is due
  /\ tick = "finally"
  /\ tick' = "idle"
  /\ timer' = \E j \in Jobs : IsDue(mem[j])
  /\ UNCHANGED <<now, store, todo, held, booting, runs, manual, edits, crashes,
                 faults, history>>

Finally ==
  /\ tick = "finally"
  /\ tick' = "idle"
  /\ timer' = Armed(mem)
  /\ UNCHANGED <<now, store, todo, held, booting, runs, manual, edits, crashes,
                 faults, history>>

\* A job ends, or its timeout ends it.
RunEnds(x, outcome) ==
  /\ exec' = exec \ {x}
  /\ results' = results \cup
       {[by |-> x.by, job |-> x.job, started |-> x.started, ended |-> now, outcome |-> outcome]}
  /\ manual' = IF x.by \in Manuals THEN [manual EXCEPT ![x.by].pc = "finish"] ELSE manual
  /\ done' = IF x.job \in OneShots \ released /\ outcome = "ok" THEN done \cup {x.job} ELSE done
  /\ UNCHANGED <<now, store, timer, ticking, booting, edits, faults, crashes, added, released>>

(***************************************************************************)
(* start()                                                                 *)
(***************************************************************************)
InterruptedKeepsSchedule(j, r) ==         \* mutant: only clears the marker
  [r EXCEPT !.running = 0]

InterruptedMarked(j, r) ==                \* mutant: keeps the marker
  [r EXCEPT !.last = r.running, !.status = "error", !.next = 0,
            !.enabled = r.enabled /\ j \notin OneShots]

Interrupted(j, r) ==
  [r EXCEPT !.running = 0, !.last = r.running, !.status = "error", !.next = 0,
            !.enabled = r.enabled /\ j \notin OneShots,
            !.errors = IF j \notin OneShots \/ r.errors > MaxAttempts THEN r.errors
                       ELSE r.errors + 1]

\* Whatever is marked was interrupted by the end of the process before.
MarkInterrupted ==
  LET jobs == Stored
      marked == {j \in Jobs : jobs[j] # Absent /\ jobs[j].running # 0}
  IN
  /\ boot = "off" /\ boot' \in {"plan", "failed"}
  /\ UNCHANGED <<now, timer, ticking, missed, deferred, runs, manual, edits, crashes, added>>
  /\ boot' = "failed" => \E j \in Jobs : jobs[j] # Absent
  /\ Save([j \in Jobs |-> IF j \in marked THEN Interrupted(j, jobs[j]) ELSE jobs[j]],
          boot' = "plan")
  /\ interrupted' = marked
  /\ released' = released \cup (Busy \cap marked) /\ done' = done \ (Busy \cap marked)

\* A one-shot that has run is caught up only as the retry of an error.
IsMissed(j, r) ==
  /\ IsDue(r)
  /\ j \in OneShots /\ r.status # "none" => r.status = "error" /\ r.last # 0 /\ r.next > r.last

\* planStartupCatchup: the earliest run now, the others and the agents' later.
PlanCatchup ==
  LET late == {j \in Jobs \ interrupted : IsMissed(j, mem[j])} IN
  /\ boot = "plan"
  /\ \/ /\ late = {}
        /\ boot' = "arm"
        /\ UNCHANGED <<store, missed, deferred, faults>>
     \/ \E first \in SUBSET (late \ Agents), ok \in BOOLEAN :
          /\ late # {}
          /\ \/ first = late \ Agents /\ Cardinality(first) <= MaxImmediate
             \/ /\ Cardinality(first) = MaxImmediate /\ first # late \ Agents
                /\ \A i \in first, j \in (late \ Agents) \ first : mem[i].next <= mem[j].next
          /\ Save(Mark(mem, first), ok)
          /\ boot' = IF ok THEN "missed" ELSE "failed"
          /\ missed' = IF ok THEN first ELSE {}
          /\ deferred' = IF ok THEN late \ first ELSE {}
  /\ interrupted' = {}
  /\ UNCHANGED <<now, timer, ticking, runs, manual, edits, crashes, history>>

RunMissedJob(j) ==
  /\ boot = "missed" /\ j \in missed /\ RunsOf("boot") = {}
  /\ missed' = missed \ {j}
  /\ exec' = exec \cup {[by |-> "boot", job |-> j, started |-> now]}
  /\ UNCHANGED <<now, store, timer, ticking, boot, interrupted, deferred, results, manual, edits, faults,
                 crashes, history>>

\* applyStartupCatchupOutcomes
ApplyCatchup ==
  LET applied == AppliedAll(mem, "boot")
      jobs == [j \in Jobs |->
                 IF j \in deferred /\ applied[j] # Absent /\ applied[j].enabled
                 THEN [applied[j] EXCEPT !.next = now + Delay] ELSE applied[j]]
  IN
  /\ boot = "missed" /\ missed = {} /\ RunsOf("boot") = {}
  /\ boot' \in {"arm", "failed"} /\ deferred' = {}
  /\ results' = {x \in results : x.by # "boot"}
  /\ UNCHANGED <<now, timer, ticking, interrupted, missed, exec, manual, edits, crashes, added>>
  /\ Save(Maintain(jobs, FALSE), boot' = "arm")
  /\ Release(jobs)

StartTimerIfDue ==                        \* mutant: arms only if a job is due
  /\ boot = "arm"
  /\ SaveChanged(Maintain(mem, TRUE), mem, TRUE)
  /\ boot' = "up"
  /\ timer' = \E j \in Jobs : IsDue(mem'[j])
  /\ Release(mem)
  /\ UNCHANGED <<now, ticking, interrupted, missed, deferred, runs, manual, edits, crashes, added>>

\* The third section: what is left undefined is computed, and the timer set.
StartTimer ==
  /\ boot = "arm" /\ boot' \in {"up", "failed"}
  /\ UNCHANGED <<now, ticking, interrupted, missed, deferred, runs, manual, edits, crashes, added>>
  /\ SaveChanged(Maintain(mem, TRUE), mem, boot' = "up")
  /\ timer' = IF boot' = "up" THEN Armed(mem') ELSE timer
  /\ Release(mem)

(***************************************************************************)
(* Users: add, update, remove, list, run.  The gateway serves them from its *)
(* first moment, before start() and during it.                             *)
(***************************************************************************)
Edit == MayHappen /\ (boot = "up" \/ edits < MaxEarly) /\ edits' = edits + 1

\* add recomputes the next runs of all jobs.
Add(j, at) ==
  /\ Edit
  /\ j \notin added /\ added' = added \cup {j}
  /\ LET before == StoredRecomputed
         jobs == RecomputeNextRuns([before EXCEPT ![j] = NewJob(j, at)])
     IN /\ Release(Stored)
        /\ \E ok \in BOOLEAN :
             /\ SaveFor("user", jobs, ok)
             /\ timer' = IF ok THEN Armed(jobs) ELSE timer
  /\ UNCHANGED <<now, ticking, booting, runs, manual, crashes>>

Patched(j, r, patch, at) ==
  LET s == CASE patch = "enable" -> [r EXCEPT !.enabled = TRUE]
             [] patch = "disable" -> [r EXCEPT !.enabled = FALSE]
             [] patch = "schedule" -> [r EXCEPT !.at = at]
             [] patch = "other" -> r
  IN CASE patch # "other" /\ s.enabled -> [s EXCEPT !.next = ComputeNext(j, s, now)]
       [] patch # "other" /\ ~s.enabled -> [s EXCEPT !.next = 0, !.running = 0]
       [] patch = "other" /\ s.enabled /\ s.next = 0 -> [s EXCEPT !.next = ComputeNext(j, s, now)]
       [] OTHER -> s

\* The job in memory is replaced by its patched clone.
Update(j, patch, at) ==
  LET jobs == Stored IN
  /\ Edit
  /\ jobs[j] # Absent
  /\ LET patched == [jobs EXCEPT ![j] = Patched(j, jobs[j], patch, at)] IN
     /\ \E ok \in BOOLEAN :
          /\ SaveFor("user", patched, ok)
          /\ timer' = IF ok THEN Armed(patched) ELSE timer
     /\ released' = IF j \in Busy /\ patched[j].running = 0 THEN released \cup {j} ELSE released
     /\ done' = IF patch = "other" THEN done ELSE done \ {j}
  /\ held' = held \ {j}
  /\ UNCHANGED <<now, tick, todo, booting, runs, manual, crashes, added>>

Remove(j) ==
  LET jobs == StoredRecomputed IN
  /\ Edit
  /\ \E ok \in BOOLEAN :
       /\ SaveFor("user", [jobs EXCEPT ![j] = Absent], ok)
       /\ timer' = IF ok THEN Armed(mem') ELSE timer
  /\ IF loaded THEN UNCHANGED <<released, done>> ELSE Release(file)
  /\ UNCHANGED <<now, ticking, booting, runs, manual, crashes, added>>

\* list, listPage, status and readJob: ensureLoadedForRead.
Read ==
  /\ \E ok \in BOOLEAN : SaveChanged(Maintain(Stored, FALSE), Stored, ok)
  /\ Release(Stored)
  /\ UNCHANGED <<now, timer, ticking, booting, runs, manual, edits, crashes, added>>

Step(m, pc, j, force, started) ==
  manual' = [manual EXCEPT ![m] = [pc |-> pc, job |-> j, force |-> force, started |-> started]]

\* inspectManualRunPreflight; what it maintains is not saved.
Preflight(m, j, force) ==
  LET jobs == Maintain(Stored, FALSE) IN
  /\ manual[m].pc = "idle"
  /\ mem' = jobs /\ loaded' = TRUE
  /\ Release(Stored)
  /\ IF jobs[j] # Absent /\ jobs[j].running = 0 /\ (force \/ IsDue(jobs[j]))
     THEN Edit /\ Step(m, "reserve", j, force, now) ELSE UNCHANGED <<manual, edits>>
  /\ UNCHANGED <<now, file, timer, ticking, booting, runs, faults, crashes, added>>

\* prepareManualRun: under the lock again, the job is marked and begins.
Reserve(m) ==
  LET j == manual[m].job IN
  /\ manual[m].pc = "reserve"
  /\ IF mem[j] = Absent \/ mem[j].running # 0
     THEN /\ manual' = [manual EXCEPT ![m] = IdleManual]
          /\ UNCHANGED <<store, exec, faults>>
     ELSE \E ok \in BOOLEAN :
          /\ SaveFor("user", [mem EXCEPT ![j].running = manual[m].started], ok)
          /\ manual' = IF ok THEN [manual EXCEPT ![m].pc = "run"]
                       ELSE [manual EXCEPT ![m] = IdleManual]
          /\ exec' = IF ok THEN exec \cup {[by |-> m, job |-> j, started |-> manual[m].started]}
                     ELSE exec
  /\ UNCHANGED <<now, timer, ticking, booting, results, edits, crashes, history>>

\* finishPreparedManualRun: the outcome, a forced reload that keeps it, and
\* the timer.
FinishRun(m) ==
  LET j == manual[m].job
      x == CHOOSE y \in results : y.by = m
      outcome == Applied(j, mem[j], x, manual[m].force /\ j \notin OneShots)
      disk == [i \in Jobs |-> IF i # j THEN Reloaded[i]
                              ELSE IF outcome = Absent \/ file[j] = Absent THEN Absent
                              ELSE [outcome EXCEPT !.at = file[j].at]]
  IN
  /\ manual[m].pc = "finish"
  /\ IF mem[j] = Absent THEN UNCHANGED <<store, timer, held, released, done, faults>>
     ELSE
        /\ \E ok \in BOOLEAN :
             /\ SaveFor("user", Maintain(disk, TRUE), ok)
             /\ timer' = IF ok THEN Armed(mem') ELSE timer
        /\ Release(disk)
        /\ held' = {}
  /\ results' = {y \in results : y.by # m}
  /\ manual' = [manual EXCEPT ![m] = IdleManual]
  /\ UNCHANGED <<now, tick, todo, booting, exec, edits, crashes, added>>

(***************************************************************************)
(* The clock, and the end of the process: the file stays                   *)
(***************************************************************************)
TimePasses ==
  /\ now < MaxNow
  /\ now' = now + 1
  /\ UNCHANGED <<store, timer, ticking, booting, runs, manual, edits, faults, crashes, history>>

Crash ==
  /\ MayHappen
  /\ crashes' = crashes + 1
  /\ mem' = [j \in Jobs |-> Absent] /\ loaded' = FALSE /\ timer' = FALSE
  /\ tick' = "idle" /\ todo' = {} /\ held' = {}
  /\ boot' = "off" /\ interrupted' = {} /\ missed' = {} /\ deferred' = {}
  /\ exec' = {} /\ results' = {}
  /\ manual' = [m \in Manuals |-> IdleManual]
  /\ released' = {}
  /\ UNCHANGED <<now, file, edits, faults, added, done>>

EndOfRun(by) == \E x \in RunsOf(by), outcome \in Outcomes : RunEnds(x, outcome)

TickStep ==
  \/ TimerFires \/ CollectDue \/ (\E j \in Jobs : RunDueJob(j)) \/ ApplyResults \/ Finally
  \/ EndOfRun("tick")

BootStep ==
  \/ MarkInterrupted \/ PlanCatchup \/ (\E j \in Jobs : RunMissedJob(j))
  \/ ApplyCatchup \/ StartTimer
  \/ EndOfRun("boot")

ManualStep(m) == Reserve(m) \/ FinishRun(m) \/ EndOfRun(m)

Patches == {"enable", "disable", "schedule", "other"}

UpdateStep == \E j \in Jobs, patch \in Patches : \E at \in Times(j) : Update(j, patch, at)
AddStep == \E j \in Jobs : \E at \in Times(j) : Add(j, at)
RemoveStep == \E j \in Jobs : Remove(j)

UserStep ==
  \/ AddStep \/ UpdateStep \/ RemoveStep
  \/ \E m \in Manuals, j \in Jobs, force \in BOOLEAN : Preflight(m, j, force)
  \/ Read

Next ==
  \/ TickStep \/ BootStep \/ UserStep
  \/ \E m \in Manuals : ManualStep(m)
  \/ TimePasses \/ Crash

Spec == Init /\ [][Next]_vars

\* The timer of the process fires, start() and each call of run go on: their
\* sections get the lock in turn, and a run ends, by its timeout if not before.
Fairness ==
  /\ WF_vars(TickStep) /\ WF_vars(BootStep)
  /\ \A m \in Manuals : WF_vars(ManualStep(m))

FairSpec == Spec /\ Fairness

(***************************************************************************)
(* Properties                                                              *)
(***************************************************************************)
\* Two runs of a job never overlap, whoever begins them: the marker is on
\* disk before a run begins "so timer ticks that force-reload from disk
\* cannot start the same job concurrently" (ops.ts:693).  Excepted are jobs
\* whose marker was cleared under a run: disabled, marked for too long, or
\* taken for interrupted by a start that came after the first runs.
NoOverlap ==
  \A x, y \in exec : x.job = y.job => x = y \/ x.job \in released

\* Unless a write has failed, a marker on disk belongs to a run that goes on
\* or is about to begin or to be recorded; one left behind would shut the
\* job out for StuckAge.
MarkersOwned ==
  NothingFailed /\ boot # "off" =>
    \A j \in Jobs : file[j] # Absent /\ file[j].running # 0 => j \in Busy

Scheduled(x) == x.by \in {"tick", "boot"}

\* A one-shot that has succeeded is not begun again by the scheduler, over
\* crashes and starts, unless its user has set it again, a write has failed
\* or its marker was cleared under a run.
OneShotOnce ==
  [][\A x \in exec' \ exec :
       Scheduled(x) /\ NothingFailed => x.job \notin done \ released]_vars

\* While a job is enabled, on disk and in memory, the scheduler ticks or has
\* its timer set (timer.ts:983-992, 1147).
SchedulerAlive ==
  /\ boot = "up" /\ faults["user"] = 0
  /\ \E j \in Jobs : file[j] # Absent /\ file[j].enabled /\ mem[j] # Absent /\ mem[j].enabled
  => timer \/ tick # "idle"

\* The slot of an enabled job that is due leaves the disk only when it has
\* been executed, or the catch-up defers it, whatever writes the store.
SlotKept(j) ==
  LET r == file[j] IN
  NothingFailed /\ IsDue(r) /\ r.last < r.next /\ j \notin deferred \cup released
    => \/ file'[j] = Absent \/ ~file'[j].enabled
       \/ file'[j].next = r.next \/ file'[j].last >= r.next

\* No step of the scheduler, of a start, of a read or of a manual run moves a
\* due slot on without executing it: recomputing everything there would let
\* jobs be "silently skipped" (timer.ts:1008, and 1104-1108).
NoSlotSkipped ==
  [][(\A j \in Jobs : SlotKept(j)) \/ UpdateStep \/ AddStep \/ RemoveStep]_vars

\* ... nor does, once start() has ended, the addition of another job.
NoSlotSkippedByAdd ==
  [][boot = "up" /\ ~UpdateStep => \A j \in Jobs : SlotKept(j)]_vars

\* A due job is run, or its slot moved, unless start() could not save the
\* store, which nothing repeats.
DueJobsRun ==
  \A j \in Jobs :
    IsDue(file[j]) ~> \/ ~IsDue(file[j]) \/ \E x \in exec : x.job = j
                      \/ loaded /\ (mem[j] = Absent \/ ~mem[j].enabled)
                      \/ boot = "failed" \/ faults["user"] # 0

(***************************************************************************)
(* The inductive invariant of the proofs                                   *)
(***************************************************************************)
\* The jobs that are marked and not begun wait only where the code holds them,
\* and a service that has begun has read its store.
Waits ==
  /\ boot # "off" => loaded
  /\ tick # "run" => todo = {}
  /\ boot # "missed" => missed = {}

\* An id that was not given out names nothing.
Known == \A j \in Jobs \ added : mem[j] = Absent /\ file[j] = Absent /\ j \notin Busy

\* A call of run has the run, and then the result, of its own job.
CallersOwn ==
  /\ \A m \in Manuals : manual[m].pc # "idle" =>
       manual[m].job \in Jobs /\ manual[m].started \in Nat \ {0}
  /\ \A x \in exec : x.by \in Manuals =>
       /\ manual[x.by].pc = "run"
       /\ x.job = manual[x.by].job /\ x.started = manual[x.by].started
  /\ \A x \in results : x.by \in Manuals =>
       manual[x.by].pc = "finish" /\ x.job = manual[x.by].job
  /\ \A m \in Manuals : manual[m].pc = "finish" => \E x \in results : x.by = m

\* Unless its marker was cleared, a job waits, runs or has a result once only.
OnePlace ==
  \A j \in Jobs \ released :
    /\ ~(j \in todo /\ j \in missed)
    /\ j \in todo \cup missed => \A x \in exec \cup results : x.job # j
    /\ \A x, y \in exec : x.job = j /\ y.job = j => x = y
    /\ \A x, y \in results : x.job = j /\ y.job = j => x = y
    /\ \A x \in exec, y \in results : ~(x.job = j /\ y.job = j)

\* ... and is marked meanwhile, in memory and on disk.
Marked(r) == r # Absent => r.running # 0
MarkedWhileBusy == \A j \in Busy \ released : Marked(mem[j]) /\ Marked(file[j])

\* No marker without a run, in memory as on disk; what is not in memory has
\* been removed from the disk.
Unmarked(r) == r # Absent => r.running = 0
NoneLeftBehind ==
  NothingFailed /\ boot # "off" =>
    /\ \A j \in Jobs \ Busy : Unmarked(mem[j]) /\ Unmarked(file[j])
    /\ \A j \in Jobs : mem[j] = Absent => file[j] = Absent

\* Without a timer and without a tick, no job in memory is enabled.
TimerKept ==
  boot = "up" /\ faults["user"] = 0 => timer \/ tick # "idle" \/ ~Armed(mem)

CronInv ==
  /\ TypeOK /\ Waits /\ Known /\ CallersOwn /\ OnePlace
  /\ MarkedWhileBusy /\ NoneLeftBehind /\ TimerKept

=============================================================================

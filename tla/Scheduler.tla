----------------------------- MODULE Scheduler -----------------------------
(***************************************************************************)
(* The job scheduler: the jobs table, the coroutines that run its ticks    *)
(* (scheduler_loop and the manual tick endpoint), the administrator's      *)
(* upsert endpoint and the installation of the default jobs.               *)
(*                                                                         *)
(* Time is relative: a row keeps how long it still has to wait until its   *)
(* next_run_at (0: due), a ticker the age of the `current' it took at the  *)
(* start of its tick.  Both saturate where the code can no longer tell     *)
(* two values apart, so time itself is unbounded.                          *)
(***************************************************************************)
EXTENDS Naturals, FiniteSets

CONSTANTS
    Jobs,            \* names a row of the jobs table may have
    Tasks,           \* names registered with @job
    Defaults,        \* names register_default_jobs installs
    Tickers,         \* coroutines that may be inside run_due_jobs_once
    Loop,            \* the ticker driven by scheduler_loop
    NoJob,           \* what a ticker that executes nothing is doing
    Schedules,       \* schedule_cron values
    Delays,          \* Delays[s]: how far after `current' s may next fire
    DefaultSchedule, \* the schedule of a default job
    Limits,          \* max_retries values an administrator may ask for
    DefaultLimit,    \* settings.scheduler_max_retries
    Poll,            \* settings.scheduler_poll_interval
    RetryCap,        \* bound: retries are counted up to here
    AgeCap,          \* bound: the age of a tick is counted up to here
    CanStop,         \* the process hosting a ticker may stop or crash
    CanFault         \* a storage call outside the task's try may raise

ASSUME SchedulerAssumption ==
    /\ Defaults \subseteq Tasks
    /\ Tasks \subseteq Jobs
    /\ Loop \in Tickers
    /\ NoJob \notin Jobs
    /\ Delays \in [Schedules -> SUBSET (Nat \ {0})]
    /\ DefaultSchedule \in Schedules
    /\ Limits \subseteq Nat
    /\ DefaultLimit \in Nat
    /\ Poll \in Nat \ {0}
    /\ RetryCap \in Nat
    /\ AgeCap \in Nat
    /\ CanStop \in BOOLEAN
    /\ CanFault \in BOOLEAN

\* The two bounds lose nothing: beyond them every comparison of the code
\* already has its final answer.
ASSUME BoundsLoseNothing ==
    /\ \A m \in Limits \cup {DefaultLimit} : m <= RetryCap
    /\ \A s \in Schedules : \A d \in Delays[s] : d <= AgeCap
    /\ 2 * Poll <= AgeCap

VARIABLES
    table,    \* table[j]: the row of j (status "absent": no row)
    pc,       \* pc[t]: "idle", "between" two jobs, "task", "retry"
    age,      \* age[t]: time since the tick of t read its `current'
    todo,     \* todo[t]: the due jobs of the tick not yet taken up
    snap,     \* snap[t][j]: the row of j as the tick's SELECT returned it
    doing,    \* doing[t]: the job the tick is at
    rest,     \* time scheduler_loop still sleeps
    missing   \* the jobs register_default_jobs found unregistered

tick == <<pc, age, todo, snap, doing>>
vars == <<table, pc, age, todo, snap, doing, rest, missing>>

Row == [status : {"absent", "idle", "running", "failed"}, retries : 0..RetryCap,
        sched : Schedules, max : Limits \cup {DefaultLimit}, wait : Nat]

Blank == [status |-> "absent", retries |-> 0, sched |-> DefaultSchedule,
          max |-> DefaultLimit, wait |-> 0]

-----------------------------------------------------------------------------
(* The storage's statements, each one UPDATE or INSERT and its commit.     *)

\* An instant d after the tick's `current', seen from now.
Remaining(d, a) == IF d > a THEN d - a ELSE 0

RunningRow(r) == [r EXCEPT !.status = "running"]

\* Defect variant: success does not clear the failure count.
DoneRowKeepsRetries(r, w) ==
    [status |-> "idle", retries |-> r.retries, sched |-> r.sched, max |-> r.max,
     wait |-> w]

DoneRow(r, w) ==
    [status |-> "idle", retries |-> 0, sched |-> r.sched, max |-> r.max, wait |-> w]

FailedRow(r) ==
    [status |-> "failed",
     retries |-> IF r.retries < RetryCap THEN r.retries + 1 ELSE r.retries,
     sched |-> r.sched, max |-> r.max, wait |-> r.wait]

\* Defect variant: the upsert also resets the row's progress.
UpsertRowResets(r, s, w, m) ==
    [status |-> "idle", retries |-> 0, sched |-> s, max |-> m, wait |-> w]

\* On conflict status and retries keep their values.
UpsertRow(r, s, w, m) ==
    [status |-> IF r.status = "absent" THEN "idle" ELSE r.status,
     retries |-> IF r.status = "absent" THEN 0 ELSE r.retries,
     sched |-> s, max |-> m, wait |-> w]

\* Defect variant: a failed job is not selected again.
DueJobsIdleOnly == {j \in Jobs : table[j].status = "idle" /\ table[j].wait = 0}

DueJobs == {j \in Jobs : /\ table[j].status \notin {"absent", "running"}
                         /\ table[j].wait = 0}

-----------------------------------------------------------------------------
(* run_due_jobs_once, one action per await.                                *)

Init == /\ table \in [Jobs -> {Blank, [Blank EXCEPT !.status = "idle"]}]
        /\ \A j \in Tasks : table[j] = Blank
        /\ pc = [t \in Tickers |-> "idle"]
        /\ age = [t \in Tickers |-> 0]
        /\ todo = [t \in Tickers |-> {}]
        /\ snap = [t \in Tickers |-> [j \in Jobs |-> Blank]]
        /\ doing = [t \in Tickers |-> NoJob]
        /\ rest = 0
        /\ missing = {}

StartTick(t) ==
    /\ pc[t] = "idle"
    /\ t = Loop => rest = 0
    /\ pc' = [pc EXCEPT ![t] = "between"]
    /\ todo' = [todo EXCEPT ![t] = DueJobs]
    /\ snap' = [snap EXCEPT ![t] =
                  [j \in Jobs |-> IF j \in DueJobs THEN table[j] ELSE Blank]]
    /\ UNCHANGED <<table, age, doing, rest, missing>>

\* The ticker is done with j and turns to the next due job.
Leave(t, j) ==
    /\ pc' = [pc EXCEPT ![t] = "between"]
    /\ doing' = [doing EXCEPT ![t] = NoJob]
    /\ snap' = [snap EXCEPT ![t][j] = Blank]

SkipUnknownTask(t, j) ==
    /\ pc[t] = "between"
    /\ j \in todo[t] \ Tasks
    /\ table' = [table EXCEPT ![j] = FailedRow(@)]
    /\ todo' = [todo EXCEPT ![t] = @ \ {j}]
    /\ Leave(t, j)
    /\ UNCHANGED <<age, rest, missing>>

MarkJobRunning(t, j) ==
    /\ pc[t] = "between"
    /\ j \in todo[t] \cap Tasks
    /\ table' = [table EXCEPT ![j] = RunningRow(@)]
    /\ todo' = [todo EXCEPT ![t] = @ \ {j}]
    /\ doing' = [doing EXCEPT ![t] = j]
    /\ pc' = [pc EXCEPT ![t] = "task"]
    /\ UNCHANGED <<age, snap, rest, missing>>

\* The next run is computed from the snapshot's schedule and from `current'.
TaskSucceeds(t) ==
    /\ pc[t] = "task"
    /\ LET j == doing[t] IN
         /\ \E d \in Delays[snap[t][j].sched] :
              table' = [table EXCEPT ![j] = DoneRow(@, Remaining(d, age[t]))]
         /\ Leave(t, j)
    /\ UNCHANGED <<age, todo, rest, missing>>

\* Defect variant: the last failure is logged but not written.
TaskFailsSilently(t) ==
    /\ pc[t] = "task"
    /\ LET j == doing[t]
           exhausted == snap[t][j].retries + 1 >= snap[t][j].max IN
         IF exhausted
         THEN Leave(t, j) /\ UNCHANGED table
         ELSE /\ table' = [table EXCEPT ![j] = FailedRow(@)]
              /\ pc' = [pc EXCEPT ![t] = "retry"]
              /\ UNCHANGED <<snap, doing>>
    /\ UNCHANGED <<age, todo, rest, missing>>

\* The task, next_run_from_cron or mark_job_done raised.
TaskFails(t) ==
    /\ pc[t] = "task"
    /\ LET j == doing[t]
           exhausted == snap[t][j].retries + 1 >= snap[t][j].max IN
         /\ table' = [table EXCEPT ![j] = FailedRow(@)]
         /\ IF exhausted
            THEN Leave(t, j)
            ELSE /\ pc' = [pc EXCEPT ![t] = "retry"]
                 /\ UNCHANGED <<snap, doing>>
    /\ UNCHANGED <<age, todo, rest, missing>>

RetrySoon(t) ==
    /\ pc[t] = "retry"
    /\ LET j == doing[t]
           seen == snap[t][j] IN
         /\ table' = [table EXCEPT ![j] =
              UpsertRow(@, seen.sched, Remaining(2 * Poll, age[t]), seen.max)]
         /\ Leave(t, j)
    /\ UNCHANGED <<age, todo, rest, missing>>

\* The coroutine of t is gone: its locals are lost, the table is not.
Abandon(t) ==
    /\ pc' = [pc EXCEPT ![t] = "idle"]
    /\ age' = [age EXCEPT ![t] = 0]
    /\ todo' = [todo EXCEPT ![t] = {}]
    /\ snap' = [snap EXCEPT ![t] = [j \in Jobs |-> Blank]]
    /\ doing' = [doing EXCEPT ![t] = NoJob]

Sleep(t) == rest' = IF t = Loop THEN Poll ELSE rest

EndTick(t) ==
    /\ pc[t] = "between"
    /\ todo[t] = {}
    /\ Abandon(t)
    /\ Sleep(t)
    /\ UNCHANGED <<table, missing>>

\* A storage call that no handler covers raises: mark_job_running, or, in
\* the handler itself, mark_job_failed ("task") or upsert_job ("retry").
StorageFault(t) ==
    /\ CanFault
    /\ \/ pc[t] = "between" /\ todo[t] # {}
       \/ pc[t] \in {"task", "retry"}
    /\ Abandon(t)
    /\ Sleep(t)
    /\ UNCHANGED <<table, missing>>

\* The process dies, or the loop's task is cancelled: CancelledError is no
\* Exception, so the handler does not run.  A restarted loop ticks at once.
Stop(t) ==
    /\ CanStop
    /\ pc[t] # "idle"
    /\ Abandon(t)
    /\ rest' = IF t = Loop THEN 0 ELSE rest
    /\ UNCHANGED <<table, missing>>

-----------------------------------------------------------------------------
(* The endpoints and the clock.                                            *)

UpsertSchedulerJob(j) ==
    /\ j \in Tasks
    /\ \E s \in Schedules, m \in Limits : \E d \in Delays[s] :
         table' = [table EXCEPT ![j] = UpsertRow(@, s, d, m)]
    /\ UNCHANGED <<tick, rest, missing>>

\* register_default_jobs: the list is read once, the rows written one by one.
ListMissingDefaults ==
    /\ missing = {}
    /\ missing' = {j \in Defaults : table[j].status = "absent"}
    /\ UNCHANGED <<table, tick, rest>>

InstallDefault(j) ==
    /\ j \in missing
    /\ missing' = missing \ {j}
    /\ \E d \in Delays[DefaultSchedule] :
         table' = [table EXCEPT ![j] =
                     UpsertRow(@, DefaultSchedule, d, DefaultLimit)]
    /\ UNCHANGED <<tick, rest>>

Elapse ==
    /\ table' = [j \in Jobs |->
                   [table[j] EXCEPT !.wait = IF @ > 0 THEN @ - 1 ELSE 0]]
    /\ age' = [t \in Tickers |->
                 IF pc[t] = "idle" \/ age[t] = AgeCap THEN age[t] ELSE age[t] + 1]
    /\ rest' = IF rest > 0 THEN rest - 1 ELSE 0
    /\ UNCHANGED <<pc, todo, snap, doing, missing>>

-----------------------------------------------------------------------------

InTick(t) == \/ \E j \in Jobs : SkipUnknownTask(t, j) \/ MarkJobRunning(t, j)
             \/ TaskSucceeds(t) \/ TaskFails(t) \/ RetrySoon(t) \/ EndTick(t)

Disturb(t) == Stop(t) \/ StorageFault(t)

Next == \/ \E t \in Tickers : StartTick(t) \/ InTick(t) \/ Disturb(t)
        \/ \E j \in Jobs : UpsertSchedulerJob(j) \/ InstallDefault(j)
        \/ ListMissingDefaults
        \/ Elapse

Spec == Init /\ [][Next]_vars

\* Clocks advance, the loop wakes up when its sleep is over, and a tick that
\* has begun goes on: tasks return or raise.  Nobody has to call the manual
\* tick or the endpoints.
Fairness == /\ WF_vars(Elapse)
            /\ WF_vars(StartTick(Loop))
            /\ \A t \in Tickers : WF_vars(InTick(t))

FairSpec == Spec /\ Fairness

-----------------------------------------------------------------------------
(* Properties.                                                             *)

\* Every variable stays in its range (the rows of the jobs table, what a
\* tick of run_due_jobs_once keeps in its locals).
TypeOK ==
    /\ table \in [Jobs -> Row]
    /\ pc \in [Tickers -> {"idle", "between", "task", "retry"}]
    /\ age \in [Tickers -> 0..AgeCap]
    /\ todo \in [Tickers -> SUBSET Jobs]
    /\ snap \in [Tickers -> [Jobs -> Row]]
    /\ doing \in [Tickers -> Jobs \cup {NoJob}]
    /\ \A t \in Tickers : (doing[t] = NoJob) <=> (pc[t] \in {"idle", "between"})
    /\ rest \in 0..Poll
    /\ missing \subseteq Defaults

Executes(t, j) == pc[t] = "task" /\ doing[t] = j

\* The row says `running' and nobody is: get_due_jobs will never return it.
Stranded(j) == /\ table[j].status = "running"
               /\ \A t \in Tickers : ~Executes(t, j)

\* However ticks, upserts and default installation interleave, a job is left
\* `running' without an executor only by a stop or by a storage call that
\* raises outside the handler of run_due_jobs_once.
StrandedOnlyByDisturbance ==
    [][\A j \in Jobs : ~Stranded(j) /\ Stranded(j)' => \E t \in Tickers : Disturb(t)]_vars

Agrees(t, j) ==
    LET now == table[j]
        seen == snap[t][j] IN
    /\ j \in todo[t] => /\ now.status \in {"idle", "failed"}
                        /\ now.status = seen.status
                        /\ now.retries = seen.retries
    /\ Executes(t, j) => /\ now.status = "running"
                         /\ now.retries = seen.retries
                         /\ j \notin todo[t]
    /\ pc[t] = "retry" /\ doing[t] = j
         => /\ now.status = "failed"
            /\ now.retries = FailedRow(seen).retries
            /\ j \notin todo[t]

\* With one ticker, the snapshot a tick works from agrees with the table on
\* the status and the failure count of every job it has yet to finish, so the
\* retry decision of run_due_jobs_once counts the attempts really made -
\* although the endpoints rewrite the same rows meanwhile.
SnapshotAgrees == \A t \in Tickers, j \in Jobs : Agrees(t, j)

Phase(r) == IF r.status \in {"absent", "running"} THEN r.status ELSE "ready"

PhaseBar == [j \in Jobs |-> Phase(table[j])]
FailsBar == [j \in Jobs |-> table[j].retries]

Lifecycle == INSTANCE JobLifecycle WITH phase <- PhaseBar, fails <- FailsBar

\* With one ticker the scheduler implements the life cycle of a job: no
\* start of a running job, one outcome per start, exact failure counts.
ImplementsLifecycle == Lifecycle!Spec

\* A registered job is executed again and again, unless it is stranded, an
\* administrator postpones it for ever or the processes never stop failing.
JobsKeepRunning ==
    \A j \in Tasks :
       \/ (table[j].status # "absent")
             ~> (Stranded(j) \/ \E t \in Tickers : Executes(t, j))
       \/ []<><<UpsertSchedulerJob(j)>>_vars
       \/ []<><<\E t \in Tickers : Disturb(t)>>_vars

-----------------------------------------------------------------------------
(* What the documentation says and the code does not do.                   *)

\* scheduler.py: failed jobs are retried up to max_retries.  The job of a
\* tick that executes it has not used up its retries.
RetriesAreBounded ==
    \A t \in Tickers, j \in Jobs :
       Executes(t, j) => snap[t][j].retries < snap[t][j].max
=============================================================================

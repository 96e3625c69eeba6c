------------------------------- MODULE Scheduler -------------------------------
(***************************************************************************)
(* The scheduler process: src/yfin/scheduler/service.py (firing, job       *)
(* threads, reload, stop), runs.py (the scheduler_runs rows), jobs.py (the *)
(* jobs and their two queues), and what meets them in the database: the    *)
(* sync_runs row of a child (pipeline/audit.py) and the retention of both  *)
(* tables (pipeline/prune.py).                                             *)
(*                                                                         *)
(* A firing waits in the queue of its executor, `yahoo` with one thread or *)
(* `default` with four; the thread opens a row, spawns `yfin <command>` in *)
(* a process group of its own, registers the group, waits for the child,   *)
(* closes the row and then updates what the exporter publishes.  Children  *)
(* live on when the scheduler dies.  A run of a job and its row share an   *)
(* identifier; a manual `yfin sync` is a run without a job or a row.       *)
(***************************************************************************)
EXTENDS Integers, FiniteSets, Sequences

CONSTANTS
    Jobs,          \* the jobs of JOBS
    Yahoo,         \* those whose executor is `yahoo`
    Syncing,       \* those whose command takes the sync lock and opens a sync_runs row
    DefaultSize,   \* threads of the `default` executor
    Grace,         \* misfire_grace_time
    Day,           \* age at which an unfinished sync run cannot be healthy
    Retention,     \* age at which `yfin prune` deletes finished runs
    MaxTime,       \* bound: clock
    MaxRuns,       \* bound: rows and processes
    MaxStops,      \* bound: signals to the scheduler
    MaxEvents,     \* bound: crashes, kills, database errors and changed schedules, together
    Manual         \* bound: whether somebody starts a sync by hand

ASSUME SchedulerAssumption ==
    /\ IsFiniteSet(Jobs) /\ Yahoo \subseteq Jobs /\ Syncing \subseteq Yahoo
    /\ DefaultSize \in Nat \ {0}
    /\ Grace \in Nat /\ Day \in Nat /\ Retention \in Nat
    /\ MaxTime \in Nat \ {0} /\ MaxRuns \in Nat
    /\ MaxStops \in Nat /\ MaxEvents \in Nat
    /\ Manual \in BOOLEAN

Runs == 1..MaxRuns
NoRun == 0
NoJob == "none"
ASSUME NoJobAssumption == NoJob \notin Jobs

Pools == {"yahoo", "default"}
Pool(j) == IF j \in Yahoo THEN "yahoo" ELSE "default"
\* Mutant: both executors get the size of the default one.
SizeSame(p) == DefaultSize

Size(p) == IF p = "yahoo" THEN 1 ELSE DefaultSize

\* result_for: exit codes of a command; a killed child has a code of its own.
ResultFor(code) ==
    CASE code = 0 -> "ok" [] code = 2 -> "partial" [] code = 4 -> "locked" [] OTHER -> "failed"

Killed == 9
Codes == {0, 1, 2, 4, Killed}
Closing == {"ok", "partial", "locked", "failed", "terminated", "misfired", "skipped"}

VARIABLES
    time,       \* the clock
    life,       \* which scheduler process: rows remember who opened them
    phase,      \* "up"; stop() in "signal", "wait", "leave"; "down"
    setting,    \* jobs with a cron expression in the settings table
    state,      \* per job: registered, built (when its trigger was), success (exporter's gauge)
    queue,      \* firings submitted to an executor and not started
    thread,     \* per job: where its executor thread is, and in which run
    row,        \* scheduler_runs
    child,      \* the process of a run and its sync_runs row
    last,       \* the last identifier taken
    fired,      \* history: firings of each job in this life
    lost,       \* history: rows of this life whose insert or update failed
    events

vars == <<time, life, phase, setting, state, queue, thread, row, child, last,
          fired, lost, events>>

Absent == [job |-> NoJob, at |-> 0, life |-> 0, result |-> "absent", end |-> 0]
Unborn == [proc |-> "none", code |-> 0, term |-> FALSE, sync |-> "none", since |-> 0]
Idle   == [at |-> "idle", run |-> NoRun]

\* _groups, and the jobs whose state says `running`.
Groups == {j \in Jobs : thread[j].at = "waiting"}
Busy(p) == {j \in Jobs : Pool(j) = p /\ thread[j].at # "idle"}
Alive == {r \in Runs : child[r].proc = "alive"}
\* Mutant: the pools are shut down without waiting for their threads.
ThreadsUp == phase = "up"

Threads == phase # "down"          \* the interpreter joins pool threads before it exits

\* The advisory lock of a sync lives in the session of the process that holds it.
Locked == \E r \in Alive : child[r].sync = "running"

--------------------------------------------------------------------------------
(* The start: build(), close_orphans, close_orphan_sync_runs, last_success. *)

Orphaned(r) == row[r].result = "open"
RowsClosed == [r \in Runs |->
    IF Orphaned(r) THEN [row[r] EXCEPT !.result = "terminated", !.end = time] ELSE row[r]]

\* Mutant: every unfinished sync run that no scheduler row covers is closed.
StaleSyncAnyAge(r) ==
    /\ child[r].sync = "running"
    /\ row[r].job = NoJob \/ RowsClosed[r].result = "terminated"

\* A day is the age at which nobody can still be working on the run.
StaleSync(r) ==
    /\ child[r].sync = "running" /\ child[r].since < time - Day
    /\ row[r].job = NoJob \/ RowsClosed[r].result = "terminated"
SyncsClosed == [r \in Runs |->
    IF StaleSync(r) THEN [child[r] EXCEPT !.sync = "failed"] ELSE child[r]]

\* The newest successful finish of a job among rows, 0 when there is none.
Newest(rows, j) ==
    LET ends == {rows[r].end : r \in {x \in Runs : rows[x].job = j /\ rows[x].result = "ok"}}
    IN  IF ends = {} THEN 0 ELSE CHOOSE e \in ends : \A f \in ends : f <= e

\* Mutant: the gauges start from nothing.
BuiltUnseeded == [j \in Jobs |-> [registered |-> setting[j], built |-> time, success |-> 0]]

Built == [j \in Jobs |->
    [registered |-> setting[j], built |-> time, success |-> Newest(RowsClosed, j)]]

Start ==
    /\ phase = "down"
    /\ phase' = "up" /\ life' = life + 1
    /\ row' = RowsClosed /\ child' = SyncsClosed /\ state' = Built
    /\ fired' = [j \in Jobs |-> 0] /\ lost' = [j \in Jobs |-> 0]
    /\ UNCHANGED <<time, setting, queue, thread, last, events>>

--------------------------------------------------------------------------------
(* Firing. *)

\* EVENT_JOB_MAX_INSTANCES: an instance of the job waits or runs.
InFlight(j) == thread[j].at # "idle" \/ \E i \in DOMAIN queue[Pool(j)] : queue[Pool(j)][i].job = j

\* `at` is the column scheduled_at.
Opened(j, at, result, end) ==
    [row EXCEPT ![last + 1] = [job |-> j, at |-> at, life |-> life, result |-> result, end |-> end]]

\* Bound: an identifier is left for every firing that waits.
Waiting == Len(queue["yahoo"]) + Len(queue["default"])
Room == last + Waiting < MaxRuns

Due(j) == phase = "up" /\ state[j].registered /\ Room

Fire(j) ==
    /\ Due(j) /\ ~InFlight(j)
    /\ queue' = [queue EXCEPT ![Pool(j)] = Append(@, [job |-> j, time |-> time])]
    /\ fired' = [fired EXCEPT ![j] = @ + 1]
    /\ UNCHANGED <<time, life, phase, setting, state, thread, row, child, last, lost, events>>

Skip(j) ==
    /\ Due(j) /\ InFlight(j)
    /\ row' = Opened(j, time, "skipped", time) /\ last' = last + 1
    /\ fired' = [fired EXCEPT ![j] = @ + 1]
    /\ UNCHANGED <<time, life, phase, setting, state, queue, thread, child, lost, events>>

--------------------------------------------------------------------------------
(* The executor thread of a job: _run_job, or a misfire. *)

Oldest(p) == Head(queue[p])
CanStart(p) == Threads /\ queue[p] # <<>> /\ Cardinality(Busy(p)) < Size(p)
Late(p) == time - Oldest(p).time > Grace
Pop(p) == queue' = [queue EXCEPT ![p] = Tail(@)]

Misfire(p) ==
    /\ CanStart(p) /\ Late(p) /\ Pop(p)
    /\ row' = Opened(Oldest(p).job, Oldest(p).time, "misfired", time) /\ last' = last + 1
    /\ UNCHANGED <<time, life, phase, setting, state, thread, child, fired, lost, events>>

\* `args=[job, datetime.now(UTC)]`: the time a row is given is the time its trigger was built.
OpenRow(p) ==
    /\ CanStart(p) /\ ~Late(p) /\ Pop(p)
    /\ LET j == Oldest(p).job IN
         /\ row' = Opened(j, state[j].built, "open", 0) /\ last' = last + 1
         /\ thread' = [thread EXCEPT ![j] = [at |-> "opened", run |-> last + 1]]
    /\ UNCHANGED <<time, life, phase, setting, state, child, fired, lost, events>>

At(j, step) == Threads /\ thread[j].at = step
Go(j, step) == thread' = [thread EXCEPT ![j].at = step]

Spawn(j) ==
    /\ At(j, "opened") /\ Go(j, "spawned")
    /\ child' = [child EXCEPT ![thread[j].run].proc = "alive"]
    /\ UNCHANGED <<time, life, phase, setting, state, queue, row, last, fired, lost, events>>

SpawnFails(j) ==
    /\ At(j, "opened") /\ events < MaxEvents
    /\ row' = [row EXCEPT ![thread[j].run].result = "failed", ![thread[j].run].end = time]
    /\ thread' = [thread EXCEPT ![j] = Idle]
    /\ events' = events + 1
    /\ UNCHANGED <<time, life, phase, setting, state, queue, child, last, fired, lost>>

\* Only now does the process group of the child become visible to stop().
Register(j) ==
    /\ At(j, "spawned") /\ Go(j, "waiting")
    /\ UNCHANGED <<time, life, phase, setting, state, queue, row, child, last, fired, lost, events>>

Reap(j) ==
    /\ At(j, "waiting") /\ child[thread[j].run].proc = "gone" /\ Go(j, "reaped")
    /\ UNCHANGED <<time, life, phase, setting, state, queue, row, child, last, fired, lost, events>>

\* A job that ends while the scheduler stops is `terminated`, whatever its exit code.
Result(j) == IF phase = "up" THEN ResultFor(child[thread[j].run].code) ELSE "terminated"

CloseRow(j) ==
    /\ At(j, "reaped") /\ Go(j, IF Result(j) = "ok" THEN "succeeded" ELSE "closed")
    /\ row' = [row EXCEPT ![thread[j].run].result = Result(j), ![thread[j].run].end = time]
    /\ UNCHANGED <<time, life, phase, setting, state, queue, child, last, fired, lost, events>>

\* open_run or close_run raises: the thread ends without its row, or with an open one.
OpenFails(p) ==
    /\ CanStart(p) /\ ~Late(p) /\ Pop(p) /\ events < MaxEvents
    /\ lost' = [lost EXCEPT ![Oldest(p).job] = @ + 1] /\ events' = events + 1
    /\ UNCHANGED <<time, life, phase, setting, state, thread, row, child, last, fired>>

CloseFails(j) ==
    /\ At(j, "reaped") /\ events < MaxEvents
    /\ thread' = [thread EXCEPT ![j] = Idle] /\ events' = events + 1
    /\ UNCHANGED <<time, life, phase, setting, state, queue, row, child, last, fired, lost>>

\* The thread goes by the result it gave its row, which may be pruned by now.
RecordResult(j) ==
    /\ At(j, "closed") \/ At(j, "succeeded")
    /\ thread' = [thread EXCEPT ![j] = Idle]
    /\ state' = IF thread[j].at = "succeeded" THEN [state EXCEPT ![j].success = time] ELSE state
    /\ UNCHANGED <<time, life, phase, setting, queue, row, child, last, fired, lost, events>>

--------------------------------------------------------------------------------
(* Children. *)

Ended(r, code, sync) == child' = [child EXCEPT ![r].proc = "gone", ![r].code = code, ![r].sync = sync,
                                                  ![r].since = 0]
IsSync(r) == row[r].job \in Syncing \cup {NoJob}
SchedulerKeeps == <<time, life, phase, setting, state, queue, thread, fired, lost>>

StartManual ==
    /\ Manual /\ Room /\ \A r \in Runs : child[r].proc = "none" \/ row[r].job # NoJob
    /\ last' = last + 1
    /\ child' = [child EXCEPT ![last + 1].proc = "alive"]
    /\ UNCHANGED <<SchedulerKeeps, row, events>>

\* The lock first, then the audit row: without the lock the command exits with 4.
OpenSync(r) ==
    /\ r \in Alive /\ IsSync(r) /\ child[r].sync = "none"
    /\ IF Locked
         THEN Ended(r, 4, "none")
         ELSE child' = [child EXCEPT ![r].sync = "running", ![r].since = time]
    /\ UNCHANGED <<SchedulerKeeps, row, last, events>>

\* The command's own end, after SIGTERM too: its finalizer closes the audit row.
Finish(r) ==
    /\ r \in Alive /\ (IsSync(r) => child[r].sync = "running")
    /\ \E code \in {0, 1, 2} : Ended(r, code, IF IsSync(r) THEN "done" ELSE "none")
    /\ UNCHANGED <<SchedulerKeeps, row, last, events>>

Dead(r) == [child[r] EXCEPT !.proc = "gone", !.code = Killed]

Die(r) ==
    /\ r \in Alive /\ events < MaxEvents
    /\ child' = [child EXCEPT ![r] = Dead(r)] /\ events' = events + 1
    /\ UNCHANGED <<SchedulerKeeps, row, last>>

--------------------------------------------------------------------------------
(* Reload, stop, crash, retention, time. *)

\* reload(): a job's cron appears, moves (reschedule_job keeps the time its trigger was
\* built with) or goes; a job that waits or runs is left alone.
Reload(j, on) ==
    /\ phase = "up" /\ events < MaxEvents /\ (on \/ state[j].registered)
    /\ setting' = [setting EXCEPT ![j] = on]
    /\ state' = [state EXCEPT ![j].registered = on,
                              ![j].built = IF on /\ ~state[j].registered THEN time ELSE @]
    /\ events' = events + 1
    /\ UNCHANGED <<time, life, phase, queue, thread, row, child, last, fired, lost>>

Stop ==
    /\ phase = "up" /\ life <= MaxStops /\ phase' = "signal"
    /\ UNCHANGED <<time, life, setting, state, queue, thread, row, child, last, fired, lost, events>>

GroupRuns == {thread[j].run : j \in Groups}

\* The snapshot of _groups; SIGTERM to each group in it.
Terminate ==
    /\ phase = "signal" /\ phase' = "wait"
    /\ child' = [r \in Runs |-> IF r \in GroupRuns THEN [child[r] EXCEPT !.term = TRUE] ELSE child[r]]
    /\ UNCHANGED <<time, life, setting, state, queue, thread, row, last, fired, lost, events>>

AllEnded ==
    /\ phase = "wait" /\ Groups = {} /\ phase' = "leave"
    /\ UNCHANGED <<time, life, setting, state, queue, thread, row, child, last, fired, lost, events>>

\* The wait runs out: SIGKILL to the groups there are now.
Kill ==
    /\ phase = "wait" /\ Groups # {} /\ phase' = "leave"
    /\ child' = [r \in Runs |-> IF r \in GroupRuns \cap Alive
                                  THEN [Dead(r) EXCEPT !.term = TRUE] ELSE child[r]]
    /\ UNCHANGED <<time, life, setting, state, queue, thread, row, last, fired, lost, events>>

Exit ==
    /\ phase = "leave" /\ \A p \in Pools : queue[p] = <<>> /\ Busy(p) = {}
    /\ phase' = "down"
    /\ UNCHANGED <<time, life, setting, state, queue, thread, row, child, last, fired, lost, events>>

\* The scheduler dies, and with it some of the children (all, when its container goes).
Crash(dying) ==
    /\ phase # "down" /\ events < MaxEvents /\ dying \subseteq Alive
    /\ phase' = "down" /\ events' = events + 1
    /\ queue' = [p \in Pools |-> <<>>] /\ thread' = [j \in Jobs |-> Idle]
    /\ child' = [r \in Runs |-> IF r \in dying THEN Dead(r) ELSE child[r]]
    /\ UNCHANGED <<time, life, setting, state, row, last, fired, lost>>

\* prune_audit: finished scheduler rows by their scheduled_at.
Pruned == {r \in Runs : row[r].result \in Closing /\ row[r].at < time - Retention}
PruneAudit ==
    /\ Pruned # {}
    /\ row' = [r \in Runs |-> IF r \in Pruned THEN [row[r] EXCEPT !.result = "pruned"] ELSE row[r]]
    /\ UNCHANGED <<time, life, phase, setting, state, queue, thread, child, last, fired, lost, events>>

\* A run older than a day cannot be healthy (runs.py:118): its process is gone by then.
Tick ==
    /\ time < MaxTime /\ time' = time + 1
    /\ \A r \in Alive : child[r].sync = "running" => time - child[r].since < Day
    /\ UNCHANGED <<life, phase, setting, state, queue, thread, row, child, last, fired, lost, events>>

--------------------------------------------------------------------------------
Init ==
    /\ time = 1 /\ life = 0 /\ phase = "down"
    /\ setting = [j \in Jobs |-> TRUE]
    /\ state = [j \in Jobs |-> [registered |-> FALSE, built |-> 0, success |-> 0]]
    /\ queue = [p \in Pools |-> <<>>] /\ thread = [j \in Jobs |-> Idle]
    /\ row = [r \in Runs |-> Absent] /\ child = [r \in Runs |-> Unborn]
    /\ last = 0 /\ fired = [j \in Jobs |-> 0] /\ lost = [j \in Jobs |-> 0]
    /\ events = 0

JobThread(j) == Spawn(j) \/ Register(j) \/ Reap(j) \/ CloseRow(j) \/ RecordResult(j)
Executor(p) == Misfire(p) \/ OpenRow(p)
Stopping == Terminate \/ AllEnded \/ Kill \/ Exit

Next ==
    \/ Start \/ Stopping \/ Stop
    \/ \E j \in Jobs : Fire(j) \/ Skip(j) \/ JobThread(j) \/ SpawnFails(j) \/ CloseFails(j)
    \/ \E p \in Pools : Executor(p) \/ OpenFails(p)
    \/ \E r \in Runs : OpenSync(r) \/ Finish(r) \/ Die(r)
    \/ \E j \in Jobs, on \in BOOLEAN : Reload(j, on)
    \/ \E dying \in SUBSET Runs : Crash(dying)
    \/ StartManual \/ PruneAudit \/ Tick

Spec == Init /\ [][Next]_vars

\* Threads run, stop() goes on, a supervised scheduler is started again, and commands
\* end; signals, firings, crashes and the clock are not forced.
Fairness ==
    /\ WF_vars(Start) /\ WF_vars(Stopping)
    /\ \A j \in Jobs : WF_vars(JobThread(j))
    /\ \A p \in Pools : WF_vars(Executor(p))
    /\ \A r \in Runs : WF_vars(OpenSync(r) \/ Finish(r))

FairSpec == Spec /\ Fairness

--------------------------------------------------------------------------------
(* Properties. *)

Steps == {"idle", "opened", "spawned", "waiting", "reaped", "closed", "succeeded"}
Times == 0..MaxTime

TypeOK ==
    /\ time \in Times /\ life \in Nat /\ last \in 0..MaxRuns
    /\ phase \in {"up", "signal", "wait", "leave", "down"}
    /\ setting \in [Jobs -> BOOLEAN]
    /\ state \in [Jobs -> [registered : BOOLEAN, built : Times, success : Times]]
    /\ queue \in [Pools -> Seq([job : Jobs, time : Times])]
    /\ thread \in [Jobs -> [at : Steps, run : 0..MaxRuns]]
    /\ row \in [Runs -> [job : Jobs \cup {NoJob}, at : Times, life : Nat,
                         result : Closing \cup {"absent", "open", "pruned"}, end : Times]]
    /\ child \in [Runs -> [proc : {"none", "alive", "gone"}, code : Codes, term : BOOLEAN,
                           sync : {"none", "running", "done", "failed"}, since : Times]]
    /\ fired \in [Jobs -> Nat] /\ lost \in [Jobs -> Nat]
    /\ events \in 0..MaxEvents

\* "nothing that talks to Yahoo or takes the sync lock overlaps" (service.py:3): of the
\* children one scheduler process spawned, at most one of the yahoo queue is alive, and
\* at most one of each job.
NoOverlap ==
    \A r, s \in Alive :
        /\ r # s /\ row[r].life = row[s].life /\ row[r].job # NoJob /\ row[s].job # NoJob
        => row[r].job # row[s].job /\ ~(row[r].job \in Yahoo /\ row[s].job \in Yahoo)

\* "a job that quietly did not run is what this table exists to make visible" (runs.py:95):
\* in one life, every firing waits in a queue, has a row, or failed to insert it.
EveryFiringRecorded ==
    phase # "down" => \A j \in Jobs :
        fired[j] = Cardinality({r \in Runs : row[r].job = j /\ row[r].life = life})
                 + Cardinality({i \in DOMAIN queue[Pool(j)] : queue[Pool(j)][i].job = j})
                 + lost[j]

\* A row is closed after its child is gone, with the word for its exit code; only an
\* orphan row may be closed while its process runs on.
RowsTellTheEnd ==
    \A r \in Runs :
        /\ row[r].result \in {"ok", "partial", "locked"} =>
              child[r].proc = "gone" /\ row[r].result = ResultFor(child[r].code)
        /\ row[r].result = "failed" => child[r].proc # "alive"
        /\ (row[r].result \in Closing /\ row[r].life = life /\ phase # "down") => child[r].proc # "alive"

\* The gauge behind JobOverdue is the newest success on record, across restarts and
\* failed updates, except between a success's commit and its thread's next step.
SuccessIsOnRecord ==
    phase = "up" => \A j \in Jobs :
        \/ thread[j].at = "succeeded"
        \/ state[j].success >= Newest(row, j)

\* Closing the audit rows of a scheduler that died never touches a run that is alive.
LiveSyncUntouched == \A r \in Alive : child[r].sync # "failed"

\* A stop ends: the children are gone, their threads joined, the process leaves.
StopEnds == (phase \in {"signal", "wait", "leave"}) ~> (phase = "down")

\* Every row a scheduler opened is closed, by its thread or by the next scheduler; one
\* whose update failed waits for that next scheduler.
RowsGetClosed ==
    \A r \in Runs : row[r].result = "open" ~>
        \/ row[r].result # "open"
        \/ phase # "down" /\ row[r].life = life /\ \A j \in Jobs : thread[j].run # r

\* What the operator reads of the jobs is true: their rows, and the gauge of the last
\* success that JobOverdue compares with.
RecordsHonest == TypeOK /\ EveryFiringRecorded /\ RowsTellTheEnd /\ SuccessIsOnRecord

\* What was begun is ended: a stop, and the row of every run.
AllEnds == StopEnds /\ RowsGetClosed
================================================================================

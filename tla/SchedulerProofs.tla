--------------------------- MODULE SchedulerProofs ---------------------------
(***************************************************************************)
(* What the scheduler promises, for every set of jobs, every size of the   *)
(* default executor and every bound: its types, one live child per job and *)
(* one for the whole yahoo queue, an account of every firing, rows that    *)
(* tell how their child ended, a gauge that is not behind the record, and  *)
(* audit rows that are never closed under a run that is alive.             *)
(*                                                                         *)
(* The inductive invariant ties each executor thread to the row and the    *)
(* child of its run, and each live child of this life back to its thread.  *)
(***************************************************************************)
EXTENDS Scheduler, FiniteSetTheorems, WellFoundedInduction, TLAPS

--------------------------------------------------------------------------------
(* The inductive invariant. *)

\* A dead scheduler has no threads and no queues.
DownIsEmpty ==
    phase = "down" => /\ \A j \in Jobs : thread[j].at = "idle"
                      /\ \A p \in Pools : queue[p] = <<>>

\* Identifiers not taken yet name nothing.
Fresh == \A r \in Runs : r > last => row[r] = Absent /\ child[r].proc = "none"

Rows ==
    \A r \in Runs : /\ row[r].job = NoJob => row[r].result = "absent"
                    /\ row[r].life <= life
                    /\ row[r].end <= time

\* What waits in a queue belongs there, waits once, and has no thread yet.
Queued ==
    \A p \in Pools : \A i \in DOMAIN queue[p] :
        /\ Pool(queue[p][i].job) = p
        /\ thread[queue[p][i].job].at = "idle"
        /\ \A k \in DOMAIN queue[p] : queue[p][k].job = queue[p][i].job => k = i

\* The yahoo executor has one thread.
OneYahoo == \A i, j \in Yahoo : thread[i].at # "idle" /\ thread[j].at # "idle" => i = j

\* A thread's run is its job's, in this life; where it is, its row and its child are.
HasRun(j) ==
    LET r == thread[j].run IN
    /\ r \in Runs /\ r <= last
    /\ row[r].job = j /\ row[r].life = life
    /\ thread[j].at = "opened" => child[r].proc = "none"
    /\ thread[j].at \in {"spawned", "waiting"} => child[r].proc # "none"
    /\ thread[j].at \in {"reaped", "closed", "succeeded"} => child[r].proc = "gone"
    /\ thread[j].at \in {"opened", "spawned", "waiting", "reaped"} => row[r].result = "open"
Threaded == \A j \in Jobs : thread[j].at # "idle" => HasRun(j)

\* A live child of this life has a thread that waits for it, or is about to.
Ours(r) == child[r].proc = "alive" /\ row[r].job # NoJob /\ row[r].life = life /\ phase # "down"
WatchedBy(j, r) == thread[j].at \in {"spawned", "waiting"} /\ thread[j].run = r
Watched == \A r \in Runs : Ours(r) => WatchedBy(row[r].job, r)

\* Every firing in a queue has an identifier left for its row.
Reserved == last + Waiting <= MaxRuns

\* A process that does not run has no audit row; one that does was started within a day.
Healthy ==
    \A r \in Runs :
        /\ child[r].proc = "none" => child[r].sync = "none"
        /\ child[r].proc = "alive" /\ child[r].sync = "running" => time - child[r].since <= Day

\* The successes of a job, but for the one its thread is about to count, are not newer
\* than its gauge.
Gauged ==
    phase = "up" => \A j \in Jobs : \A r \in Runs :
        row[r].job = j /\ row[r].result = "ok" =>
            \/ row[r].end <= state[j].success
            \/ thread[j].at = "succeeded"

Placed == DownIsEmpty /\ Fresh /\ Rows /\ Queued /\ OneYahoo /\ Threaded /\ Watched /\ Reserved
Inv == TypeOK /\ Placed

--------------------------------------------------------------------------------
(* The newest of some times, and the types.                                *)

Less == {p \in Nat \X Nat : p[1] < p[2]}

\* A set of times has a newest one.
LEMMA NewestExists ==
    ASSUME NEW S \in SUBSET Times, S # {}
    PROVE  \E x \in S : \A y \in S : y <= x
<1>1. MaxTime \in Nat /\ \A y \in S : y \in Nat /\ y <= MaxTime
  BY SchedulerAssumption DEF Times
<1>2. IsWellFoundedOn(Less, Nat)
  BY NatLessThanWellFounded DEF OpToRel, Less
<1> DEFINE T == {n \in Nat : MaxTime - n \in S}
<1>3. \A y \in S : MaxTime - y \in T
  BY <1>1
<1>4. PICK n \in T : \A m \in T : ~ (<<m, n>> \in Less)
  <2>1. T \subseteq Nat /\ T # {}
    BY <1>3
  <2> QED BY <1>2, <2>1, WFMin
<1>5. ASSUME NEW y \in S PROVE y <= MaxTime - n
  <2>1. MaxTime - y \in T
    BY <1>3
  <2>2. ~ (MaxTime - y < n)
    BY <1>4, <2>1 DEF Less
  <2> QED BY <1>1, <2>2
<1>6. MaxTime - n \in S
  BY <1>4
<1> QED BY <1>5, <1>6

\* last_success: a time, not before any success of the job, and one of them if not 0.
LEMMA NewestIs ==
    ASSUME NEW rows, NEW j, \A r \in Runs : rows[r].end \in Times
    PROVE  /\ Newest(rows, j) \in Times
           /\ \A r \in Runs : rows[r].job = j /\ rows[r].result = "ok" => rows[r].end <= Newest(rows, j)
           /\ \A t \in Times : (\A r \in Runs : rows[r].job = j /\ rows[r].result = "ok" => rows[r].end <= t)
                              => Newest(rows, j) <= t
<1> DEFINE ends == {rows[r].end : r \in {x \in Runs : rows[x].job = j /\ rows[x].result = "ok"}}
<1>1. ends \in SUBSET Times
  OBVIOUS
<1>2. \A r \in Runs : rows[r].job = j /\ rows[r].result = "ok" => rows[r].end \in ends
  OBVIOUS
<1>3. \A e \in ends : \E r \in Runs : rows[r].job = j /\ rows[r].result = "ok" /\ e = rows[r].end
  OBVIOUS
<1>4. Newest(rows, j) = IF ends = {} THEN 0 ELSE CHOOSE e \in ends : \A f \in ends : f <= e
  BY Zenon DEF Newest
<1> HIDE DEF ends
<1>5. CASE ends = {}
  <2>1. Newest(rows, j) = 0
    BY <1>4, <1>5
  <2> QED BY <1>2, <1>5, <2>1, SchedulerAssumption DEF Times
<1>6. CASE ends # {}
  <2>1. \E e \in ends : \A f \in ends : f <= e
    BY <1>1, <1>6, NewestExists
  <2>2. Newest(rows, j) \in ends /\ \A f \in ends : f <= Newest(rows, j)
    BY <1>4, <1>6, <2>1
  <2> QED BY <1>1, <1>2, <1>3, <2>2
<1> QED BY <1>5, <1>6

Row == [job : Jobs \cup {NoJob}, at : Times, life : Nat,
        result : Closing \cup {"absent", "open", "pruned"}, end : Times]
Child == [proc : {"none", "alive", "gone"}, code : Codes, term : BOOLEAN,
          sync : {"none", "running", "done", "failed"}, since : Times]

\* The rows the next scheduler leaves.
LEMMA ClosedRows ==
    ASSUME TypeOK
    PROVE  /\ RowsClosed \in [Runs -> Row]
           /\ \A r \in Runs : /\ RowsClosed[r].job = row[r].job /\ RowsClosed[r].life = row[r].life
                              /\ row[r].result # "open" => RowsClosed[r] = row[r]
                              /\ row[r].result = "open" => RowsClosed[r].result = "terminated"
                                                          /\ RowsClosed[r].end = time
<1>1. row \in [Runs -> Row] /\ time \in Times
  BY DEF TypeOK, Row
<1>2. ASSUME NEW r \in Runs
      PROVE  RowsClosed[r] = IF row[r].result = "open"
                               THEN [row[r] EXCEPT !.result = "terminated", !.end = time] ELSE row[r]
  BY <1>2 DEF RowsClosed, Orphaned
<1>3. ASSUME NEW x \in Row
      PROVE  LET y == [x EXCEPT !.result = "terminated", !.end = time] IN
             y \in Row /\ y.job = x.job /\ y.life = x.life /\ y.result = "terminated" /\ y.end = time
  BY <1>1, <1>3 DEF Row, Closing
<1> DEFINE Terminated(x) == [x EXCEPT !.result = "terminated", !.end = time]
<1>4. ASSUME NEW r \in Runs
      PROVE  /\ RowsClosed[r] \in Row
             /\ RowsClosed[r].job = row[r].job /\ RowsClosed[r].life = row[r].life
             /\ row[r].result # "open" => RowsClosed[r] = row[r]
             /\ row[r].result = "open" => RowsClosed[r].result = "terminated" /\ RowsClosed[r].end = time
  <2>1. row[r] \in Row
    BY <1>1
  <2>2. RowsClosed[r] = IF row[r].result = "open" THEN Terminated(row[r]) ELSE row[r]
    BY <1>2
  <2>3. LET y == Terminated(row[r]) IN
        /\ y \in Row /\ y.job = row[r].job /\ y.life = row[r].life
        /\ y.result = "terminated" /\ y.end = time
    BY <1>3, <2>1
  <2> HIDE DEF Terminated
  <2> QED BY <2>1, <2>2, <2>3
<1>5. RowsClosed \in [Runs -> Row]
  BY <1>4 DEF RowsClosed
<1> QED BY <1>4, <1>5

Firing == [job : Jobs, time : Times]

\* The head of a queue is a firing of some job, and the tail is what is left.
LEMMA HeadOfQueue ==
    ASSUME TypeOK, NEW p \in Pools, queue[p] # <<>>
    PROVE  /\ Oldest(p).job \in Jobs /\ Oldest(p).time \in Times
           /\ Len(queue[p]) \in Nat \ {0} /\ 1 \in DOMAIN queue[p] /\ Oldest(p) = queue[p][1]
           /\ Tail(queue[p]) \in Seq(Firing)
           /\ Len(Tail(queue[p])) = Len(queue[p]) - 1
           /\ DOMAIN Tail(queue[p]) = 1 .. Len(queue[p]) - 1
           /\ \A i \in DOMAIN Tail(queue[p]) : /\ Tail(queue[p])[i] = queue[p][i + 1]
                                               /\ i + 1 \in DOMAIN queue[p] /\ i + 1 # 1
<1>1. queue[p] \in Seq(Firing)
  BY DEF TypeOK, Firing
<1>2. Len(queue[p]) \in Nat \ {0} /\ DOMAIN queue[p] = 1 .. Len(queue[p])
  BY <1>1
<1>3. Oldest(p) = queue[p][1]
  BY <1>1, <1>2 DEF Oldest
<1>4. queue[p][1] \in Firing
  BY <1>1, <1>2, 1 \in 1 .. Len(queue[p])
<1>5. Oldest(p).job \in Jobs /\ Oldest(p).time \in Times
  BY <1>3, <1>4 DEF Firing
<1> QED BY <1>1, <1>2, <1>3, <1>5

\* What waits is counted in natural numbers; a row that is opened has an identifier.
LEMMA Identifiers ==
    ASSUME TypeOK
    PROVE  /\ Len(queue["yahoo"]) \in Nat /\ Len(queue["default"]) \in Nat /\ Waiting \in Nat
           /\ Reserved => \A p \in Pools : queue[p] # <<>> => last + 1 \in Runs
           /\ Room => last + 1 \in Runs
<1>1. Len(queue["yahoo"]) \in Nat /\ Len(queue["default"]) \in Nat
  BY DEF TypeOK, Pools
<1>2. last \in Nat /\ last <= MaxRuns /\ MaxRuns \in Nat
  BY SchedulerAssumption DEF TypeOK
<1>3. ASSUME NEW p \in Pools, queue[p] # <<>> PROVE Len(queue[p]) \in Nat \ {0}
  BY <1>3, HeadOfQueue
<1> DEFINE a == Len(queue["yahoo"])
           b == Len(queue["default"])
<1>0. Waiting = a + b
  BY DEF Waiting
<1>6. a \in Nat /\ b \in Nat
  BY <1>1
<1>7. ASSUME a = 0, b = 0 PROVE \A p \in Pools : Len(queue[p]) = 0
  BY <1>7 DEF Pools
<1> HIDE DEF a, b
<1>4. Waiting \in Nat /\ (Room => last + 1 \in Runs)
  BY <1>0, <1>2, <1>6 DEF Room, Runs
<1>5. ASSUME Reserved, NEW p \in Pools, queue[p] # <<>> PROVE last + 1 \in Runs
  <2>1. ~ (a = 0 /\ b = 0)
    BY <1>3, <1>5, <1>7
  <2> QED BY <1>0, <1>2, <1>5, <1>6, <2>1 DEF Reserved, Runs
<1> QED BY <1>1, <1>4, <1>5

--------------------------------------------------------------------------------
(* Which steps touch what.                                                 *)

\* The rows are written by a start, by firings that never run, by the threads and by prune.
LEMMA WritesRow ==
    ASSUME [Next]_vars
    PROVE  \/ UNCHANGED row \/ Start \/ PruneAudit
           \/ \E j \in Jobs : Skip(j) \/ SpawnFails(j) \/ CloseRow(j)
           \/ \E p \in Pools : Misfire(p) \/ OpenRow(p)
  BY DEF Next, vars, Stopping, JobThread, Executor, SchedulerKeeps, Stop, Terminate, AllEnded, Kill,
         Exit, Fire, Spawn, Register, Reap, RecordResult, CloseFails, OpenFails, OpenSync, Finish,
         Die, Reload, Crash, StartManual, Tick

\* Children begin, end and are signalled, and a start closes their audit rows.
LEMMA WritesChild ==
    ASSUME [Next]_vars
    PROVE  \/ UNCHANGED child \/ Start \/ Terminate \/ Kill \/ StartManual
           \/ \E j \in Jobs : Spawn(j)
           \/ \E r \in Runs : OpenSync(r) \/ Finish(r) \/ Die(r)
           \/ \E dying \in SUBSET Runs : Crash(dying)
  BY DEF Next, vars, Stopping, JobThread, Executor, SchedulerKeeps, Stop, AllEnded, Exit, Fire, Skip,
         Register, Reap, CloseRow, RecordResult, SpawnFails, CloseFails, Misfire, OpenRow, OpenFails,
         Reload, PruneAudit, Tick

\* An executor takes a firing, its thread goes on or ends, and a crash ends them all.
LEMMA WritesThread ==
    ASSUME [Next]_vars
    PROVE  \/ UNCHANGED thread
           \/ \E j \in Jobs : Spawn(j) \/ Register(j) \/ Reap(j) \/ CloseRow(j) \/ RecordResult(j)
                            \/ SpawnFails(j) \/ CloseFails(j)
           \/ \E p \in Pools : OpenRow(p)
           \/ \E dying \in SUBSET Runs : Crash(dying)
  BY DEF Next, vars, Stopping, JobThread, Executor, SchedulerKeeps, Start, Stop, Terminate, AllEnded,
         Kill, Exit, Fire, Skip, Misfire, OpenFails, OpenSync, Finish, Die, Reload, StartManual,
         PruneAudit, Tick

\* Firings join a queue and leave it at its head.
LEMMA WritesQueue ==
    ASSUME [Next]_vars
    PROVE  \/ UNCHANGED queue
           \/ \E j \in Jobs : Fire(j)
           \/ \E p \in Pools : Misfire(p) \/ OpenRow(p) \/ OpenFails(p)
           \/ \E dying \in SUBSET Runs : Crash(dying)
  BY DEF Next, vars, Stopping, JobThread, Executor, SchedulerKeeps, Start, Stop, Terminate, AllEnded,
         Kill, Exit, Skip, Spawn, Register, Reap, CloseRow, RecordResult, SpawnFails, CloseFails,
         OpenSync, Finish, Die, Reload, StartManual, PruneAudit, Tick

\* Identifiers are taken by rows and by a manual sync.
LEMMA WritesLast ==
    ASSUME [Next]_vars
    PROVE  \/ UNCHANGED last \/ StartManual
           \/ \E j \in Jobs : Skip(j)
           \/ \E p \in Pools : Misfire(p) \/ OpenRow(p)
  BY ZenonT(60) DEF Next, vars, Stopping, JobThread, Executor, SchedulerKeeps, Start, Stop, Terminate, AllEnded,
         Kill, Exit, Fire, Spawn, Register, Reap, CloseRow, RecordResult, SpawnFails, CloseFails,
         OpenFails, OpenSync, Finish, Die, Reload, Crash, PruneAudit, Tick

\* The counts of a life begin with it; firings and failed inserts add to them.
LEMMA WritesCounts ==
    ASSUME [Next]_vars
    PROVE  \/ UNCHANGED <<fired, lost>> \/ Start
           \/ \E j \in Jobs : Fire(j) \/ Skip(j)
           \/ \E p \in Pools : OpenFails(p)
  BY ZenonT(60) DEF Next, vars, Stopping, JobThread, Executor, SchedulerKeeps, Stop, Terminate, AllEnded,
         Kill, Exit, Spawn, Register, Reap, CloseRow, RecordResult, SpawnFails, CloseFails, Misfire,
         OpenRow, OpenSync, Finish, Die, Reload, Crash, StartManual, PruneAudit, Tick

\* What a job's state says is built at a start, and follows results and reloads.
LEMMA WritesState ==
    ASSUME [Next]_vars
    PROVE  \/ UNCHANGED <<state, setting>> \/ Start
           \/ \E j \in Jobs : RecordResult(j)
           \/ \E j \in Jobs, on \in BOOLEAN : Reload(j, on)
  BY ZenonT(60) DEF Next, vars, Stopping, JobThread, Executor, SchedulerKeeps, Stop, Terminate, AllEnded,
         Kill, Exit, Fire, Skip, Spawn, Register, Reap, CloseRow, SpawnFails, CloseFails, Misfire,
         OpenRow, OpenFails, OpenSync, Finish, Die, Crash, StartManual, PruneAudit, Tick

\* A scheduler's life has phases, and time passes.
LEMMA WritesPhase ==
    ASSUME [Next]_vars
    PROVE  /\ UNCHANGED <<phase, life, events>> \/ Start \/ Stop \/ Stopping
              \/ (\E j \in Jobs : SpawnFails(j) \/ CloseFails(j))
              \/ (\E p \in Pools : OpenFails(p)) \/ (\E r \in Runs : Die(r))
              \/ (\E j \in Jobs, on \in BOOLEAN : Reload(j, on))
              \/ (\E dying \in SUBSET Runs : Crash(dying))
           /\ UNCHANGED time \/ Tick
  BY DEF Next, vars, Stopping, JobThread, Executor, SchedulerKeeps, Start, Stop, Terminate, AllEnded,
         Kill, Exit, Fire, Skip, Spawn, Register, Reap, CloseRow, RecordResult, SpawnFails, CloseFails,
         Misfire, OpenRow, OpenFails, OpenSync, Finish, Die, Reload, Crash, StartManual, PruneAudit, Tick

--------------------------------------------------------------------------------
(* Types.                                                                  *)

\* A row keeps its type when a column is given a value of the column's type.
LEMMA RowColumns ==
    ASSUME NEW x \in Row, NEW t \in Times, NEW w \in Closing \cup {"absent", "open", "pruned"}
    PROVE  /\ [x EXCEPT !.result = w] \in Row
           /\ [x EXCEPT !.result = w, !.end = t] \in Row
  BY DEF Row

\* So does a process with its audit row.
LEMMA ChildColumns ==
    ASSUME NEW x \in Child, NEW c \in Codes, NEW t \in Times, NEW y \in {"none", "running", "done", "failed"}
    PROVE  /\ [x EXCEPT !.proc = "alive"] \in Child /\ [x EXCEPT !.term = TRUE] \in Child
           /\ [x EXCEPT !.sync = y] \in Child /\ [x EXCEPT !.sync = y, !.since = t] \in Child
           /\ [x EXCEPT !.proc = "gone", !.code = c] \in Child
           /\ [x EXCEPT !.proc = "gone", !.code = c, !.term = TRUE] \in Child
           /\ [x EXCEPT !.proc = "gone", !.code = c, !.sync = y, !.since = t] \in Child
  BY DEF Child

\* Every result a thread writes closes the row.
LEMMA ResultCloses ==
    ASSUME NEW j
    PROVE  /\ Result(j) \in Closing
           /\ Result(j) = "ok" => phase = "up"
           /\ Result(j) \in {"ok", "partial", "locked"} => Result(j) = ResultFor(child[thread[j].run].code)
  BY DEF Result, ResultFor, Closing

\* A row that is opened takes the next identifier.
LEMMA OpenedIs ==
    ASSUME TypeOK, last + 1 \in Runs, NEW j \in Jobs, NEW at \in Times, NEW end \in Times,
           NEW w \in Closing \cup {"open"}
    PROVE  /\ Opened(j, at, w, end) \in [Runs -> Row]
           /\ Opened(j, at, w, end)[last + 1] = [job |-> j, at |-> at, life |-> life, result |-> w, end |-> end]
           /\ \A r \in Runs : r # last + 1 => Opened(j, at, w, end)[r] = row[r]
<1>1. row \in [Runs -> Row] /\ life \in Nat
  BY DEF TypeOK, Row
<1>2. [job |-> j, at |-> at, life |-> life, result |-> w, end |-> end] \in Row
  BY <1>1 DEF Row
<1> QED BY <1>1, <1>2 DEF Opened

\* The rows keep their type.
LEMMA RowTyped ==
    ASSUME TypeOK, Reserved, [Next]_vars
    PROVE  row' \in [Runs -> Row]
<1>1. row \in [Runs -> Row] /\ time \in Times /\ 0 \in Times
  BY SchedulerAssumption DEF TypeOK, Row, Times
<1>2. CASE Start
  BY <1>2, ClosedRows DEF Start
<1>3. CASE PruneAudit
  <2>1. \A r \in Runs : [row[r] EXCEPT !.result = "pruned"] \in Row
    BY <1>1, RowColumns
  <2> QED BY <1>1, <1>3, <2>1 DEF PruneAudit
<1>4. ASSUME NEW j \in Jobs, Skip(j) PROVE row' \in [Runs -> Row]
  <2>1. last + 1 \in Runs
    BY <1>4, Identifiers DEF Skip, Due
  <2> QED BY <1>1, <1>4, <2>1, OpenedIs DEF Skip, Closing
<1>5. ASSUME NEW j \in Jobs, SpawnFails(j) \/ CloseRow(j) PROVE row' \in [Runs -> Row]
  <2>1. PICK w \in Closing : row' = [row EXCEPT ![thread[j].run].result = w, ![thread[j].run].end = time]
    BY <1>5, ResultCloses DEF SpawnFails, CloseRow, Closing
  <2>2. \A r \in Runs : [row[r] EXCEPT !.result = w, !.end = time] \in Row
    BY <1>1, RowColumns
  <2>3. row' = [row EXCEPT ![thread[j].run] = [row[thread[j].run] EXCEPT !.result = w, !.end = time]]
    BY <1>1, <2>1
  <2> QED BY ZenonT(60), <1>1, <2>2, <2>3
<1>6. ASSUME NEW p \in Pools, Misfire(p) \/ OpenRow(p) PROVE row' \in [Runs -> Row]
  <2>1. queue[p] # <<>> /\ last + 1 \in Runs
    BY <1>6, Identifiers DEF Misfire, OpenRow, CanStart
  <2>2. Oldest(p).job \in Jobs /\ Oldest(p).time \in Times
    BY <2>1, HeadOfQueue
  <2>3. state[Oldest(p).job].built \in Times
    BY <2>2 DEF TypeOK
  <2>4. CASE Misfire(p)
    BY <1>1, <2>1, <2>2, <2>4, OpenedIs DEF Misfire, Closing
  <2>5. CASE OpenRow(p)
    BY <1>1, <2>1, <2>2, <2>3, <2>5, OpenedIs DEF OpenRow
  <2> QED BY <1>6, <2>4, <2>5
<1> QED BY <1>1, <1>2, <1>3, <1>4, <1>5, <1>6, WritesRow

\* The children keep theirs.
LEMMA ChildTyped ==
    ASSUME TypeOK, [Next]_vars
    PROVE  child' \in [Runs -> Child]
<1>1. child \in [Runs -> Child] /\ time \in Times /\ 0 \in Times
  BY SchedulerAssumption DEF TypeOK, Child, Times
<1>2. Killed \in Codes /\ {0, 1, 2, 4} \subseteq Codes
  BY SMTT(30) DEF Codes, Killed
<1>3. \A r \in Runs : Dead(r) \in Child /\ [Dead(r) EXCEPT !.term = TRUE] \in Child
  <2>1. ASSUME NEW x \in Child
        PROVE  LET d == [x EXCEPT !.proc = "gone", !.code = Killed] IN
               d \in Child /\ [d EXCEPT !.term = TRUE] \in Child
    BY <1>1, <1>2, <2>1, ChildColumns
  <2> QED BY ZenonT(60), <1>1, <2>1 DEF Dead
<1>4. CASE Start
  <2>1. \A r \in Runs : [child[r] EXCEPT !.sync = "failed"] \in Child
    BY <1>1, <1>2, ChildColumns
  <2> QED BY SMTT(30), <1>1, <1>4, <2>1 DEF Start, SyncsClosed
<1>5. CASE Terminate
  <2>1. \A r \in Runs : [child[r] EXCEPT !.term = TRUE] \in Child
    BY <1>1, <1>2, ChildColumns
  <2> QED BY SMTT(30), <1>1, <1>5, <2>1 DEF Terminate
<1>6. CASE Kill
  BY <1>1, <1>3, <1>6 DEF Kill
<1>7. ASSUME NEW r, child' = [child EXCEPT ![r].proc = "alive"] PROVE child' \in [Runs -> Child]
  <2>1. \A s \in Runs : [child[s] EXCEPT !.proc = "alive"] \in Child
    BY <1>1, <1>2, ChildColumns
  <2> QED BY <1>1, <1>7, <2>1
<1>8. ASSUME NEW r \in Runs, OpenSync(r) \/ Finish(r) PROVE child' \in [Runs -> Child]
  <2>1. ASSUME NEW c \in {0, 1, 2, 4}, NEW y \in {"none", "done"}, Ended(r, c, y) PROVE child' \in [Runs -> Child]
    <3>1. [child[r] EXCEPT !.proc = "gone", !.code = c, !.sync = y, !.since = 0] \in Child
      BY ZenonT(60), <1>1, <1>2, ChildColumns
    <3>2. child' = [child EXCEPT ![r] = [child[r] EXCEPT !.proc = "gone", !.code = c, !.sync = y, !.since = 0]]
      BY <1>1, <2>1 DEF Ended
    <3> QED BY SMTT(30), <1>1, <3>1, <3>2
  <2>2. CASE child' = [child EXCEPT ![r].sync = "running", ![r].since = time]
    <3>1. [child[r] EXCEPT !.sync = "running", !.since = time] \in Child
      BY <1>1, <1>2, ChildColumns
    <3>2. child' = [child EXCEPT ![r] = [child[r] EXCEPT !.sync = "running", !.since = time]]
      BY <1>1, <2>2
    <3> QED BY <1>1, <3>1, <3>2
  <2>3. OpenSync(r) => Ended(r, 4, "none") \/ child' = [child EXCEPT ![r].sync = "running", ![r].since = time]
    BY DEF OpenSync
  <2>4. Finish(r) => \E c \in {0, 1, 2} : Ended(r, c, "done") \/ Ended(r, c, "none")
    BY DEF Finish
  <2> QED BY <1>8, <2>1, <2>2, <2>3, <2>4
<1>9. ASSUME NEW r \in Runs, Die(r) PROVE child' \in [Runs -> Child]
  BY <1>1, <1>3, <1>9 DEF Die
<1>10. ASSUME NEW dying \in SUBSET Runs, Crash(dying) PROVE child' \in [Runs -> Child]
  BY <1>1, <1>3, <1>10 DEF Crash
<1>11. CASE StartManual
  BY <1>7, <1>11 DEF StartManual
<1>12. ASSUME NEW j \in Jobs, Spawn(j) PROVE child' \in [Runs -> Child]
  BY <1>7, <1>12 DEF Spawn
<1> QED BY <1>1, <1>4, <1>5, <1>6, <1>8, <1>9, <1>10, <1>11, <1>12, WritesChild

\* Threads, queues and what the jobs' states say.
LEMMA ServiceTyped ==
    ASSUME TypeOK, Reserved, [Next]_vars
    PROVE  /\ thread' \in [Jobs -> [at : Steps, run : 0..MaxRuns]]
           /\ queue' \in [Pools -> Seq(Firing)]
           /\ state' \in [Jobs -> [registered : BOOLEAN, built : Times, success : Times]]
           /\ setting' \in [Jobs -> BOOLEAN]
<1> DEFINE Thread == [at : Steps, run : 0..MaxRuns]
           State == [registered : BOOLEAN, built : Times, success : Times]
<1>1. /\ thread \in [Jobs -> Thread] /\ state \in [Jobs -> State] /\ setting \in [Jobs -> BOOLEAN]
      /\ queue \in [Pools -> Seq(Firing)]
      /\ time \in Times /\ 0 \in Times /\ Idle \in Thread /\ Runs \subseteq 0..MaxRuns
  <2>1. 0 \in 0..MaxRuns /\ 0 \in Times /\ Runs \subseteq 0..MaxRuns
    BY SchedulerAssumption DEF Times, Runs
  <2>2. Idle \in Thread
    BY <2>1 DEF Idle, Steps, NoRun
  <2> QED BY <2>1, <2>2 DEF TypeOK, Firing
<1>2. thread' \in [Jobs -> Thread]
  <2>1. \A x \in Thread : \A s \in Steps : [x EXCEPT !.at = s] \in Thread
    OBVIOUS
  <2>2. ASSUME NEW j \in Jobs, NEW s \in Steps, Go(j, s) PROVE thread' \in [Jobs -> Thread]
    <3>1. thread' = [thread EXCEPT ![j] = [thread[j] EXCEPT !.at = s]]
      BY <1>1, <2>2 DEF Go
    <3>2. [thread[j] EXCEPT !.at = s] \in Thread
      BY <1>1, <2>1
    <3> HIDE DEF Thread
    <3> QED BY <1>1, <3>1, <3>2
  <2>3. ASSUME NEW j \in Jobs, Spawn(j) \/ Register(j) \/ Reap(j) \/ CloseRow(j)
        PROVE  thread' \in [Jobs -> Thread]
    <3>1. PICK s \in Steps : Go(j, s)
      BY <2>3 DEF Spawn, Register, Reap, CloseRow, Steps
    <3> QED BY <2>2, <3>1
  <2>4. ASSUME NEW j \in Jobs, RecordResult(j) \/ SpawnFails(j) \/ CloseFails(j)
        PROVE  thread' \in [Jobs -> Thread]
    <3> HIDE DEF Thread
    <3> QED BY <1>1, <2>4 DEF RecordResult, SpawnFails, CloseFails
  <2>5. ASSUME NEW p \in Pools, OpenRow(p) PROVE thread' \in [Jobs -> Thread]
    <3>1. queue[p] # <<>> /\ last + 1 \in Runs
      BY <2>5, Identifiers DEF OpenRow, CanStart
    <3>2. [at |-> "opened", run |-> last + 1] \in Thread
      BY <1>1, <3>1 DEF Steps
    <3> HIDE DEF Thread
    <3> QED BY <1>1, <2>5, <3>2 DEF OpenRow
  <2>6. ASSUME NEW dying \in SUBSET Runs, Crash(dying) PROVE thread' \in [Jobs -> Thread]
    <3> HIDE DEF Thread
    <3> QED BY <1>1, <2>6 DEF Crash
  <2> HIDE DEF Thread
  <2> QED BY <1>1, <2>3, <2>4, <2>5, <2>6, WritesThread
<1>3. queue' \in [Pools -> Seq(Firing)]
  <2>1. ASSUME NEW j \in Jobs, Fire(j) PROVE queue' \in [Pools -> Seq(Firing)]
    <3>1. Pool(j) \in Pools
      BY DEF Pool, Pools
    <3>2. [job |-> j, time |-> time] \in Firing
      BY <1>1 DEF Firing
    <3>3. Append(queue[Pool(j)], [job |-> j, time |-> time]) \in Seq(Firing)
      BY <1>1, <3>1, <3>2
    <3> QED BY <1>1, <2>1, <3>1, <3>3 DEF Fire
  <2>2. ASSUME NEW p \in Pools, Misfire(p) \/ OpenRow(p) \/ OpenFails(p)
        PROVE  queue' \in [Pools -> Seq(Firing)]
    <3>1. queue[p] # <<>> /\ Pop(p)
      BY <2>2 DEF Misfire, OpenRow, OpenFails, CanStart
    <3>2. Tail(queue[p]) \in Seq(Firing)
      BY <3>1, HeadOfQueue
    <3> QED BY <1>1, <3>1, <3>2 DEF Pop
  <2>3. ASSUME NEW dying \in SUBSET Runs, Crash(dying) PROVE queue' \in [Pools -> Seq(Firing)]
    <3>1. <<>> \in Seq(Firing)
      OBVIOUS
    <3> QED BY <2>3, <3>1 DEF Crash
  <2> QED BY <1>1, <2>1, <2>2, <2>3, WritesQueue
<1>4. state' \in [Jobs -> State] /\ setting' \in [Jobs -> BOOLEAN]
  <2>1. CASE Start
    <3>1. \A r \in Runs : RowsClosed[r].end \in Times
      BY ClosedRows DEF Row
    <3>2. \A j \in Jobs : Newest(RowsClosed, j) \in Times
      BY <3>1, NewestIs
    <3>3. ASSUME NEW j \in Jobs
          PROVE  [registered |-> setting[j], built |-> time, success |-> Newest(RowsClosed, j)] \in State
      BY <1>1, <3>2
    <3> HIDE DEF State
    <3> QED BY <1>1, <2>1, <3>3 DEF Start, Built
  <2>2. ASSUME NEW j \in Jobs, RecordResult(j)
        PROVE  state' \in [Jobs -> State] /\ setting' \in [Jobs -> BOOLEAN]
    <3>1. [state[j] EXCEPT !.success = time] \in State
      BY <1>1
    <3>2. state' = state \/ state' = [state EXCEPT ![j] = [state[j] EXCEPT !.success = time]]
      BY <1>1, <2>2 DEF RecordResult
    <3>3. setting' = setting
      BY <2>2 DEF RecordResult
    <3> HIDE DEF State
    <3> QED BY <1>1, <3>1, <3>2, <3>3
  <2>3. ASSUME NEW j \in Jobs, NEW on \in BOOLEAN, Reload(j, on)
        PROVE  state' \in [Jobs -> State] /\ setting' \in [Jobs -> BOOLEAN]
    <3>1. \A b \in Times : [state[j] EXCEPT !.registered = on, !.built = b] \in State
      BY <1>1
    <3>2. PICK b \in Times : state' = [state EXCEPT ![j] = [state[j] EXCEPT !.registered = on, !.built = b]]
      BY <1>1, <2>3 DEF Reload
    <3>3. setting' \in [Jobs -> BOOLEAN]
      BY <1>1, <2>3 DEF Reload
    <3> HIDE DEF State
    <3> QED BY <1>1, <3>1, <3>2, <3>3
  <2> HIDE DEF State
  <2> QED BY <1>1, <2>1, <2>2, <2>3, WritesState
<1> QED BY <1>2, <1>3, <1>4

\* The clock, the identifiers and the counts.
LEMMA CountersTyped ==
    ASSUME TypeOK, Reserved, [Next]_vars
    PROVE  /\ time' \in Times /\ life' \in Nat /\ last' \in 0..MaxRuns /\ events' \in 0..MaxEvents
           /\ phase' \in {"up", "signal", "wait", "leave", "down"}
           /\ fired' \in [Jobs -> Nat] /\ lost' \in [Jobs -> Nat]
<1>1. /\ time \in Times /\ life \in Nat /\ last \in 0..MaxRuns /\ events \in 0..MaxEvents
      /\ phase \in {"up", "signal", "wait", "leave", "down"}
      /\ fired \in [Jobs -> Nat] /\ lost \in [Jobs -> Nat]
  BY DEF TypeOK
<1>2. time' \in Times
  BY <1>1, SchedulerAssumption, WritesPhase DEF Tick, Times
<1>3. last' \in 0..MaxRuns
  <2>1. ASSUME NEW j \in Jobs, Skip(j) PROVE last + 1 \in Runs /\ last' = last + 1
    BY <2>1, Identifiers DEF Skip, Due
  <2>2. ASSUME NEW p \in Pools, Misfire(p) \/ OpenRow(p) PROVE last + 1 \in Runs /\ last' = last + 1
    BY <2>2, Identifiers DEF Misfire, OpenRow, CanStart
  <2>3. StartManual => last + 1 \in Runs /\ last' = last + 1
    BY Identifiers DEF StartManual
  <2> QED BY <1>1, <2>1, <2>2, <2>3, SchedulerAssumption, WritesLast DEF Runs
<1>4. /\ life' \in Nat /\ events' \in 0..MaxEvents
      /\ phase' \in {"up", "signal", "wait", "leave", "down"}
  <2>1. CASE Start \/ Stop \/ Stopping
    BY <1>1, <2>1 DEF Start, Stop, Stopping, Terminate, AllEnded, Kill, Exit
  <2>2. ASSUME phase' = phase \/ phase' = "down", life' = life, events < MaxEvents, events' = events + 1
        PROVE  /\ life' \in Nat /\ events' \in 0..MaxEvents
               /\ phase' \in {"up", "signal", "wait", "leave", "down"}
    BY <1>1, <2>2, SchedulerAssumption
  <2>3. ASSUME NEW j \in Jobs, SpawnFails(j) \/ CloseFails(j)
        PROVE  phase' = phase /\ life' = life /\ events < MaxEvents /\ events' = events + 1
    BY <2>3 DEF SpawnFails, CloseFails
  <2>4. ASSUME NEW p \in Pools, OpenFails(p)
        PROVE  phase' = phase /\ life' = life /\ events < MaxEvents /\ events' = events + 1
    BY <2>4 DEF OpenFails
  <2>5. ASSUME NEW r \in Runs, Die(r)
        PROVE  phase' = phase /\ life' = life /\ events < MaxEvents /\ events' = events + 1
    BY <2>5 DEF Die, SchedulerKeeps
  <2>6. ASSUME NEW j \in Jobs, NEW on \in BOOLEAN, Reload(j, on)
        PROVE  phase' = phase /\ life' = life /\ events < MaxEvents /\ events' = events + 1
    BY <2>6 DEF Reload
  <2>7. ASSUME NEW dying \in SUBSET Runs, Crash(dying)
        PROVE  phase' = "down" /\ life' = life /\ events < MaxEvents /\ events' = events + 1
    BY <2>7 DEF Crash
  <2>8. CASE UNCHANGED <<phase, life, events>>
    BY <1>1, <2>8
  <2> QED BY <2>1, <2>2, <2>3, <2>4, <2>5, <2>6, <2>7, <2>8, WritesPhase
<1>5. fired' \in [Jobs -> Nat] /\ lost' \in [Jobs -> Nat]
  <2>1. CASE Start
    BY <2>1 DEF Start
  <2>2. ASSUME NEW j \in Jobs, Fire(j) \/ Skip(j) PROVE fired' \in [Jobs -> Nat] /\ lost' \in [Jobs -> Nat]
    BY <1>1, <2>2 DEF Fire, Skip
  <2>3. ASSUME NEW p \in Pools, OpenFails(p) PROVE fired' \in [Jobs -> Nat] /\ lost' \in [Jobs -> Nat]
    <3>1. Oldest(p).job \in Jobs
      BY <2>3, HeadOfQueue DEF OpenFails, CanStart
    <3>2. fired' = fired /\ lost' = [lost EXCEPT ![Oldest(p).job] = @ + 1]
      BY <2>3 DEF OpenFails
    <3> QED BY <1>1, <3>1, <3>2
  <2> QED BY <1>1, <2>1, <2>2, <2>3, WritesCounts
<1> QED BY <1>2, <1>3, <1>4, <1>5

\* Every step keeps the types.
LEMMA TypesKept == TypeOK /\ Reserved /\ [Next]_vars => TypeOK'
  BY RowTyped, ChildTyped, ServiceTyped, CountersTyped DEF TypeOK, Row, Child, Firing

--------------------------------------------------------------------------------
(* What a step may do to one row, and to one child.                        *)

\* A firing gets the next row; a row is then closed by its thread, or by a start when it
\* is an orphan, and pruned.
RowOpens(r) ==
    /\ r = last + 1 /\ last' = last + 1
    /\ row'[r].job \in Jobs /\ row'[r].life = life /\ row'[r].end <= time
    /\ row'[r].result \in {"open", "misfired", "skipped"}

SameRun(r) == row'[r].job = row[r].job /\ row'[r].life = row[r].life
RowOrphaned(r) ==
    /\ Start /\ SameRun(r) /\ row[r].result = "open"
    /\ row'[r].result = "terminated" /\ row'[r].end = time
RowPruned(r) ==
    /\ PruneAudit /\ SameRun(r) /\ row[r].result \in Closing
    /\ row'[r].result = "pruned" /\ row'[r].end = row[r].end
RowCloses(r) ==
    \E j \in Jobs :
        /\ thread[j].run = r /\ SameRun(r) /\ row'[r].end = time
        /\ \/ SpawnFails(j) /\ row'[r].result = "failed"
           \/ CloseRow(j) /\ row'[r].result = Result(j)

\* Nothing else happens to a row.
LEMMA RowChanges ==
    ASSUME TypeOK, Reserved, [Next]_vars, NEW r \in Runs
    PROVE  row'[r] = row[r] \/ RowOpens(r) \/ RowOrphaned(r) \/ RowPruned(r) \/ RowCloses(r)
<1>1. row \in [Runs -> Row] /\ time \in Times /\ 0 \in Times /\ 0 <= time
  BY SchedulerAssumption DEF TypeOK, Row, Times
<1>2. CASE Start
  BY <1>2, ClosedRows DEF Start, RowOrphaned, SameRun
<1>3. CASE PruneAudit
  BY <1>1, <1>3 DEF PruneAudit, Pruned, RowPruned, SameRun, Row
<1>4. ASSUME last + 1 \in Runs, last' = last + 1, NEW j \in Jobs, NEW at \in Times, NEW end \in Times,
             NEW w \in {"open", "misfired", "skipped"}, row' = Opened(j, at, w, end), end <= time
      PROVE  row'[r] = row[r] \/ RowOpens(r)
  <2>1. w \in Closing \cup {"open"}
    BY DEF Closing
  <2>2. /\ row'[last + 1] = [job |-> j, at |-> at, life |-> life, result |-> w, end |-> end]
        /\ \A x \in Runs : x # last + 1 => row'[x] = row[x]
    BY <1>4, <2>1, OpenedIs
  <2> QED BY <1>4, <2>2 DEF RowOpens
<1>5. ASSUME NEW j \in Jobs, Skip(j) PROVE row'[r] = row[r] \/ RowOpens(r)
  <2>1. last + 1 \in Runs
    BY <1>5, Identifiers DEF Skip, Due
  <2>2. row' = Opened(j, time, "skipped", time) /\ last' = last + 1
    BY <1>5 DEF Skip
  <2>3. time <= time
    BY <1>1 DEF Times
  <2> QED BY <1>1, <1>4, <2>1, <2>2, <2>3
<1>6. ASSUME NEW j \in Jobs, SpawnFails(j) \/ CloseRow(j) PROVE row'[r] = row[r] \/ RowCloses(r)
  <2>1. PICK w \in Closing :
           (SpawnFails(j) /\ w = "failed") \/ (CloseRow(j) /\ w = Result(j))
    <3>1. CASE SpawnFails(j)
      BY <3>1, "failed" \in Closing DEF SpawnFails, Closing
    <3>2. CASE CloseRow(j)
      BY <3>2, ResultCloses DEF CloseRow
    <3> QED BY <1>6, <3>1, <3>2
  <2>2. row' = [row EXCEPT ![thread[j].run] = [row[thread[j].run] EXCEPT !.result = w, !.end = time]]
    BY <1>1, <2>1 DEF SpawnFails, CloseRow
  <2>3. row'[r] = IF r = thread[j].run THEN [row[r] EXCEPT !.result = w, !.end = time] ELSE row[r]
    BY <1>1, <2>2
  <2>4. row[r] \in Row
    BY <1>1
  <2>5. r = thread[j].run => SameRun(r) /\ row'[r].end = time /\ row'[r].result = w
    BY <2>3, <2>4 DEF SameRun, Row
  <2> QED BY <2>1, <2>3, <2>5 DEF RowCloses
<1>7. ASSUME NEW p \in Pools, Misfire(p) \/ OpenRow(p) PROVE row'[r] = row[r] \/ RowOpens(r)
  <2>1. queue[p] # <<>> /\ last + 1 \in Runs
    BY <1>7, Identifiers DEF Misfire, OpenRow, CanStart
  <2>2. Oldest(p).job \in Jobs /\ Oldest(p).time \in Times
    BY <2>1, HeadOfQueue
  <2>3. state[Oldest(p).job].built \in Times
    BY <2>2 DEF TypeOK
  <2>4. CASE Misfire(p)
    <3>1. row' = Opened(Oldest(p).job, Oldest(p).time, "misfired", time) /\ last' = last + 1
      BY <2>4 DEF Misfire
    <3>2. time <= time
      BY <1>1 DEF Times
    <3> QED BY <1>1, <1>4, <2>1, <2>2, <3>1, <3>2
  <2>5. CASE OpenRow(p)
    <3>1. row' = Opened(Oldest(p).job, state[Oldest(p).job].built, "open", 0) /\ last' = last + 1
      BY <2>5 DEF OpenRow
    <3> QED BY <1>1, <1>4, <2>1, <2>2, <2>3, <3>1
  <2> QED BY <1>7, <2>4, <2>5
<1> QED BY <1>2, <1>3, <1>5, <1>6, <1>7, WritesRow

\* A child is spawned by its thread or by hand, and what ended stays ended, with its code;
\* an audit row is opened by a live child and closed by its end, or by a start if stale.
SameSync(r) == child'[r].sync = child[r].sync /\ child'[r].since = child[r].since
ChildStays(r) ==
    /\ child'[r].proc = child[r].proc /\ child'[r].code = child[r].code
    /\ \/ SameSync(r)
       \/ Start /\ StaleSync(r) /\ child'[r].sync = "failed"
       \/ /\ child[r].proc = "alive" /\ child[r].sync = "none"
          /\ child'[r].sync = "running" /\ child'[r].since = time
ChildEnds(r) == child[r].proc = "alive" /\ child'[r].proc = "gone"
ChildBegins(r) ==
    /\ child'[r].proc = "alive" /\ SameSync(r)
    /\ \/ \E j \in Jobs : Spawn(j) /\ thread[j].run = r
       \/ StartManual /\ r = last + 1

\* Nothing else happens to a child.
LEMMA ChildChanges ==
    ASSUME TypeOK, [Next]_vars, NEW r \in Runs
    PROVE  ChildStays(r) \/ ChildEnds(r) \/ ChildBegins(r)
<1>1. child \in [Runs -> Child]
  BY DEF TypeOK, Child
<1>2. child[r] \in Child
  BY <1>1
<1>3. Dead(r).proc = "gone" /\ [Dead(r) EXCEPT !.term = TRUE].proc = "gone"
  BY <1>2 DEF Dead, Child
<1>4. CASE child' = child
  BY <1>4 DEF ChildStays, SameSync
<1>5. CASE Start
  <2>1. child'[r] = IF StaleSync(r) THEN [child[r] EXCEPT !.sync = "failed"] ELSE child[r]
    BY <1>1, <1>5 DEF Start, SyncsClosed
  <2> QED BY <1>2, <1>5, <2>1 DEF ChildStays, SameSync, Child
<1>6. CASE Terminate
  <2>1. child'[r] = [child[r] EXCEPT !.term = TRUE] \/ child'[r] = child[r]
    BY <1>1, <1>6 DEF Terminate
  <2> QED BY <1>2, <2>1 DEF ChildStays, SameSync, Child
<1>7. CASE Kill
  <2>1. (r \in Alive /\ child'[r] = [Dead(r) EXCEPT !.term = TRUE]) \/ child'[r] = child[r]
    BY <1>1, <1>7 DEF Kill
  <2> QED BY <1>3, <2>1 DEF ChildStays, ChildEnds, SameSync, Alive
<1>8. ASSUME NEW x, child' = [child EXCEPT ![x].proc = "alive"]
      PROVE  child'[r] = child[r] \/ (r = x /\ child'[r].proc = "alive" /\ SameSync(r))
  BY <1>1, <1>2, <1>8 DEF SameSync, Child
<1>9. ASSUME NEW x \in Runs, OpenSync(x) \/ Finish(x) PROVE ChildStays(r) \/ ChildEnds(r)
  <2>1. ASSUME NEW c, NEW y, Ended(x, c, y), x \in Alive PROVE ChildStays(r) \/ ChildEnds(r)
    <3>1. child'[r] = child[r] \/ (r = x /\ child'[r].proc = "gone")
      BY <1>1, <1>2, <2>1 DEF Ended, Child
    <3> QED BY <2>1, <3>1 DEF ChildStays, ChildEnds, SameSync, Alive
  <2>2. CASE /\ child' = [child EXCEPT ![x].sync = "running", ![x].since = time]
             /\ x \in Alive /\ child[x].sync = "none"
    <3>1. child'[r] = IF r = x THEN [child[r] EXCEPT !.sync = "running", !.since = time] ELSE child[r]
      BY <1>1, <2>2
    <3>2. LET y == [child[r] EXCEPT !.sync = "running", !.since = time] IN
          /\ y.proc = child[r].proc /\ y.code = child[r].code
          /\ y.sync = "running" /\ y.since = time
      BY <1>2 DEF Child
    <3> QED BY <2>2, <3>1, <3>2 DEF ChildStays, SameSync, Alive
  <2>3. OpenSync(x) => /\ x \in Alive /\ child[x].sync = "none"
                       /\ \/ Ended(x, 4, "none")
                          \/ child' = [child EXCEPT ![x].sync = "running", ![x].since = time]
    BY DEF OpenSync
  <2>4. Finish(x) => x \in Alive /\ \E c \in {0, 1, 2} : \E y \in {"done", "none"} : Ended(x, c, y)
    BY DEF Finish
  <2> QED BY <1>9, <2>1, <2>2, <2>3, <2>4
<1>10. ASSUME NEW x \in Runs, Die(x) PROVE ChildStays(r) \/ ChildEnds(r)
  <2>1. (r = x /\ r \in Alive /\ child'[r] = Dead(r)) \/ child'[r] = child[r]
    BY <1>1, <1>10 DEF Die
  <2> QED BY <1>3, <2>1 DEF ChildStays, ChildEnds, SameSync, Alive
<1>11. ASSUME NEW dying \in SUBSET Runs, Crash(dying) PROVE ChildStays(r) \/ ChildEnds(r)
  <2>1. (r \in Alive /\ child'[r] = Dead(r)) \/ child'[r] = child[r]
    BY <1>1, <1>11 DEF Crash
  <2> QED BY <1>3, <2>1 DEF ChildStays, ChildEnds, SameSync, Alive
<1>12. ASSUME NEW j \in Jobs, Spawn(j) PROVE ChildStays(r) \/ ChildBegins(r)
  <2>1. child' = [child EXCEPT ![thread[j].run].proc = "alive"]
    BY <1>12 DEF Spawn
  <2> QED BY <1>8, <1>12, <2>1 DEF ChildStays, ChildBegins, SameSync
<1>13. CASE StartManual
  <2>1. child' = [child EXCEPT ![last + 1].proc = "alive"]
    BY <1>13 DEF StartManual
  <2> QED BY <1>8, <1>13, <2>1 DEF ChildStays, ChildBegins, SameSync
<1> QED BY <1>4, <1>5, <1>6, <1>7, <1>9, <1>10, <1>11, <1>12, <1>13, WritesChild

--------------------------------------------------------------------------------
(* Threads, queues, rows and children stay tied together.                  *)

\* A thread is started for the oldest firing of its queue, goes on step by step, or ends.
ThreadEnds(j) ==
    /\ thread'[j].at = "idle"
    /\ SpawnFails(j) \/ CloseFails(j) \/ RecordResult(j) \/ phase' = "down"
ThreadStarts(j) ==
    /\ OpenRow(Pool(j)) /\ j = Oldest(Pool(j)).job /\ queue[Pool(j)] # <<>>
    /\ thread[j].at = "idle" /\ thread'[j].at = "opened" /\ thread'[j].run = last + 1
ThreadGoes(j) ==
    /\ thread'[j].run = thread[j].run
    /\ \/ Spawn(j) /\ thread'[j].at = "spawned"
       \/ Register(j) /\ thread'[j].at = "waiting"
       \/ Reap(j) /\ thread'[j].at = "reaped"
       \/ CloseRow(j) /\ thread'[j].at = (IF Result(j) = "ok" THEN "succeeded" ELSE "closed")

\* Nothing else happens to a thread.
LEMMA ThreadChanges ==
    ASSUME TypeOK, Queued, [Next]_vars, NEW j \in Jobs
    PROVE  thread'[j] = thread[j] \/ ThreadEnds(j) \/ ThreadStarts(j) \/ ThreadGoes(j)
<1> DEFINE Thread == [at : Steps, run : 0..MaxRuns]
<1>1. thread \in [Jobs -> Thread]
  BY DEF TypeOK
<1>2. ASSUME NEW i \in Jobs, NEW step, Go(i, step)
      PROVE  thread'[j] = thread[j] \/ (j = i /\ thread'[j].at = step /\ thread'[j].run = thread[j].run)
  BY <1>1, <1>2 DEF Go
<1>3. Idle.at = "idle"
  BY DEF Idle
<1> HIDE DEF Thread
<1>4. ASSUME NEW i \in Jobs, Spawn(i) \/ Register(i) \/ Reap(i) \/ CloseRow(i)
      PROVE  thread'[j] = thread[j] \/ ThreadGoes(j)
  BY <1>2, <1>4 DEF Spawn, Register, Reap, CloseRow, ThreadGoes
<1>5. ASSUME NEW i \in Jobs, SpawnFails(i) \/ CloseFails(i) \/ RecordResult(i)
      PROVE  thread'[j] = thread[j] \/ ThreadEnds(j)
  <2>1. thread' = [thread EXCEPT ![i] = Idle]
    BY <1>5 DEF SpawnFails, CloseFails, RecordResult
  <2> QED BY <1>1, <1>3, <1>5, <2>1 DEF ThreadEnds
<1>6. ASSUME NEW p \in Pools, OpenRow(p) PROVE thread'[j] = thread[j] \/ ThreadStarts(j)
  <2>1. queue[p] # <<>> /\ thread' = [thread EXCEPT ![Oldest(p).job] = [at |-> "opened", run |-> last + 1]]
    BY <1>6 DEF OpenRow, CanStart
  <2>2. Pool(Oldest(p).job) = p /\ thread[Oldest(p).job].at = "idle"
    BY <2>1, HeadOfQueue DEF Queued
  <2> QED BY <1>1, <1>6, <2>1, <2>2 DEF ThreadStarts
<1>7. ASSUME NEW dying \in SUBSET Runs, Crash(dying) PROVE ThreadEnds(j)
  BY <1>3, <1>7 DEF Crash, ThreadEnds
<1> QED BY <1>4, <1>5, <1>6, <1>7, WritesThread

\* Two threads have two runs.
LEMMA RunsDiffer ==
    ASSUME Threaded, NEW i \in Jobs, NEW j \in Jobs,
           thread[i].at # "idle", thread[j].at # "idle", thread[i].run = thread[j].run
    PROVE  i = j
  BY DEF Threaded, HasRun

\* What is absent, and what is dead, stays so.
LEMMA LivesAndPhases ==
    ASSUME TypeOK, [Next]_vars
    PROVE  /\ life' = life \/ (Start /\ life' = life + 1 /\ phase = "down" /\ phase' = "up")
           /\ phase = "down" /\ phase' # "down" => Start
           /\ time <= time' /\ last <= last' /\ time \in Nat /\ last \in Nat /\ life \in Nat
<1>1. time \in Nat /\ last \in Nat /\ life \in Nat
  BY SchedulerAssumption DEF TypeOK, Times
<1>2. time <= time'
  BY <1>1, WritesPhase DEF Tick
<1>3. last <= last'
  BY <1>1, WritesLast DEF StartManual, Skip, Misfire, OpenRow
<1>4. ASSUME ~UNCHANGED <<phase, life, events>>
      PROVE  /\ life' = life \/ (Start /\ life' = life + 1 /\ phase = "down" /\ phase' = "up")
             /\ phase = "down" /\ phase' # "down" => Start
  BY <1>4, WritesPhase DEF Start, Stop, Stopping, Terminate, AllEnded, Kill, Exit,
     SpawnFails, CloseFails, OpenFails, Die, Reload, Crash, SchedulerKeeps
<1> QED BY <1>1, <1>2, <1>3, <1>4

\* A step names nothing by an identifier that is not taken.
LEMMA FreshKept == Inv /\ [Next]_vars => Fresh'
<1> SUFFICES ASSUME Inv, [Next]_vars, NEW r \in Runs, r > last' PROVE row'[r] = Absent /\ child'[r].proc = "none"
  BY DEF Fresh
<1>1. last' \in 0..MaxRuns /\ last <= last' /\ last \in Nat
  BY LivesAndPhases, CountersTyped DEF Inv, Placed
<1>2. r > last /\ (last' = last + 1 => r # last + 1)
  BY <1>1, SchedulerAssumption DEF Runs
<1>3. row[r] = Absent /\ child[r].proc = "none" /\ row[r].result = "absent"
  BY <1>2 DEF Inv, Placed, Fresh, Absent
<1>4. \A j \in Jobs : thread[j].run = r => thread[j].at = "idle"
  BY <1>2 DEF Inv, TypeOK, Placed, Threaded, HasRun, Runs
<1>5. row'[r] = row[r]
  <2>1. ~RowOpens(r)
    BY <1>2 DEF RowOpens
  <2>2. ~RowOrphaned(r) /\ ~RowPruned(r)
    BY <1>3 DEF RowOrphaned, RowPruned, Closing
  <2>3. ~RowCloses(r)
    BY <1>4 DEF RowCloses, SpawnFails, CloseRow, At
  <2> QED BY <2>1, <2>2, <2>3, RowChanges DEF Inv, Placed
<1>6. child'[r].proc = "none"
  <2>1. ~ChildEnds(r)
    BY <1>3 DEF ChildEnds
  <2>2. ~ChildBegins(r)
    BY <1>2, <1>4 DEF ChildBegins, StartManual, Spawn, At
  <2> QED BY <1>3, <2>1, <2>2, ChildChanges DEF Inv, ChildStays
<1> QED BY <1>3, <1>5, <1>6

\* A row without a job is absent, is of no later life, and did not end in the future.
LEMMA RowsKept == Inv /\ [Next]_vars => Rows'
<1> SUFFICES ASSUME Inv, [Next]_vars, NEW r \in Runs
             PROVE  /\ row'[r].job = NoJob => row'[r].result = "absent"
                    /\ row'[r].life <= life' /\ row'[r].end <= time'
  BY DEF Rows
<1>1. /\ row[r].job = NoJob => row[r].result = "absent"
      /\ row[r].life <= life /\ row[r].end <= time
      /\ row[r].life \in Nat /\ row[r].end \in Nat
  BY DEF Inv, TypeOK, Placed, Rows, Times
<1>2. life <= life' /\ time <= time' /\ life \in Nat /\ life' \in Nat /\ time \in Nat /\ time' \in Nat
  <2>1. time' \in Nat /\ life' \in Nat
    BY CountersTyped DEF Inv, Placed, Times
  <2> QED BY <2>1, LivesAndPhases DEF Inv
<1>3. CASE row'[r] = row[r]
  BY <1>1, <1>2, <1>3
<1>4. CASE RowOpens(r)
  <2>1. row'[r].end \in Nat
    BY RowTyped DEF Row, Times, Inv, Placed
  <2> QED BY <1>2, <1>4, <2>1, NoJobAssumption DEF RowOpens
<1>5. CASE RowOrphaned(r) \/ RowPruned(r)
  BY <1>1, <1>2, <1>5 DEF RowOrphaned, RowPruned, SameRun, Closing
<1>6. CASE RowCloses(r)
  <2>1. PICK j \in Jobs : thread[j].run = r /\ SameRun(r) /\ row'[r].end = time /\ thread[j].at # "idle"
    BY <1>6 DEF RowCloses, SpawnFails, CloseRow, At
  <2>2. row[r].job = j
    BY <2>1 DEF Inv, Placed, Threaded, HasRun
  <2> QED BY <1>1, <1>2, <2>1, <2>2, NoJobAssumption DEF SameRun
<1> QED BY <1>3, <1>4, <1>5, <1>6, RowChanges DEF Inv, Placed

\* Every job belongs to a pool.
LEMMA PoolOf == \A j : Pool(j) \in Pools
  BY DEF Pool, Pools

\* An exit joins every thread and a crash ends them; a dead scheduler starts none.
LEMMA DownKept == Inv /\ [Next]_vars => DownIsEmpty'
<1> SUFFICES ASSUME Inv, [Next]_vars, phase' = "down"
             PROVE  /\ \A j \in Jobs : thread'[j].at = "idle"
                    /\ \A p \in Pools : queue'[p] = <<>>
  BY DEF DownIsEmpty
<1>1. CASE phase = "down" /\ UNCHANGED <<thread, queue>>
  BY <1>1 DEF Inv, Placed, DownIsEmpty
<1>2. CASE Exit
  <2>1. \A j \in Jobs : j \notin Busy(Pool(j))
    BY <1>2, PoolOf DEF Exit
  <2>2. \A j \in Jobs : thread[j].at = "idle"
    BY <2>1 DEF Busy
  <2> QED BY <1>2, <2>2 DEF Exit
<1>3. ASSUME NEW dying \in SUBSET Runs, Crash(dying)
      PROVE  /\ \A j \in Jobs : thread'[j].at = "idle"
             /\ \A p \in Pools : queue'[p] = <<>>
  BY <1>3 DEF Crash, Idle
<1>4. CASE ~Exit /\ \A dying \in SUBSET Runs : ~Crash(dying)
  <2>1. phase = "down"
    BY <1>4, WritesPhase DEF Start, Stop, Stopping, Terminate, AllEnded, Kill,
       SpawnFails, CloseFails, OpenFails, Die, Reload, SchedulerKeeps
  <2>2. ~Threads /\ phase # "up"
    BY <2>1 DEF Threads
  <2>3. \A p \in Pools : ~Misfire(p) /\ ~OpenRow(p) /\ ~OpenFails(p)
    BY <2>2 DEF Misfire, OpenRow, OpenFails, CanStart
  <2>4. \A j \in Jobs : /\ ~Spawn(j) /\ ~Register(j) /\ ~Reap(j) /\ ~CloseRow(j) /\ ~RecordResult(j)
                       /\ ~SpawnFails(j) /\ ~CloseFails(j) /\ ~Fire(j)
    BY <2>2 DEF Spawn, Register, Reap, CloseRow, RecordResult, SpawnFails, CloseFails, At, Fire, Due
  <2>5. UNCHANGED <<thread, queue>>
    BY <1>4, <2>3, <2>4, WritesThread, WritesQueue
  <2> QED BY <1>1, <2>1, <2>5
<1> QED BY <1>2, <1>3, <1>4

\* A thread with a step to take is not idle.
LEMMA ActsWithRun ==
    ASSUME NEW j, Spawn(j) \/ Register(j) \/ Reap(j) \/ CloseRow(j) \/ RecordResult(j)
                  \/ SpawnFails(j) \/ CloseFails(j)
    PROVE  thread[j].at # "idle"
  BY DEF Spawn, Register, Reap, CloseRow, RecordResult, SpawnFails, CloseFails, At

\* A queue gains a firing of a job that is nowhere, or loses its oldest.
LEMMA QueueChanges ==
    ASSUME TypeOK, [Next]_vars, NEW p \in Pools
    PROVE  \/ queue'[p] = queue[p]
           \/ queue'[p] = <<>>
           \/ \E j \in Jobs : /\ Fire(j) /\ p = Pool(j)
                             /\ queue'[p] = Append(queue[p], [job |-> j, time |-> time])
           \/ /\ queue[p] # <<>> /\ queue'[p] = Tail(queue[p])
              /\ Misfire(p) \/ OpenRow(p) \/ OpenFails(p)
<1>1. queue \in [Pools -> Seq(Firing)]
  BY DEF TypeOK, Firing
<1>2. ASSUME NEW j \in Jobs, Fire(j)
      PROVE  queue'[p] = queue[p] \/ (p = Pool(j) /\ queue'[p] = Append(queue[p], [job |-> j, time |-> time]))
  BY <1>1, <1>2 DEF Fire
<1>3. ASSUME NEW q \in Pools, Misfire(q) \/ OpenRow(q) \/ OpenFails(q)
      PROVE  queue'[p] = queue[p] \/ (p = q /\ queue[p] # <<>> /\ queue'[p] = Tail(queue[p]))
  BY <1>1, <1>3 DEF Misfire, OpenRow, OpenFails, CanStart, Pop
<1>4. ASSUME NEW dying \in SUBSET Runs, Crash(dying) PROVE queue'[p] = <<>>
  BY <1>4 DEF Crash
<1> QED BY <1>2, <1>3, <1>4, WritesQueue

\* The firing that joins a queue is its last.
LEMMA Joined ==
    ASSUME TypeOK, NEW p \in Pools, NEW f
    PROVE  /\ DOMAIN Append(queue[p], f) = 1 .. Len(queue[p]) + 1
           /\ DOMAIN queue[p] = 1 .. Len(queue[p]) /\ Len(queue[p]) \in Nat
           /\ Len(Append(queue[p], f)) = Len(queue[p]) + 1
           /\ Append(queue[p], f)[Len(queue[p]) + 1] = f
           /\ \A i \in 1 .. Len(queue[p]) : Append(queue[p], f)[i] = queue[p][i]
<1>1. queue[p] \in Seq(Firing)
  BY DEF TypeOK, Firing
<1> QED BY <1>1

\* A firing joins a queue when its job is nowhere, and leaves it when its thread starts.
LEMMA QueuedKept == Inv /\ [Next]_vars => Queued'
<1> SUFFICES ASSUME Inv, [Next]_vars, NEW p \in Pools, NEW i \in DOMAIN (queue'[p])
             PROVE  /\ Pool(queue'[p][i].job) = p
                    /\ thread'[queue'[p][i].job].at = "idle"
                    /\ \A k \in DOMAIN (queue'[p]) : queue'[p][k].job = queue'[p][i].job => k = i
  BY DEF Queued
<1>1. \A k \in DOMAIN queue[p] : queue[p][k].job \in Jobs
  <2>1. queue[p] \in Seq(Firing)
    BY DEF Inv, TypeOK, Firing
  <2>2. \A k \in DOMAIN queue[p] : queue[p][k] \in Firing
    BY <2>1
  <2> QED BY <2>2 DEF Firing
<1>2. ASSUME NEW j \in Jobs, thread[j].at = "idle"
      PROVE  thread'[j].at = "idle" \/ ThreadStarts(j)
  <2>1. ~ThreadGoes(j)
    BY <1>2, ActsWithRun DEF ThreadGoes
  <2> QED BY <1>2, <2>1, ThreadChanges DEF ThreadEnds, Inv, Placed
<1>3. CASE queue'[p] = queue[p]
  <2>1. \A k \in DOMAIN queue[p] : /\ Pool(queue[p][k].job) = p /\ thread[queue[p][k].job].at = "idle"
                                  /\ ~ThreadStarts(queue[p][k].job)
    <3>1. \A k \in DOMAIN queue[p] : Pool(queue[p][k].job) = p /\ thread[queue[p][k].job].at = "idle"
      BY DEF Inv, Placed, Queued
    <3>2. queue[p] # <<>> => ~OpenRow(p)
      <4>1. ASSUME queue[p] # <<>>, OpenRow(p) PROVE FALSE
        <5>1. queue'[p] = Tail(queue[p])
          BY <4>1 DEF OpenRow, Pop, Inv, TypeOK
        <5>2. Len(queue[p]) \in Nat /\ Len(Tail(queue[p])) = Len(queue[p]) - 1
          BY <4>1, HeadOfQueue DEF Inv
        <5>3. Tail(queue[p]) = queue[p]
          BY <1>3, <5>1
        <5>4. Len(queue[p]) = Len(queue[p]) - 1
          BY <5>2, <5>3
        <5> QED BY <5>2, <5>4
      <4> QED BY <4>1
    <3> QED BY <3>1, <3>2 DEF ThreadStarts
  <2> QED BY <1>1, <1>2, <1>3, <2>1 DEF Inv, Placed, Queued
<1>4. CASE queue'[p] = <<>>
  <2>1. DOMAIN (queue'[p]) = {}
    BY <1>4
  <2> QED BY <2>1
<1>5. ASSUME NEW j \in Jobs, Fire(j), p = Pool(j),
             queue'[p] = Append(queue[p], [job |-> j, time |-> time])
      PROVE  /\ Pool(queue'[p][i].job) = p
             /\ thread'[queue'[p][i].job].at = "idle"
             /\ \A k \in DOMAIN (queue'[p]) : queue'[p][k].job = queue'[p][i].job => k = i
  <2>1. /\ thread' = thread /\ thread[j].at = "idle"
        /\ \A k \in DOMAIN queue[p] : queue[p][k].job # j
    BY <1>5 DEF Fire, InFlight
  <2>2. /\ DOMAIN (queue'[p]) = 1 .. Len(queue[p]) + 1 /\ DOMAIN queue[p] = 1 .. Len(queue[p])
        /\ Len(queue[p]) \in Nat
        /\ queue'[p][Len(queue[p]) + 1].job = j
        /\ \A k \in 1 .. Len(queue[p]) : queue'[p][k] = queue[p][k]
    BY <1>5, Joined DEF Inv
  <2>3. \A k \in DOMAIN (queue'[p]) : k = Len(queue[p]) + 1 \/ k \in DOMAIN queue[p]
    BY <2>2
  <2>4. \A k \in DOMAIN queue[p] :
           /\ Pool(queue[p][k].job) = p /\ thread[queue[p][k].job].at = "idle"
           /\ \A m \in DOMAIN queue[p] : queue[p][m].job = queue[p][k].job => m = k
    BY DEF Inv, Placed, Queued
  <2>5. CASE i = Len(queue[p]) + 1
    BY <1>5, <2>1, <2>2, <2>3, <2>5
  <2>6. CASE i \in DOMAIN queue[p]
    BY <1>5, <2>1, <2>2, <2>3, <2>4, <2>6
  <2> QED BY <2>3, <2>5, <2>6
<1>6. CASE /\ queue[p] # <<>> /\ queue'[p] = Tail(queue[p])
           /\ Misfire(p) \/ OpenRow(p) \/ OpenFails(p)
  <2>1. /\ DOMAIN (queue'[p]) = 1 .. Len(queue[p]) - 1 /\ Len(queue[p]) \in Nat
        /\ 1 \in DOMAIN queue[p] /\ Oldest(p) = queue[p][1]
        /\ \A k \in DOMAIN (queue'[p]) : /\ queue'[p][k] = queue[p][k + 1]
                                        /\ k + 1 \in DOMAIN queue[p] /\ k + 1 # 1
    BY <1>6, HeadOfQueue DEF Inv
  <2>2. \A k \in DOMAIN queue[p] :
           /\ Pool(queue[p][k].job) = p /\ thread[queue[p][k].job].at = "idle"
           /\ \A m \in DOMAIN queue[p] : queue[p][m].job = queue[p][k].job => m = k
    BY DEF Inv, Placed, Queued
  <2>3. \A k \in DOMAIN (queue'[p]) : k \in Int
    BY <2>1
  <2>4. queue'[p][i].job # Oldest(p).job /\ queue'[p][i].job \in Jobs
        /\ Pool(queue'[p][i].job) = p /\ thread[queue'[p][i].job].at = "idle"
    BY <1>1, <2>1, <2>2
  <2>5. ~ThreadStarts(queue'[p][i].job)
    BY <2>4 DEF ThreadStarts
  <2>6. \A k \in DOMAIN (queue'[p]) : queue'[p][k].job = queue'[p][i].job => k + 1 = i + 1
    BY <2>1, <2>2
  <2> QED BY <1>2, <2>3, <2>4, <2>5, <2>6
<1> QED BY <1>3, <1>4, <1>5, <1>6, QueueChanges DEF Inv

\* The yahoo executor starts a thread when none of its jobs has one.
LEMMA OneYahooKept == Inv /\ [Next]_vars => OneYahoo'
<1> SUFFICES ASSUME Inv, [Next]_vars, NEW i \in Yahoo, NEW j \in Yahoo,
                    thread'[i].at # "idle", thread'[j].at # "idle"
             PROVE  i = j
  BY DEF OneYahoo
<1>1. i \in Jobs /\ j \in Jobs /\ Pool(i) = "yahoo" /\ Pool(j) = "yahoo"
  BY SchedulerAssumption DEF Pool
<1>2. ASSUME NEW k \in Jobs, thread'[k].at # "idle", thread[k].at = "idle" PROVE ThreadStarts(k)
  <2>1. ~ThreadGoes(k)
    BY <1>2, ActsWithRun DEF ThreadGoes
  <2> QED BY <1>2, <2>1, ThreadChanges DEF ThreadEnds, Inv, Placed
<1>3. ASSUME OpenRow("yahoo") PROVE thread[i].at = "idle" /\ thread[j].at = "idle"
  <2>1. Cardinality(Busy("yahoo")) < 1
    BY <1>3 DEF OpenRow, CanStart, Size
  <2>2. IsFiniteSet(Busy("yahoo"))
    BY SchedulerAssumption, FS_Subset DEF Busy
  <2>3. Busy("yahoo") = {}
    BY <2>1, <2>2, FS_EmptySet, FS_CardinalityType
  <2> QED BY <1>1, <2>3 DEF Busy
<1>4. CASE thread[i].at # "idle" /\ thread[j].at # "idle"
  BY <1>4 DEF Inv, Placed, OneYahoo
<1>5. CASE thread[i].at = "idle" \/ thread[j].at = "idle"
  <2>1. OpenRow("yahoo")
    BY <1>1, <1>2, <1>5 DEF ThreadStarts
  <2> QED BY <1>1, <1>2, <1>3, <2>1 DEF ThreadStarts
<1> QED BY <1>4, <1>5

\* A firing reserves the identifier its row takes.
LEMMA ReservedKept == Inv /\ [Next]_vars => Reserved'
<1> SUFFICES ASSUME Inv, [Next]_vars PROVE last' + Waiting' <= MaxRuns
  BY DEF Reserved
<1> DEFINE y == Len(queue["yahoo"])
           d == Len(queue["default"])
           Lens(a, b) == y' = y + a /\ d' = d + b
<1>1. y \in Nat /\ d \in Nat /\ last \in Nat /\ MaxRuns \in Nat
  BY Identifiers, LivesAndPhases, SchedulerAssumption DEF Inv
<1>2. Waiting = y + d /\ Waiting' = y' + d'
  BY DEF Waiting
<1>3. ASSUME queue' = queue PROVE Lens(0, 0) /\ (last' = last \/ (last' = last + 1 /\ Room))
  <2>1. Lens(0, 0)
    BY <1>1, <1>3
  <2>2. ASSUME NEW p \in Pools, Misfire(p) \/ OpenRow(p) PROVE FALSE
    <3>1. queue[p] # <<>> /\ queue'[p] = Tail(queue[p])
      BY <2>2 DEF Misfire, OpenRow, CanStart, Pop, Inv, TypeOK
    <3>2. Len(queue[p]) \in Nat /\ Len(Tail(queue[p])) = Len(queue[p]) - 1
      BY <3>1, HeadOfQueue DEF Inv
    <3>3. Len(queue[p]) = Len(queue[p]) - 1
      BY <1>3, <3>1, <3>2
    <3> QED BY <3>2, <3>3
  <2> QED BY <2>1, <2>2, WritesLast DEF StartManual, Skip, Due
<1>4. ASSUME NEW j \in Jobs, Fire(j) PROVE (Lens(1, 0) \/ Lens(0, 1)) /\ last' = last /\ Room
  <2>1. queue' = [queue EXCEPT ![Pool(j)] = Append(queue[Pool(j)], [job |-> j, time |-> time])]
    BY <1>4 DEF Fire, Inv, TypeOK
  <2>2. Len(Append(queue[Pool(j)], [job |-> j, time |-> time])) = Len(queue[Pool(j)]) + 1
    BY PoolOf, Joined DEF Inv
  <2>3. Lens(1, 0) \/ Lens(0, 1)
    BY <1>1, <2>1, <2>2, PoolOf DEF Inv, TypeOK, Pools
  <2> QED BY <1>4, <2>3 DEF Fire, Due
<1>5. ASSUME NEW p \in Pools, Misfire(p) \/ OpenRow(p) \/ OpenFails(p)
      PROVE  (Lens(-1, 0) \/ Lens(0, -1)) /\ (last' = last \/ last' = last + 1)
  <2>1. queue[p] # <<>> /\ queue' = [queue EXCEPT ![p] = Tail(queue[p])]
    BY <1>5 DEF Misfire, OpenRow, OpenFails, CanStart, Pop, Inv, TypeOK
  <2>2. Len(Tail(queue[p])) = Len(queue[p]) - 1
    BY <2>1, HeadOfQueue DEF Inv
  <2>3. Lens(-1, 0) \/ Lens(0, -1)
    BY <1>1, <2>1, <2>2 DEF Inv, TypeOK, Pools
  <2> QED BY <1>5, <2>3 DEF Misfire, OpenRow, OpenFails
<1>6. ASSUME NEW dying \in SUBSET Runs, Crash(dying) PROVE y' = 0 /\ d' = 0 /\ last' = last
  BY <1>6 DEF Crash, Pools
<1> HIDE DEF y, d
<1>7. last + (y + d) <= MaxRuns /\ (Room => last + (y + d) < MaxRuns)
  BY <1>2 DEF Inv, Placed, Reserved, Room
<1> DEFINE Goal == last' + (y' + d') <= MaxRuns
<1>8. queue' = queue => Goal
  BY <1>1, <1>3, <1>7
<1>9. ASSUME NEW j \in Jobs, Fire(j) PROVE Goal
  BY <1>1, <1>4, <1>7, <1>9
<1>10. ASSUME NEW p \in Pools, Misfire(p) \/ OpenRow(p) \/ OpenFails(p) PROVE Goal
  BY <1>1, <1>5, <1>7, <1>10
<1>11. ASSUME NEW dying \in SUBSET Runs, Crash(dying) PROVE Goal
  BY <1>1, <1>6, <1>7, <1>11
<1>12. Goal
  BY <1>8, <1>9, <1>10, <1>11, WritesQueue
<1> QED BY <1>2, <1>12

\* A thread keeps its run, and each of its steps leaves row and child as the next needs.
LEMMA ThreadedKept == Inv /\ [Next]_vars => Threaded'
<1> SUFFICES ASSUME Inv, [Next]_vars, NEW j \in Jobs, thread'[j].at # "idle" PROVE HasRun(j)'
  BY DEF Threaded
<1>1. CASE thread[j].at # "idle"
  <2> DEFINE r == thread[j].run
  <2>1. HasRun(j) /\ r \in Runs /\ r <= last
    BY <1>1 DEF Inv, Placed, Threaded, HasRun
  <2>2. \A i \in Jobs : thread[i].run = r /\ thread[i].at # "idle" => i = j
    BY <1>1, RunsDiffer DEF Inv, Placed
  <2>3. phase # "down" /\ life' = life /\ ~Start /\ last <= last' /\ last \in Nat /\ r # last + 1
    BY <1>1, <2>1, LivesAndPhases DEF Inv, Placed, DownIsEmpty, Start, Runs
  <2>4. r <= last'
    BY <2>1, <2>3, CountersTyped DEF Runs, Inv, Placed
  <2>5. ~ThreadStarts(j) /\ thread'[j].run = r
    BY <1>1, ThreadChanges DEF ThreadStarts, ThreadEnds, ThreadGoes, Inv, Placed
  <2>6. row'[r] = row[r] \/ RowPruned(r) \/ RowCloses(r)
    <3>1. ~RowOpens(r) /\ ~RowOrphaned(r)
      BY <2>3 DEF RowOpens, RowOrphaned
    <3> QED BY <2>1, <3>1, RowChanges DEF Inv, Placed
  <2>7. row'[r].job = row[r].job /\ row'[r].life = row[r].life
    BY <2>6 DEF RowPruned, RowCloses, SameRun
  <2>8. row'[r].result = row[r].result \/ row[r].result # "open" \/ SpawnFails(j) \/ CloseRow(j)
    BY <2>2, <2>6, ActsWithRun DEF RowPruned, RowCloses, Closing
  <2>9. ChildStays(r) \/ ChildEnds(r) \/ (ChildBegins(r) /\ Spawn(j))
    <3>1. ChildBegins(r) => Spawn(j)
      BY <2>2, <2>3, ActsWithRun DEF ChildBegins
    <3> QED BY <2>1, <3>1, ChildChanges DEF Inv
  <2>10. child[r].proc \in {"none", "alive", "gone"}
    BY <2>1 DEF Inv, TypeOK
  <2> HIDE DEF r
  <2>11. CASE thread'[j] = thread[j]
    <3>1. ~Spawn(j) /\ ~SpawnFails(j) /\ ~CloseRow(j)
      <4>1. thread[j].run = r /\ thread \in [Jobs -> [at : Steps, run : 0..MaxRuns]]
        BY DEF r, Inv, TypeOK
      <4>2. SpawnFails(j) => thread'[j].at = "idle"
        BY <4>1 DEF SpawnFails, Idle
      <4>3. Spawn(j) => thread[j].at = "opened" /\ thread'[j].at = "spawned"
        BY <4>1 DEF Spawn, At, Go
      <4>4. CloseRow(j) => thread[j].at = "reaped" /\ thread'[j].at # "reaped"
        BY <4>1 DEF CloseRow, At, Go
      <4> QED BY <1>1, <2>11, <4>2, <4>3, <4>4
    <3> QED BY <2>1, <2>3, <2>4, <2>5, <2>7, <2>8, <2>9, <2>10, <2>11, <3>1
            DEF HasRun, ChildStays, ChildEnds, r
  <2>12. CASE ThreadGoes(j)
    <3>1. ThreadGoes(j) /\ Spawn(j) => thread[j].at = "opened" /\ thread'[j].at = "spawned" /\ child'[r].proc = "alive"
      <4>1. ASSUME ThreadGoes(j), Spawn(j) PROVE thread[j].at = "opened" /\ thread'[j].at = "spawned"
        BY <4>1 DEF ThreadGoes, Spawn, Register, Reap, CloseRow, At
      <4>2. Spawn(j) => child'[r].proc = "alive"
        BY <2>1 DEF Spawn, r, Inv, TypeOK
      <4> QED BY <4>1, <4>2
    <3>2. CASE Spawn(j)
      <4>1. row' = row
        BY <3>2 DEF Spawn
      <4> QED BY <2>1, <2>3, <2>4, <2>5, <2>12, <3>1, <3>2, <4>1 DEF HasRun, r
    <3>3. CASE Register(j)
      <4>1. row' = row /\ child' = child /\ thread[j].at = "spawned" /\ thread'[j].at = "waiting"
        BY <2>12, <3>3 DEF ThreadGoes, Spawn, Register, Reap, CloseRow, At
      <4> QED BY <2>1, <2>3, <2>4, <2>5, <4>1 DEF HasRun, r
    <3>4. CASE Reap(j)
      <4>1. /\ row' = row /\ child' = child /\ thread[j].at = "waiting" /\ thread'[j].at = "reaped"
            /\ child[r].proc = "gone"
        BY <2>12, <3>4 DEF ThreadGoes, Spawn, Register, Reap, CloseRow, At, r
      <4> QED BY <2>1, <2>3, <2>4, <2>5, <4>1 DEF HasRun, r
    <3>5. CASE CloseRow(j)
      <4>1. /\ child' = child /\ thread[j].at = "reaped" /\ thread'[j].at \in {"closed", "succeeded"}
        BY <2>12, <3>5 DEF ThreadGoes, Spawn, Register, Reap, CloseRow, At
      <4> QED BY <2>1, <2>3, <2>4, <2>5, <2>7, <4>1 DEF HasRun, r
    <3> QED BY <2>12, <3>2, <3>3, <3>4, <3>5 DEF ThreadGoes
  <2> QED BY <1>1, <2>5, <2>11, <2>12, ThreadChanges DEF ThreadEnds, Inv, Placed
<1>2. CASE thread[j].at = "idle"
  <2>1. ThreadStarts(j)
    <3>1. ~ThreadGoes(j)
      BY <1>2, ActsWithRun DEF ThreadGoes
    <3> QED BY <1>2, <3>1, ThreadChanges DEF ThreadEnds, Inv, Placed
  <2>2. /\ last + 1 \in Runs /\ last \in Nat /\ 0 \in Times /\ state[j].built \in Times
    <3>1. last + 1 \in Runs
      BY <2>1, PoolOf, Identifiers DEF ThreadStarts, Inv, Placed
    <3>2. last \in Nat /\ 0 \in Times
      BY LivesAndPhases, SchedulerAssumption DEF Inv, Times
    <3>3. state[j].built \in Times
      BY DEF Inv, TypeOK
    <3> QED BY <3>1, <3>2, <3>3
  <2>3. row' = Opened(j, state[j].built, "open", 0) /\ last' = last + 1 /\ child' = child /\ life' = life
    BY <2>1 DEF ThreadStarts, OpenRow
  <2>4. row'[last + 1].job = j /\ row'[last + 1].life = life /\ row'[last + 1].result = "open"
    <3>1. Opened(j, state[j].built, "open", 0)[last + 1]
             = [job |-> j, at |-> state[j].built, life |-> life, result |-> "open", end |-> 0]
      BY <2>2, OpenedIs DEF Inv
    <3> QED BY <2>3, <3>1
  <2>5. child[last + 1].proc = "none"
    BY <2>2 DEF Inv, Placed, Fresh
  <2>6. thread'[j].run = last + 1 /\ thread'[j].at = "opened"
    BY <2>1 DEF ThreadStarts
  <2> QED BY <2>2, <2>3, <2>4, <2>5, <2>6 DEF HasRun
<1> QED BY <1>1, <1>2

\* A thread that spawned a child stays with it until the child is gone.
LEMMA WatchedKept == Inv /\ [Next]_vars => Watched'
<1> SUFFICES ASSUME Inv, [Next]_vars, NEW r \in Runs, Ours(r)' PROVE WatchedBy(row[r].job, r)'
  BY DEF Watched
<1>1. /\ child'[r].proc = "alive" /\ row'[r].job # NoJob /\ row'[r].life = life' /\ phase' # "down"
      /\ child[r].proc \in {"none", "alive", "gone"}
  BY DEF Ours, Inv, TypeOK
<1>2. CASE child[r].proc = "alive"
  <2>1. r <= last
    <3>1. ~(r > last)
      BY <1>2 DEF Inv, Placed, Fresh
    <3> QED BY <3>1, LivesAndPhases DEF Inv, Runs
  <2>2. /\ ~RowOpens(r) /\ row'[r].job = row[r].job /\ row'[r].life = row[r].life
    <3>1. ~RowOpens(r)
      BY <2>1, LivesAndPhases DEF RowOpens, Inv, Runs
    <3> QED BY <3>1, RowChanges DEF Inv, Placed, RowOrphaned, RowPruned, RowCloses, SameRun
  <2>3. ~Start /\ life' = life /\ phase # "down"
    <3>1. row[r].life <= life /\ row[r].life \in Nat
      BY DEF Inv, Placed, Rows, TypeOK
    <3>2. life' # life + 1
      BY <1>1, <2>2, <3>1, LivesAndPhases DEF Inv
    <3> QED BY <1>1, <3>2, LivesAndPhases DEF Start, Inv
  <2>10. PICK j : j = row[r].job
    OBVIOUS
  <2>4. thread[j].at \in {"spawned", "waiting"} /\ thread[j].run = r /\ j \in Jobs
    BY ZenonT(60), <1>1, <1>2, <2>2, <2>3, <2>10 DEF Inv, Placed, Watched, Ours, WatchedBy, TypeOK
  <2>5. ~ThreadStarts(j) /\ ~ThreadEnds(j)
    BY <1>1, <2>4 DEF ThreadStarts, ThreadEnds, SpawnFails, CloseFails, RecordResult, At
  <2>6. ThreadGoes(j) => WatchedBy(j, r)'
    <3>1. ~Reap(j)
      BY <1>2, <2>4 DEF Reap
    <3>2. ~CloseRow(j)
      BY <2>4 DEF CloseRow, At
    <3> QED BY <2>4, <3>1, <3>2 DEF ThreadGoes, WatchedBy
  <2>7. thread'[j] = thread[j] => WatchedBy(j, r)'
    BY <2>4 DEF WatchedBy
  <2>8. WatchedBy(j, r)'
    BY <2>4, <2>5, <2>6, <2>7, ThreadChanges DEF Inv, Placed
  <2>9. row'[r].job = j
    BY <2>2, <2>10
  <2> QED BY <2>8, <2>9 DEF WatchedBy
<1>3. CASE child[r].proc # "alive"
  <2>1. ChildBegins(r)
    BY <1>1, <1>3, ChildChanges DEF Inv, ChildStays, ChildEnds
  <2>2. ~(StartManual /\ r = last + 1)
    <3>1. ASSUME StartManual, r = last + 1 PROVE FALSE
      <4>1. row'[r] = Absent
        BY <3>1, LivesAndPhases DEF StartManual, Inv, Placed, Fresh, Runs
      <4> QED BY <1>1, <4>1 DEF Absent
    <3> QED BY <3>1
  <2>3. PICK j \in Jobs : Spawn(j) /\ thread[j].run = r
    BY <2>1, <2>2 DEF ChildBegins
  <2>4. row'[r].job = j
    <3>1. row' = row
      BY <2>3 DEF Spawn
    <3> QED BY <2>3, <3>1, ActsWithRun DEF Inv, Placed, Threaded, HasRun
  <2>5. thread'[j].at = "spawned" /\ thread'[j].run = r
    BY <2>3 DEF Spawn, Go, Inv, TypeOK
  <2> QED BY <2>4, <2>5 DEF WatchedBy
<1> QED BY <1>2, <1>3

\* The invariant holds at the start and every step keeps it.
LEMMA InvInit == Init => Inv
<1> SUFFICES ASSUME Init PROVE Inv
  OBVIOUS
<1>1. 0 \in Times /\ 1 \in Times /\ 0 \in 0..MaxRuns /\ 0 \in 0..MaxEvents /\ MaxRuns \in Nat
  BY SchedulerAssumption DEF Times
<1>2. Absent \in Row
  BY <1>1 DEF Row, Absent
<1>3. Unborn \in Child
  BY <1>1 DEF Child, Unborn, Codes
<1>4. TypeOK
  <2>1. /\ time \in Times /\ life \in Nat /\ last \in 0..MaxRuns /\ events \in 0..MaxEvents
        /\ phase \in {"up", "signal", "wait", "leave", "down"} /\ setting \in [Jobs -> BOOLEAN]
        /\ fired \in [Jobs -> Nat] /\ lost \in [Jobs -> Nat]
    BY <1>1 DEF Init
  <2>2. state \in [Jobs -> [registered : BOOLEAN, built : Times, success : Times]]
    BY <1>1 DEF Init
  <2>3. thread \in [Jobs -> [at : Steps, run : 0..MaxRuns]]
    BY <1>1 DEF Init, Idle, Steps, NoRun
  <2>4. queue \in [Pools -> Seq([job : Jobs, time : Times])]
    BY DEF Init
  <2>5. row \in [Runs -> Row] /\ child \in [Runs -> Child]
    BY <1>2, <1>3 DEF Init
  <2> QED BY <2>1, <2>2, <2>3, <2>4, <2>5 DEF TypeOK, Row, Child
<1>5. \A j \in Jobs : thread[j].at = "idle"
  BY DEF Init, Idle
<1>6. \A r \in Runs : row[r] = Absent /\ child[r].proc = "none"
  BY DEF Init, Unborn
<1>7. \A p \in Pools : queue[p] = <<>> /\ DOMAIN queue[p] = {} /\ Len(queue[p]) = 0
  BY DEF Init
<1>8. DownIsEmpty /\ Fresh /\ Queued /\ Threaded
  BY <1>5, <1>6, <1>7 DEF DownIsEmpty, Fresh, Queued, Threaded
<1>9. Rows /\ Watched
  BY <1>1, <1>6 DEF Rows, Watched, Ours, Absent, Init
<1>10. OneYahoo
  BY <1>5, SchedulerAssumption DEF OneYahoo
<1>11. Reserved
  <2>1. last = 0 /\ Len(queue["yahoo"]) = 0 /\ Len(queue["default"]) = 0
    BY <1>7 DEF Init, Pools
  <2> QED BY <1>1, <2>1 DEF Reserved, Waiting
<1> QED BY <1>4, <1>8, <1>9, <1>10, <1>11 DEF Inv, Placed

\* Every step keeps the invariant.
LEMMA InvStep == Inv /\ [Next]_vars => Inv'
<1> SUFFICES ASSUME Inv, [Next]_vars PROVE Inv'
  OBVIOUS
<1>1. TypeOK'
  BY TypesKept DEF Inv, Placed
<1> QED BY <1>1, DownKept, FreshKept, RowsKept, QueuedKept, OneYahooKept, ThreadedKept, WatchedKept,
           ReservedKept DEF Inv, Placed

\* The types of the scheduler's state, and what ties its threads, queues, rows and children
\* (service.py:108-157, :213-234; runs.py:29-91) hold in every reachable state.
THEOREM Tied == Spec => []Inv
  BY InvInit, InvStep, PTL DEF Spec

--------------------------------------------------------------------------------
(* No two children of one scheduler overlap.                               *)

\* Of the live children of this life, one per job, and one for the yahoo queue.
OursApart ==
    \A r, s \in Runs : r # s /\ Ours(r) /\ Ours(s) =>
        row[r].job # row[s].job /\ ~(row[r].job \in Yahoo /\ row[s].job \in Yahoo)

\* So two live children of this life are of two jobs, and not both of the yahoo queue.
LEMMA OursAreApart == Inv => OursApart
<1> SUFFICES ASSUME Inv, NEW r \in Runs, NEW s \in Runs, r # s, Ours(r), Ours(s)
             PROVE  /\ row[r].job # row[s].job
                    /\ ~(row[r].job \in Yahoo /\ row[s].job \in Yahoo)
  BY DEF OursApart
<1>1. WatchedBy(row[r].job, r) /\ WatchedBy(row[s].job, s)
  BY DEF Inv, Placed, Watched
<1>2. row[r].job # row[s].job
  BY <1>1 DEF WatchedBy
<1>3. ASSUME row[r].job \in Yahoo, row[s].job \in Yahoo PROVE row[r].job = row[s].job
  BY <1>1, <1>3 DEF WatchedBy, Inv, Placed, OneYahoo
<1> QED BY <1>2, <1>3

\* A new child is of this life, and what a dead scheduler left does not change.
LEMMA NoOverlapStep == Inv /\ NoOverlap /\ [Next]_vars => NoOverlap'
<1> SUFFICES ASSUME Inv, NoOverlap, [Next]_vars, NEW r \in Runs, NEW s \in Runs,
                    child'[r].proc = "alive", child'[s].proc = "alive", r # s,
                    row'[r].life = row'[s].life, row'[r].job # NoJob, row'[s].job # NoJob
             PROVE  /\ row'[r].job # row'[s].job
                    /\ ~(row'[r].job \in Yahoo /\ row'[s].job \in Yahoo)
  BY DEF NoOverlap, Alive
<1>1. Inv'
  BY InvStep
<1>2. CASE Ours(r)' /\ Ours(s)'
  <2>1. OursApart'
    BY <1>1, OursAreApart, PTL
  <2> QED BY <1>2, <2>1 DEF OursApart
<1>3. ASSUME NEW x \in Runs, NEW y \in Runs, child'[x].proc = "alive", row'[x].job # NoJob,
             row'[x].life = row'[y].life, ~Ours(x)' \/ ~Ours(y)',
             child'[y].proc = "alive", row'[y].job # NoJob
      PROVE  /\ child[x].proc = "alive" /\ row'[x].job = row[x].job /\ row'[x].life = row[x].life
  <2>1. row'[x].life # life' \/ phase' = "down"
    BY <1>3 DEF Ours
  <2>2. child[x].proc = "alive"
    <3>1. ASSUME NEW j \in Jobs, Spawn(j), thread[j].run = x PROVE FALSE
      <4>1. row' = row /\ life' = life /\ phase' = phase /\ phase # "down" /\ thread[j].at # "idle"
        BY <3>1 DEF Spawn, At, Threads
      <4>2. row[x].life = life
        BY <3>1, <4>1 DEF Inv, Placed, Threaded, HasRun
      <4> QED BY <2>1, <4>1, <4>2
    <3>2. ASSUME StartManual, x = last + 1 PROVE FALSE
      <4>1. row'[x] = Absent
        BY <3>2, LivesAndPhases DEF StartManual, Inv, Placed, Fresh, Runs
      <4> QED BY <1>3, <4>1 DEF Absent
    <3>3. ~ChildBegins(x)
      BY <3>1, <3>2 DEF ChildBegins
    <3> QED BY <1>3, <3>3, ChildChanges DEF Inv, ChildStays, ChildEnds
  <2>3. ~RowOpens(x)
    <3>1. ~(x > last)
      BY <2>2 DEF Inv, Placed, Fresh
    <3> QED BY <3>1, LivesAndPhases DEF RowOpens, Inv, Runs
  <2> QED BY <2>2, <2>3, RowChanges DEF Inv, Placed, RowOrphaned, RowPruned, RowCloses, SameRun
<1>4. CASE ~(Ours(r)' /\ Ours(s)')
  <2>1. /\ child[r].proc = "alive" /\ row'[r].job = row[r].job /\ row'[r].life = row[r].life
        /\ child[s].proc = "alive" /\ row'[s].job = row[s].job /\ row'[s].life = row[s].life
    BY <1>3, <1>4
  <2> QED BY <2>1 DEF NoOverlap, Alive
<1> QED BY <1>2, <1>4

\* "nothing that talks to Yahoo or takes the sync lock overlaps" (service.py:3): of the
\* children one scheduler process spawned, at most one of the yahoo queue is alive, and at
\* most one of each job, whatever it has lived through since, its own death included.
THEOREM OneAtATime == Spec => []NoOverlap
<1>1. Init => NoOverlap
  BY InvInit DEF Init, NoOverlap, Alive, Unborn
<1> QED BY <1>1, InvInit, InvStep, NoOverlapStep, PTL DEF Spec

--------------------------------------------------------------------------------
(* No audit row is closed under a run that is alive.                       *)

\* A child that begins had not begun.
LEMMA BeginsOnce ==
    ASSUME Inv, NEW r \in Runs, ChildBegins(r)
    PROVE  /\ child[r].proc = "none"
           /\ row' = row /\ row[r].result \in {"open", "absent"}
<1>1. ASSUME NEW j \in Jobs, Spawn(j), thread[j].run = r
      PROVE  child[r].proc = "none" /\ row' = row /\ row[r].result = "open"
  <2>1. thread[j].at = "opened" /\ row' = row
    BY <1>1 DEF Spawn, At
  <2> QED BY <1>1, <2>1 DEF Inv, Placed, Threaded, HasRun
<1>2. ASSUME StartManual, r = last + 1
      PROVE  child[r].proc = "none" /\ row' = row /\ row[r].result = "absent"
  <2>1. last \in Nat /\ row' = row
    BY <1>2, SchedulerAssumption DEF StartManual, Inv, TypeOK
  <2>2. row[r] = Absent /\ child[r].proc = "none"
    BY <1>2, <2>1 DEF Inv, Placed, Fresh
  <2> QED BY <2>1, <2>2 DEF Absent
<1> QED BY <1>1, <1>2 DEF ChildBegins

\* A day passes only while no open sync is that old.
LEMMA HealthyStep == Inv /\ Healthy /\ LiveSyncUntouched /\ [Next]_vars => Healthy' /\ LiveSyncUntouched'
<1> SUFFICES ASSUME Inv, Healthy, LiveSyncUntouched, [Next]_vars, NEW r \in Runs
             PROVE  /\ child'[r].proc = "none" => child'[r].sync = "none"
                    /\ child'[r].proc = "alive" /\ child'[r].sync = "running" => time' - child'[r].since <= Day
                    /\ child'[r].proc = "alive" => child'[r].sync # "failed"
  BY DEF Healthy, LiveSyncUntouched, Alive
<1>1. /\ child[r].proc = "none" => child[r].sync = "none"
      /\ child[r].proc = "alive" /\ child[r].sync = "running" => time - child[r].since <= Day
      /\ child[r].proc = "alive" => child[r].sync # "failed"
      /\ time \in Nat /\ child[r].since \in Nat /\ Day \in Nat
  BY SchedulerAssumption DEF Healthy, LiveSyncUntouched, Alive, Inv, TypeOK, Times
<1>2. CASE ChildStays(r)
  <2>1. CASE SameSync(r)
    <3>1. time' = time \/ (time' = time + 1 /\ (r \in Alive /\ child[r].sync = "running" => time - child[r].since < Day))
      BY WritesPhase DEF Tick
    <3> QED BY <1>1, <1>2, <2>1, <3>1 DEF ChildStays, SameSync, Alive
  <2>2. CASE Start /\ StaleSync(r) /\ child'[r].sync = "failed"
    <3>1. child[r].sync = "running" /\ child[r].since < time - Day
      BY <2>2 DEF StaleSync
    <3>2. child'[r].proc = child[r].proc
      BY <1>2 DEF ChildStays
    <3> QED BY <1>1, <2>2, <3>1, <3>2
  <2>3. CASE /\ child[r].proc = "alive" /\ child[r].sync = "none"
             /\ child'[r].sync = "running" /\ child'[r].since = time
    <3>1. ~Tick
      BY <2>3 DEF Tick
    <3>2. time' = time /\ child'[r].proc = "alive"
      BY <1>2, <2>3, <3>1, WritesPhase DEF ChildStays
    <3> QED BY <1>1, <2>3, <3>2
  <2> QED BY <1>2, <2>1, <2>2, <2>3 DEF ChildStays
<1>3. CASE ChildEnds(r)
  BY <1>3 DEF ChildEnds
<1>4. CASE ChildBegins(r)
  BY <1>1, <1>4, BeginsOnce DEF ChildBegins, SameSync
<1> QED BY <1>2, <1>3, <1>4, ChildChanges DEF Inv

\* Closing the audit rows of a scheduler that died (runs.py:117-143) never touches a run
\* that is alive: what it closes is a day old, and no run lives for a day.
THEOREM LiveSyncsAreKept == Spec => []LiveSyncUntouched
<1>1. Init => Healthy /\ LiveSyncUntouched
  BY DEF Init, Healthy, LiveSyncUntouched, Alive, Unborn
<1> QED BY <1>1, InvInit, InvStep, HealthyStep, PTL DEF Spec

--------------------------------------------------------------------------------
(* What the operator reads is true: rows and gauges.                       *)

\* A row that says how its child ended says so truly.
Told ==
    \A r \in Runs :
        /\ row[r].result \in {"ok", "partial", "locked"} =>
              child[r].proc = "gone" /\ row[r].result = ResultFor(child[r].code)
        /\ row[r].result = "failed" => child[r].proc # "alive"

\* A result is written when the child is gone, or never was.
LEMMA ToldStep == Inv /\ Told /\ [Next]_vars => Told'
<1> SUFFICES ASSUME Inv, Told, [Next]_vars, NEW r \in Runs
             PROVE  /\ row'[r].result \in {"ok", "partial", "locked"} =>
                          child'[r].proc = "gone" /\ row'[r].result = ResultFor(child'[r].code)
                    /\ row'[r].result = "failed" => child'[r].proc # "alive"
  BY DEF Told
<1>1. CASE RowCloses(r)
  <2>1. PICK j \in Jobs : /\ thread[j].run = r /\ SameRun(r)
                          /\ \/ SpawnFails(j) /\ row'[r].result = "failed"
                             \/ CloseRow(j) /\ row'[r].result = Result(j)
    BY <1>1 DEF RowCloses
  <2>2. CASE SpawnFails(j) /\ row'[r].result = "failed"
    <3>1. child' = child /\ thread[j].at = "opened"
      BY <2>2 DEF SpawnFails, At
    <3> QED BY <2>1, <2>2, <3>1 DEF Inv, Placed, Threaded, HasRun
  <2>3. CASE CloseRow(j) /\ row'[r].result = Result(j)
    <3>1. child' = child /\ thread[j].at = "reaped"
      BY <2>3 DEF CloseRow, At
    <3>2. child[r].proc = "gone"
      BY <2>1, <3>1 DEF Inv, Placed, Threaded, HasRun
    <3> QED BY <2>1, <2>3, <3>1, <3>2, ResultCloses
  <2> QED BY <2>1, <2>2, <2>3
<1>2. CASE row'[r] = row[r]
  <2>1. ChildBegins(r) => row[r].result \notin {"ok", "partial", "locked", "failed"}
    BY BeginsOnce
  <2> QED BY <1>2, <2>1, ChildChanges DEF Told, Inv, ChildStays, ChildEnds
<1>3. CASE RowOpens(r) \/ RowOrphaned(r) \/ RowPruned(r)
  BY <1>3 DEF RowOpens, RowOrphaned, RowPruned
<1> QED BY <1>1, <1>2, <1>3, RowChanges DEF Inv, Placed

\* A live child of this life has an open row.
LEMMA ToldIsAll == Inv /\ Told => RowsTellTheEnd
<1> SUFFICES ASSUME Inv, Told, NEW r \in Runs,
                    row[r].result \in Closing, row[r].life = life, phase # "down", child[r].proc = "alive"
             PROVE  FALSE
  BY DEF Told, RowsTellTheEnd
<1>1. row[r].job # NoJob /\ row[r].job \in Jobs
  BY DEF Closing, Inv, Placed, Rows, TypeOK
<1>2. WatchedBy(row[r].job, r)
  BY <1>1 DEF Ours, Inv, Placed, Watched
<1>3. row[r].result = "open"
  BY <1>1, <1>2 DEF WatchedBy, Inv, Placed, Threaded, HasRun
<1> QED BY <1>3 DEF Closing

\* A success is on its way to the gauge, or in it; a start reads it back.
LEMMA GaugedStep == Inv /\ Gauged /\ [Next]_vars => Gauged'
<1> SUFFICES ASSUME Inv, Gauged, [Next]_vars, phase' = "up", NEW j \in Jobs, NEW r \in Runs,
                    row'[r].job = j, row'[r].result = "ok"
             PROVE  row'[r].end <= state'[j].success \/ thread'[j].at = "succeeded"
  BY DEF Gauged
<1>1. CASE Start
  <2>1. \A x \in Runs : RowsClosed[x].end \in Times
    BY ClosedRows DEF Row, Inv
  <2>2. RowsClosed[r].end <= Newest(RowsClosed, j)
    <3>1. RowsClosed[r].job = j /\ RowsClosed[r].result = "ok"
      BY <1>1 DEF Start
    <3> QED BY <2>1, <3>1, NewestIs
  <2> QED BY <1>1, <2>2 DEF Start, Built
<1>2. CASE ~Start
  <2>1. phase = "up"
    BY <1>2, WritesPhase DEF Stop, Stopping, Terminate, AllEnded, Kill, Exit, SpawnFails, CloseFails,
       OpenFails, Die, Reload, Crash, SchedulerKeeps
  <2>2. CASE RowCloses(r)
    <3>1. PICK i \in Jobs : thread[i].run = r /\ SameRun(r) /\ CloseRow(i) /\ Result(i) = "ok"
      BY <2>2 DEF RowCloses
    <3>2. i = j
      BY <3>1, ActsWithRun DEF SameRun, Inv, Placed, Threaded, HasRun
    <3>3. thread'[j].at = "succeeded"
      BY <3>1, <3>2 DEF CloseRow, Go, Inv, TypeOK
    <3> QED BY <3>3
  <2>3. CASE row'[r] = row[r]
    <3>1. row[r].end <= state[j].success \/ thread[j].at = "succeeded"
      BY <2>1, <2>3 DEF Gauged
    <3>2. row[r].end <= time
      BY DEF Inv, Placed, Rows
    <3>3. state'[j].success = state[j].success \/ state'[j].success = time
      <4>1. state \in [Jobs -> [registered : BOOLEAN, built : Times, success : Times]]
        BY DEF Inv, TypeOK
      <4>2. ASSUME NEW i \in Jobs, RecordResult(i)
            PROVE  state'[j].success = state[j].success \/ state'[j].success = time
        BY <4>1, <4>2 DEF RecordResult
      <4>3. ASSUME NEW i \in Jobs, NEW on \in BOOLEAN, Reload(i, on)
            PROVE  state'[j].success = state[j].success
        BY <4>1, <4>3 DEF Reload
      <4> QED BY <1>2, <4>2, <4>3, WritesState
    <3>4. ASSUME thread[j].at = "succeeded", thread'[j].at # "succeeded" PROVE state'[j].success = time
      <4>1. RecordResult(j)
        <5>1. ~ThreadStarts(j) /\ ~ThreadGoes(j)
          BY <3>4 DEF ThreadStarts, ThreadGoes, Spawn, Register, Reap, CloseRow, At
        <5>2. ThreadEnds(j)
          BY <3>4, <5>1, ThreadChanges DEF Inv, Placed
        <5> QED BY <3>4, <5>2 DEF ThreadEnds, SpawnFails, CloseFails, At
      <4> QED BY <3>4, <4>1 DEF RecordResult, Inv, TypeOK
    <3> QED BY <2>3, <3>1, <3>2, <3>3, <3>4
  <2>4. ~RowOpens(r) /\ ~RowOrphaned(r) /\ ~RowPruned(r)
    BY DEF RowOpens, RowOrphaned, RowPruned
  <2> QED BY <2>2, <2>3, <2>4, RowChanges DEF Inv, Placed
<1> QED BY <1>1, <1>2

\* So the gauge is not behind the newest success.
LEMMA GaugedIsOnRecord == Inv /\ Gauged => SuccessIsOnRecord
<1> SUFFICES ASSUME Inv, Gauged, phase = "up", NEW j \in Jobs, thread[j].at # "succeeded"
             PROVE  state[j].success >= Newest(row, j)
  BY DEF SuccessIsOnRecord
<1>1. \A r \in Runs : row[r].end \in Times
  BY DEF Inv, TypeOK
<1>2. state[j].success \in Times
  BY DEF Inv, TypeOK
<1>3. \A r \in Runs : row[r].job = j /\ row[r].result = "ok" => row[r].end <= state[j].success
  BY DEF Gauged
<1>4. Newest(row, j) <= state[j].success /\ Newest(row, j) \in Times
  BY <1>1, <1>2, <1>3, NewestIs
<1> QED BY <1>2, <1>4 DEF Times

--------------------------------------------------------------------------------
(* Every firing is accounted for.                                          *)

RowsOf(j) == {r \in Runs : row[r].job = j /\ row[r].life = life}
Waits(j) == \E i \in DOMAIN queue[Pool(j)] : queue[Pool(j)][i].job = j
Waitings(j) == IF Waits(j) THEN 1 ELSE 0

\* A job waits once or not at all, and its rows are finitely many.
LEMMA WaitsOnce ==
    ASSUME Inv, NEW j \in Jobs
    PROVE  /\ Cardinality({i \in DOMAIN queue[Pool(j)] : queue[Pool(j)][i].job = j}) = Waitings(j)
           /\ IsFiniteSet(RowsOf(j)) /\ Cardinality(RowsOf(j)) \in Nat
<1> DEFINE places == {i \in DOMAIN queue[Pool(j)] : queue[Pool(j)][i].job = j}
<1>1. ASSUME Waits(j) PROVE Cardinality(places) = Waitings(j)
  <2>1. PICK i \in DOMAIN queue[Pool(j)] : queue[Pool(j)][i].job = j
    BY <1>1 DEF Waits
  <2>2. places = {i}
    BY <2>1, PoolOf DEF Inv, Placed, Queued
  <2>3. Cardinality({i}) = 1
    BY FS_Singleton
  <2> QED BY <1>1, <2>2, <2>3 DEF Waitings
<1>2. ASSUME ~Waits(j) PROVE Cardinality(places) = Waitings(j)
  <2>1. places = {}
    BY <1>2 DEF Waits
  <2>2. Cardinality({}) = 0
    BY FS_EmptySet
  <2> QED BY <1>2, <2>1, <2>2 DEF Waitings
<1>3. IsFiniteSet(Runs)
  BY FS_Interval, SchedulerAssumption DEF Runs
<1>4. IsFiniteSet(RowsOf(j))
  BY <1>3, FS_Subset DEF RowsOf
<1> QED BY <1>1, <1>2, <1>4, FS_CardinalityType

Accounted ==
    phase # "down" => \A j \in Jobs : fired[j] = Cardinality(RowsOf(j)) + Waitings(j) + lost[j]

\* The same account, as the model states it.
LEMMA AccountedIsRecorded == Inv => (Accounted <=> EveryFiringRecorded)
  BY WaitsOnce DEF Accounted, EveryFiringRecorded, RowsOf

\* A step that opens no row in a life leaves every job the rows it had.
LEMMA SameRows ==
    ASSUME Inv, [Next]_vars, ~Start, \A r \in Runs : ~RowOpens(r), NEW j
    PROVE  RowsOf(j)' = RowsOf(j)
<1>1. life' = life
  BY LivesAndPhases DEF Inv
<1>2. \A r \in Runs : row'[r].job = row[r].job /\ row'[r].life = row[r].life
  BY RowChanges DEF Inv, Placed, RowOrphaned, RowPruned, RowCloses, SameRun
<1> QED BY <1>1, <1>2 DEF RowsOf

\* A row that is opened is one more of its job, and none of any other.
LEMMA OneMoreRow ==
    ASSUME Inv, last + 1 \in Runs, NEW i \in Jobs, NEW at \in Times, NEW end \in Times,
           NEW w \in Closing \cup {"open"}, row' = Opened(i, at, w, end), life' = life, NEW j \in Jobs
    PROVE  Cardinality(RowsOf(j)') = Cardinality(RowsOf(j)) + (IF j = i THEN 1 ELSE 0)
<1>1. /\ row'[last + 1].job = i /\ row'[last + 1].life = life
      /\ \A r \in Runs : r # last + 1 => row'[r] = row[r]
  <2>1. /\ row'[last + 1] = [job |-> i, at |-> at, life |-> life, result |-> w, end |-> end]
        /\ \A r \in Runs : r # last + 1 => row'[r] = row[r]
    BY OpenedIs DEF Inv
  <2> QED BY <2>1
<1>2. row[last + 1].job = NoJob
  <2>1. last + 1 > last
    BY DEF Inv, TypeOK
  <2> QED BY <2>1 DEF Inv, Placed, Fresh, Absent
<1>3. j # NoJob
  BY NoJobAssumption
<1>4. last + 1 \notin RowsOf(j)
  BY <1>2, <1>3 DEF RowsOf
<1>5. RowsOf(j)' = IF j = i THEN RowsOf(j) \cup {last + 1} ELSE RowsOf(j)
  BY <1>1, <1>4 DEF RowsOf
<1>6. IsFiniteSet(RowsOf(j)) /\ Cardinality(RowsOf(j)) \in Nat
  BY WaitsOnce
<1>7. Cardinality(RowsOf(j) \cup {last + 1}) = Cardinality(RowsOf(j)) + 1
  BY <1>4, <1>6, FS_AddElement
<1> QED BY <1>5, <1>6, <1>7

\* A firing that leaves its queue was there, and was the only one of its job.
LEMMA OneLessWaits ==
    ASSUME Inv, NEW p \in Pools, queue[p] # <<>>, Pop(p), NEW j \in Jobs
    PROVE  /\ Waits(j)' <=> Waits(j) /\ j # Oldest(p).job
           /\ Waits(Oldest(p).job) /\ Oldest(p).job \in Jobs
<1>1. /\ DOMAIN Tail(queue[p]) = 1 .. Len(queue[p]) - 1 /\ Len(queue[p]) \in Nat
      /\ 1 \in DOMAIN queue[p] /\ Oldest(p) = queue[p][1] /\ Oldest(p).job \in Jobs
      /\ \A k \in DOMAIN Tail(queue[p]) : /\ Tail(queue[p])[k] = queue[p][k + 1]
                                          /\ k + 1 \in DOMAIN queue[p] /\ k + 1 # 1
      /\ DOMAIN queue[p] = 1 .. Len(queue[p])
  BY HeadOfQueue, Joined DEF Inv
<1>2. \A k \in DOMAIN queue[p] :
         /\ Pool(queue[p][k].job) = p
         /\ \A m \in DOMAIN queue[p] : queue[p][m].job = queue[p][k].job => m = k
  BY DEF Inv, Placed, Queued
<1>3. queue'[p] = Tail(queue[p]) /\ \A q \in Pools : q # p => queue'[q] = queue[q]
  BY DEF Pop, Inv, TypeOK
<1>4. Waits(Oldest(p).job) /\ Pool(Oldest(p).job) = p
  BY <1>1, <1>2 DEF Waits
<1>5. ASSUME Pool(j) # p PROVE Waits(j)' <=> Waits(j) /\ j # Oldest(p).job
  <2>1. queue'[Pool(j)] = queue[Pool(j)] /\ j # Oldest(p).job
    BY <1>3, <1>4, <1>5, PoolOf
  <2>2. Waits(j)' <=> Waits(j)
    BY <2>1 DEF Waits
  <2> QED BY <2>1, <2>2
<1>6. ASSUME Pool(j) = p PROVE Waits(j)' <=> Waits(j) /\ j # Oldest(p).job
  <2>1. ASSUME Waits(j)' PROVE Waits(j) /\ j # Oldest(p).job
    <3>1. PICK k \in DOMAIN Tail(queue[p]) : Tail(queue[p])[k].job = j
      BY <1>3, <1>6, <2>1 DEF Waits
    <3> QED BY <1>1, <1>2, <1>6, <3>1 DEF Waits
  <2>2. ASSUME Waits(j), j # Oldest(p).job PROVE Waits(j)'
    <3>1. PICK k \in DOMAIN queue[p] : queue[p][k].job = j
      BY <1>6, <2>2 DEF Waits
    <3>2. k \in 1 .. Len(queue[p]) /\ k # 1
      BY <1>1, <2>2, <3>1
    <3>3. k - 1 \in DOMAIN Tail(queue[p]) /\ (k - 1) + 1 = k
      BY <1>1, <3>2
    <3>4. Tail(queue[p])[k - 1].job = j
      BY <1>1, <3>1, <3>3
    <3> QED BY <1>3, <1>6, <3>3, <3>4 DEF Waits
  <2> QED BY <2>1, <2>2 DEF Waits
<1> QED BY <1>1, <1>4, <1>5, <1>6

\* A firing moves from its queue to its row or to the lost, and is counted throughout.
LEMMA AccountedStep == Inv /\ Accounted /\ [Next]_vars => Accounted'
<1> SUFFICES ASSUME Inv, Accounted, [Next]_vars, phase' # "down", NEW j \in Jobs
             PROVE  fired'[j] = Cardinality(RowsOf(j)') + Waitings(j)' + lost'[j]
  BY DEF Accounted
<1>1. /\ fired \in [Jobs -> Nat] /\ lost \in [Jobs -> Nat] /\ Cardinality(RowsOf(j)) \in Nat
      /\ Waitings(j) \in Nat /\ IsFiniteSet(RowsOf(j))
  BY WaitsOnce DEF Inv, TypeOK, Waitings
<1>2. CASE Start
  <2>1. RowsOf(j)' = {}
    <3>1. \A r \in Runs : row'[r].life = row[r].life /\ row[r].life \in Nat /\ row[r].life <= life
      BY <1>2, ClosedRows DEF Start, Inv, Placed, Rows, TypeOK
    <3>2. life' = life + 1 /\ life \in Nat
      BY <1>2 DEF Start, Inv, TypeOK
    <3> QED BY <3>1, <3>2 DEF RowsOf
  <2>2. ~Waits(j)'
    <3>1. queue' = queue /\ queue[Pool(j)] = <<>>
      BY <1>2, PoolOf DEF Start, Inv, Placed, DownIsEmpty
    <3> QED BY <3>1 DEF Waits
  <2>3. fired'[j] = 0 /\ lost'[j] = 0
    BY <1>2 DEF Start
  <2> QED BY <2>1, <2>2, <2>3, FS_EmptySet DEF Waitings
<1>3. CASE ~Start
  <2>1. phase # "down" /\ life' = life
    BY <1>3, LivesAndPhases DEF Inv
  <2>2. fired[j] = Cardinality(RowsOf(j)) + Waitings(j) + lost[j]
    BY <2>1 DEF Accounted
  <2>3. ASSUME NEW i \in Jobs, Fire(i) PROVE fired'[j] = Cardinality(RowsOf(j)') + Waitings(j)' + lost'[j]
    <3>1. ~Waits(i) /\ row' = row /\ lost' = lost /\ fired'[j] = fired[j] + (IF j = i THEN 1 ELSE 0)
      BY <1>1, <2>3 DEF Fire, InFlight, Waits
    <3>2. RowsOf(j)' = RowsOf(j)
      BY <2>1, <3>1 DEF RowsOf
    <3>3. Waits(j)' <=> (Waits(j) \/ j = i)
      <4> DEFINE p == Pool(i)
                 f == [job |-> i, time |-> time]
      <4>1. queue'[p] = Append(queue[p], f) /\ \A q \in Pools : q # p => queue'[q] = queue[q]
        BY <2>3, PoolOf DEF Fire, Inv, TypeOK
      <4>2. /\ DOMAIN Append(queue[p], f) = 1 .. Len(queue[p]) + 1
            /\ DOMAIN queue[p] = 1 .. Len(queue[p]) /\ Len(queue[p]) \in Nat
            /\ Append(queue[p], f)[Len(queue[p]) + 1] = f
            /\ \A k \in 1 .. Len(queue[p]) : Append(queue[p], f)[k] = queue[p][k]
        BY PoolOf, Joined DEF Inv
      <4>3. f.job = i
        OBVIOUS
      <4> HIDE DEF f
      <4>4. CASE Pool(j) = p
        <5>1. Waits(j)' <=> \E k \in 1 .. Len(queue[p]) + 1 : Append(queue[p], f)[k].job = j
          BY <4>1, <4>2, <4>4 DEF Waits
        <5>2. Waits(j) <=> \E k \in 1 .. Len(queue[p]) : queue[p][k].job = j
          BY <4>2, <4>4 DEF Waits
        <5>3. \A k \in 1 .. Len(queue[p]) + 1 : k = Len(queue[p]) + 1 \/ k \in 1 .. Len(queue[p])
          BY <4>2
        <5>4. Len(queue[p]) + 1 \in 1 .. Len(queue[p]) + 1
              /\ \A k \in 1 .. Len(queue[p]) : k \in 1 .. Len(queue[p]) + 1
          BY <4>2
        <5> QED BY <4>2, <4>3, <5>1, <5>2, <5>3, <5>4
      <4>5. CASE Pool(j) # p
        BY <4>1, <4>5, PoolOf DEF Waits
      <4> QED BY <4>4, <4>5
    <3> QED BY <1>1, <2>2, <3>1, <3>2, <3>3 DEF Waitings
  <2>4. ASSUME NEW i \in Jobs, Skip(i) PROVE fired'[j] = Cardinality(RowsOf(j)') + Waitings(j)' + lost'[j]
    <3>1. /\ last + 1 \in Runs /\ time \in Times /\ "skipped" \in Closing \cup {"open"}
          /\ row' = Opened(i, time, "skipped", time) /\ lost' = lost /\ queue' = queue
          /\ fired'[j] = fired[j] + (IF j = i THEN 1 ELSE 0)
      <4>1. last + 1 \in Runs
        BY <2>4, Identifiers DEF Skip, Due, Inv
      <4>2. fired'[j] = fired[j] + (IF j = i THEN 1 ELSE 0)
        BY <1>1, <2>4 DEF Skip
      <4> QED BY <2>4, <4>1, <4>2 DEF Skip, Inv, TypeOK, Closing
    <3>2. Cardinality(RowsOf(j)') = Cardinality(RowsOf(j)) + (IF j = i THEN 1 ELSE 0)
      BY <2>1, <3>1, OneMoreRow
    <3>3. Waitings(j)' = Waitings(j)
      BY <3>1 DEF Waitings, Waits
    <3> QED BY <1>1, <2>2, <3>1, <3>2, <3>3
  <2>5. ASSUME NEW p \in Pools, Misfire(p) \/ OpenRow(p)
        PROVE  fired'[j] = Cardinality(RowsOf(j)') + Waitings(j)' + lost'[j]
    <3> DEFINE i == Oldest(p).job
    <3>1. queue[p] # <<>> /\ Pop(p) /\ last + 1 \in Runs /\ fired' = fired /\ lost' = lost
      BY <2>5, Identifiers DEF Misfire, OpenRow, CanStart, Inv, Placed
    <3>2. i \in Jobs /\ Oldest(p).time \in Times /\ state[i].built \in Times /\ time \in Times /\ 0 \in Times
      <4>1. i \in Jobs /\ Oldest(p).time \in Times
        BY <3>1, HeadOfQueue DEF Inv
      <4>2. \A k \in Jobs : state[k].built \in Times
        BY DEF Inv, TypeOK
      <4>3. time \in Times /\ 0 \in Times
        BY SchedulerAssumption DEF Inv, TypeOK, Times
      <4> QED BY <4>1, <4>2, <4>3
    <3>3. Cardinality(RowsOf(j)') = Cardinality(RowsOf(j)) + (IF j = i THEN 1 ELSE 0)
      <4>1. CASE Misfire(p)
        <5>1. row' = Opened(i, Oldest(p).time, "misfired", time) /\ "misfired" \in Closing \cup {"open"}
          BY <4>1 DEF Misfire, Closing
        <5> QED BY <2>1, <3>1, <3>2, <5>1, OneMoreRow
      <4>2. CASE OpenRow(p)
        <5>1. row' = Opened(i, state[i].built, "open", 0) /\ "open" \in Closing \cup {"open"}
          BY <4>2 DEF OpenRow
        <5> QED BY <2>1, <3>1, <3>2, <5>1, OneMoreRow
      <4> QED BY <2>5, <4>1, <4>2
    <3>4. Waitings(j)' = Waitings(j) - (IF j = i THEN 1 ELSE 0)
      BY <3>1, OneLessWaits DEF Waitings
    <3> QED BY <1>1, <2>2, <3>1, <3>3, <3>4
  <2>6. ASSUME NEW p \in Pools, OpenFails(p)
        PROVE  fired'[j] = Cardinality(RowsOf(j)') + Waitings(j)' + lost'[j]
    <3> DEFINE i == Oldest(p).job
    <3>1. queue[p] # <<>> /\ Pop(p) /\ fired' = fired /\ row' = row /\ lost' = [lost EXCEPT ![i] = @ + 1]
      BY <2>6 DEF OpenFails, CanStart
    <3>2. lost'[j] = lost[j] + (IF j = i THEN 1 ELSE 0)
      BY <1>1, <3>1
    <3>3. Waitings(j)' = Waitings(j) - (IF j = i THEN 1 ELSE 0)
      BY <3>1, OneLessWaits DEF Waitings
    <3>4. RowsOf(j)' = RowsOf(j)
      BY <2>1, <3>1 DEF RowsOf
    <3> QED BY <1>1, <2>2, <3>1, <3>2, <3>3, <3>4
  <2>7. CASE /\ \A i \in Jobs : ~Fire(i) /\ ~Skip(i)
             /\ \A p \in Pools : ~Misfire(p) /\ ~OpenRow(p) /\ ~OpenFails(p)
    <3>1. UNCHANGED <<fired, lost>>
      BY <1>3, <2>7, WritesCounts
    <3>2. queue' = queue
      <4>1. \A dying \in SUBSET Runs : ~Crash(dying)
        BY DEF Crash
      <4> QED BY <2>7, <4>1, WritesQueue
    <3>3. \A r \in Runs : ~RowOpens(r)
      <4>1. ASSUME NEW r \in Runs, RowOpens(r) PROVE FALSE
        <5>1. last' = last + 1 /\ row'[r].job \in Jobs
          BY <4>1 DEF RowOpens
        <5>2. last \in Nat
          BY LivesAndPhases DEF Inv
        <5>3. StartManual
          BY <2>7, <5>1, <5>2, WritesLast
        <5>4. row'[r] = Absent
          BY <4>1, <5>2, <5>3 DEF StartManual, RowOpens, Inv, Placed, Fresh, Runs
        <5> QED BY <5>1, <5>4, NoJobAssumption DEF Absent
      <4> QED BY <4>1
    <3>4. RowsOf(j)' = RowsOf(j)
      BY <1>3, <3>3, SameRows
    <3>5. Waitings(j)' = Waitings(j)
      BY <3>2 DEF Waitings, Waits
    <3> QED BY <2>2, <3>1, <3>4, <3>5
  <2> QED BY <2>3, <2>4, <2>5, <2>6, <2>7
<1> QED BY <1>2, <1>3

\* What the operator reads of the jobs is true (runs.py:82-91, :146-160; service.py:157-172):
\* in one life every firing waits, has a row, or failed to insert it; a row is closed after
\* its child is gone, with the word for its exit code; the gauge of the last success is not
\* behind the successes on record.
THEOREM RecordsAreHonest == Spec => []RecordsHonest
<1>1. Init => Accounted /\ Told /\ Gauged
  BY DEF Init, Accounted, Told, Gauged, Absent
<1>2. Inv /\ Accounted /\ Told /\ Gauged => RecordsHonest
  BY AccountedIsRecorded, ToldIsAll, GaugedIsOnRecord DEF RecordsHonest, Inv
<1> QED BY <1>1, <1>2, InvInit, InvStep, AccountedStep, ToldStep, GaugedStep, PTL DEF Spec
================================================================================

------------------------------- MODULE ShardRun -------------------------------
(***************************************************************************)
(* One sharded sync run: src/yfin/pipeline/shard.py (the parent),          *)
(* runner.py (a shard: worker threads, a bounded results queue and the     *)
(* consumer), persist.py, audit.py and the tracker of proxy/repository.py. *)
(*                                                                         *)
(* The parent holds the advisory lock, puts every symbol and one sentinel  *)
(* per shard on a queue shared by processes, and joins the shards.  A      *)
(* shard's workers fetch symbols and hand the payloads to its consumer,    *)
(* which keeps the proxy's health, writes the symbol and then its audit    *)
(* rows, each in a transaction of its own.  When the shards are gone, the  *)
(* parent charges crashes to their proxies, records what was left in the   *)
(* queue and closes the run from the audit rows.                           *)
(*                                                                         *)
(* A payload is what its fetch came to: its datasets and rows are not      *)
(* modelled, nor the retry of a lock conflict, which ends in a commit or   *)
(* in a rollback like a single attempt.                                    *)
(***************************************************************************)
EXTENDS Integers, FiniteSets, Sequences, ProxyHealth

CONSTANTS
    Universe,      \* the symbols of the run, in queue order
    Shards,        \* one process and one proxy each
    Workers,       \* worker threads of a shard (yf_max_workers)
    ResultsMax,    \* yf_queue_maxsize
    Replies,       \* bound: what fetches may come to
    Rows,          \* health rows the proxies may start with, all eligible
    MaxFaults,     \* bound: database errors outside the symbol's transaction
    MaxKills       \* bound: shards the operating system kills

\* What a fetch comes to when the symbol resolved: everything fetched, or one
\* or two datasets lost to the transport.
Resolved == {"ok", "one_fault", "two_faults"}

\* The fetches that did not resolve without an error of the transport, which
\* the consumer cannot tell apart: Yahoo does not know the symbol, its answer
\* could not be read (a 404, bad JSON), it was empty, or the worker crashed.
Counted == {"unknown", "garbled", "empty", "crashed"}

\* `unreached` is a symbol the transport kept from resolving.
Outcomes == Resolved \cup Counted \cup {"unreached"}

None == "none"

ASSUME ShardAssumption ==
    /\ Universe \in Seq(STRING) /\ Universe # <<>>
    /\ \A i, j \in DOMAIN Universe : Universe[i] = Universe[j] => i = j
    /\ IsFiniteSet(Shards) /\ Shards # {} /\ None \notin Shards
    /\ IsFiniteSet(Workers) /\ Workers # {}
    /\ ResultsMax \in Nat \ {0}
    /\ Replies \subseteq Outcomes
    /\ Rows \subseteq {h \in Health : Eligible(h)}
    /\ MaxFaults \in Nat /\ MaxKills \in Nat

Symbols == {Universe[i] : i \in DOMAIN Universe}

Status == {"ok", "failed", "unknown", "not_attempted"}

VARIABLES
    got,        \* how many entries of the shared queue have been taken
    stuck,      \* a shard died holding the read lock of the shared queue
    worker,     \* worker threads, per shard
    fate,       \* the payload of a fetched symbol
    owner,      \* the shard that took a symbol
    results,    \* a shard's bounded queue of payloads
    consumer,   \* a shard's main thread
    tracker,    \* ShardProxyTracker: state, withdrawn, and its replay on the row
    proxy,      \* row of the proxy
    process,    \* "alive", or how the shard ended
    committed,  \* symbols whose data is committed
    items,      \* sync_run_items: the statuses recorded for a symbol
    marked,     \* symbols counted toward delisting
    parent,     \* what the parent does next
    crashed,    \* shards the parent found crashed
    leftover,   \* symbols the parent drained from the queue
    exit,       \* exit code of the run
    late,       \* symbols a shard took after it withdrew
    faults,     \* database errors so far
    kills       \* kills so far

queueVars  == <<got, stuck>>
workerVars == <<worker, fate, owner, late>>
healthVars == <<tracker, proxy>>
dataVars   == <<committed, items, marked>>
parentVars == <<parent, crashed, leftover, exit>>
faultVars  == <<faults, kills>>

vars == <<queueVars, workerVars, results, consumer, healthVars, process,
          dataVars, parentVars, faultVars>>

Idle == [at |-> "check", symbol |-> None]

Waiting == [at |-> "get", symbol |-> None, saved |-> FALSE]

Init ==
    /\ got = 0 /\ stuck = FALSE
    /\ worker = [s \in Shards |-> [w \in Workers |-> Idle]]
    /\ fate = [x \in Symbols |-> None] /\ owner = [x \in Symbols |-> None]
    /\ results = [s \in Shards |-> <<>>]
    /\ consumer = [s \in Shards |-> Waiting]
    /\ proxy \in [Shards -> Rows]
    /\ tracker = [s \in Shards |-> [state |-> Fresh, withdrawn |-> FALSE, replay |-> proxy[s]]]
    /\ process = [s \in Shards |-> "alive"]
    /\ committed = {} /\ items = [x \in Symbols |-> {}] /\ marked = {}
    /\ parent = "join" /\ crashed = {} /\ leftover = {} /\ exit = None
    /\ late = [s \in Shards |-> 0]
    /\ faults = 0 /\ kills = 0

-------------------------------------------------------------------------------
(* Worker threads.                                                         *)

Alive(s) == process[s] = "alive"

Ended(s) == \A w \in Workers : worker[s][w].at = "end"

At(s, w, pc) == Alive(s) /\ worker[s][w].at = pc

\* Mutant: the loop does not look at the tracker.
CheckNothing(s, w) ==
    /\ At(s, w, "check")
    /\ worker' = [worker EXCEPT ![s][w].at = "source"]
    /\ UNCHANGED <<queueVars, fate, owner, late, results, consumer, healthVars,
                   process, dataVars, parentVars, faultVars>>

\* The top of worker_loop: a shard whose proxy is in cooldown takes no more.
Check(s, w) ==
    /\ At(s, w, "check")
    /\ worker' = [worker EXCEPT ![s][w].at = IF tracker[s].withdrawn THEN "end" ELSE "source"]
    /\ UNCHANGED <<queueVars, fate, owner, late, results, consumer, healthVars,
                   process, dataVars, parentVars, faultVars>>

\* source(): the next symbol, or a sentinel.  A sentinel ends the thread that
\* took it, not the shard.
Take(s, w) ==
    /\ At(s, w, "source") /\ ~stuck /\ got < Len(Universe) + Cardinality(Shards)
    /\ got' = got + 1
    /\ IF got < Len(Universe)
       THEN LET x == Universe[got + 1] IN
            /\ worker' = [worker EXCEPT ![s][w] = [at |-> "fetch", symbol |-> x]]
            /\ owner' = [owner EXCEPT ![x] = s]
            /\ late' = [late EXCEPT ![s] = IF tracker[s].withdrawn THEN @ + 1 ELSE @]
       ELSE /\ worker' = [worker EXCEPT ![s][w].at = "end"]
            /\ UNCHANGED <<owner, late>>
    /\ UNCHANGED <<stuck, fate, results, consumer, healthVars, process, dataVars,
                   parentVars, faultVars>>

\* Mutant: get() without a timeout ends only on a sentinel.
TakeNothingNever(s, w) ==
    /\ At(s, w, "source") /\ FALSE
    /\ UNCHANGED vars

\* source() with nothing for a second: the feeder thread of the parent is
\* behind or gone, or the read lock died with its holder.
TakeNothing(s, w) ==
    /\ At(s, w, "source")
    /\ worker' = [worker EXCEPT ![s][w].at = "end"]
    /\ UNCHANGED <<queueVars, fate, owner, late, results, consumer, healthVars,
                   process, dataVars, parentVars, faultVars>>

\* Mutant: the results queue has no bound.
FetchUnbounded(s, w) ==
    /\ At(s, w, "fetch")
    /\ LET x == worker[s][w].symbol IN
       /\ \E o \in Replies : fate' = [fate EXCEPT ![x] = o]
       /\ results' = [results EXCEPT ![s] = Append(@, x)]
    /\ worker' = [worker EXCEPT ![s][w] = Idle]
    /\ UNCHANGED <<queueVars, owner, late, consumer, healthVars, process, dataVars,
                   parentVars, faultVars>>

\* _worker and results.put, which blocks while the queue is full.
Fetch(s, w) ==
    /\ At(s, w, "fetch") /\ Len(results[s]) < ResultsMax
    /\ LET x == worker[s][w].symbol IN
       /\ \E o \in Replies : fate' = [fate EXCEPT ![x] = o]
       /\ results' = [results EXCEPT ![s] = Append(@, x)]
    /\ worker' = [worker EXCEPT ![s][w] = Idle]
    /\ UNCHANGED <<queueVars, owner, late, consumer, healthVars, process, dataVars,
                   parentVars, faultVars>>

-------------------------------------------------------------------------------
(* The consumer, one transaction per step.                                 *)

\* The health a payload leads to, and whether any event on the way withdraws
\* the shard: record_error for each kind, then one record_success.
Record(h, o) ==
    CASE o = "ok"         -> Success(h)
      [] o = "one_fault"  -> Success(Fault(h))
      [] o = "two_faults" -> Success(Fault(Fault(h)))
      [] o = "unreached"  -> Fault(h)
      [] OTHER            -> h

Withdraws(h, o) ==
    \/ o \in {"one_fault", "two_faults", "unreached"} /\ Withdrawn(Fault(h))
    \/ o = "two_faults" /\ Withdrawn(Fault(Fault(h)))
    \/ o \notin Counted /\ Withdrawn(Record(h, o))

Tracked(t, o) == [state     |-> Record(t.state, o),
                  withdrawn |-> t.withdrawn \/ Withdraws(t.state, o),
                  replay    |-> Record(t.replay, o)]

Consuming(s, pc) == Alive(s) /\ consumer[s].at = pc

Handle(o) == IF o \in Resolved THEN "persist" ELSE "emit"

Consume(s) ==
    /\ Consuming(s, "get") /\ results[s] # <<>>
    /\ LET x == Head(results[s])
           t == Tracked(tracker[s], fate[x])
       IN /\ tracker' = [tracker EXCEPT ![s] = t]
          /\ consumer' = [consumer EXCEPT ![s] =
                 [at |-> IF t.withdrawn THEN "flush" ELSE Handle(fate[x]),
                  symbol |-> x, saved |-> FALSE]]
    /\ results' = [results EXCEPT ![s] = Tail(@)]
    /\ UNCHANGED <<queueVars, workerVars, proxy, process, dataVars, parentVars, faultVars>>

\* tracker.flush: the pending events replayed on the row, in one transaction.
Flush(s) ==
    /\ Consuming(s, "flush")
    /\ proxy' = [proxy EXCEPT ![s] = tracker[s].replay]
    /\ consumer' = [consumer EXCEPT ![s].at = Handle(fate[consumer[s].symbol])]
    /\ UNCHANGED <<queueVars, workerVars, results, tracker, process, dataVars,
                   parentVars, faultVars>>

\* Mutant: the records are kept whatever became of the transaction.
PersistHopefully(s) ==
    /\ Consuming(s, "persist")
    /\ \E commits \in BOOLEAN :
          committed' = IF commits THEN committed \cup {consumer[s].symbol} ELSE committed
    /\ consumer' = [consumer EXCEPT ![s].at = "emit", ![s].saved = TRUE]
    /\ UNCHANGED <<queueVars, workerVars, results, healthVars, process, items, marked,
                   parentVars, faultVars>>

\* persist_with_retry: committed, rolled back, or committed although the
\* answer to COMMIT was lost; the last two are recorded as failed.
Persist(s) ==
    /\ Consuming(s, "persist")
    /\ \E commits, told \in BOOLEAN :
          /\ told => commits
          /\ committed' = IF commits THEN committed \cup {consumer[s].symbol} ELSE committed
          /\ consumer' = [consumer EXCEPT ![s].at = "emit", ![s].saved = told]
    /\ UNCHANGED <<queueVars, workerVars, results, healthVars, process, items, marked,
                   parentVars, faultVars>>

\* The audit rows of a symbol.
Cells(o, saved) ==
    CASE o \in Counted                      -> {"unknown"}
      [] o = "unreached"                    -> {"failed"}
      [] o = "ok" /\ saved                  -> {"ok"}
      [] o \in Resolved \ {"ok"} /\ saved   -> {"ok", "failed"}
      [] OTHER                              -> {"failed"}

\* Mutant: every symbol that did not resolve counts as unknown.
EmitUnresolved(s) ==
    /\ Consuming(s, "emit")
    /\ LET x == consumer[s].symbol IN
       /\ items' = [items EXCEPT ![x] = @ \cup Cells(fate[x], consumer[s].saved)]
       /\ consumer' = [consumer EXCEPT ![s] =
              IF fate[x] \notin Resolved THEN [@ EXCEPT !.at = "mark"] ELSE Waiting]
    /\ UNCHANGED <<queueVars, workerVars, results, healthVars, process, committed, marked,
                   parentVars, faultVars>>

\* write_items; a symbol that did not resolve is then counted by mark_unknown,
\* whatever the reason, unless an error of the transport is among its errors.
Emit(s) ==
    /\ Consuming(s, "emit")
    /\ LET x == consumer[s].symbol IN
       /\ items' = [items EXCEPT ![x] = @ \cup Cells(fate[x], consumer[s].saved)]
       /\ consumer' = [consumer EXCEPT ![s] =
              IF fate[x] \in Counted THEN [@ EXCEPT !.at = "mark"] ELSE Waiting]
    /\ UNCHANGED <<queueVars, workerVars, results, healthVars, process, committed, marked,
                   parentVars, faultVars>>

Mark(s) ==
    /\ Consuming(s, "mark")
    /\ marked' = marked \cup {consumer[s].symbol}
    /\ consumer' = [consumer EXCEPT ![s] = Waiting]
    /\ UNCHANGED <<queueVars, workerVars, results, healthVars, process, committed, items,
                   parentVars, faultVars>>

\* The None of produce(): it follows the payloads of every worker, all ended.
EndOfResults(s) ==
    /\ Consuming(s, "get") /\ results[s] = <<>> /\ Ended(s)
    /\ consumer' = [consumer EXCEPT ![s].at = "close"]
    /\ UNCHANGED <<queueVars, workerVars, results, healthVars, process, dataVars,
                   parentVars, faultVars>>

\* The last flush of the tracker; the process exits with 0.
Close(s) ==
    /\ Consuming(s, "close")
    /\ proxy' = [proxy EXCEPT ![s] = tracker[s].replay]
    /\ process' = [process EXCEPT ![s] = "exited"]
    /\ UNCHANGED <<queueVars, workerVars, results, consumer, tracker, dataVars,
                   parentVars, faultVars>>

\* A database error outside the symbol's transaction ends the consumer.  The
\* workers do not know: the interpreter waits for them before it exits, and
\* they go on taking symbols until the results queue is full.
Raise(s) ==
    /\ faults < MaxFaults
    /\ \E pc \in {"flush", "emit", "mark", "close"} : Consuming(s, pc)
    /\ faults' = faults + 1
    /\ consumer' = [consumer EXCEPT ![s].at = "raised"]
    /\ UNCHANGED <<queueVars, workerVars, results, healthVars, process, dataVars,
                   parentVars, kills>>

RaisedExit(s) ==
    /\ Consuming(s, "raised") /\ Ended(s)
    /\ process' = [process EXCEPT ![s] = "failed"]
    /\ UNCHANGED <<queueVars, workerVars, results, consumer, healthVars, dataVars,
                   parentVars, faultVars>>

\* Whether the read lock of the shared queue may die with the processes K.
MayStick(K) == \E s \in K, w \in Workers : worker[s][w].at = "source"

Kill(s) ==
    /\ Alive(s) /\ kills < MaxKills
    /\ kills' = kills + 1
    /\ process' = [process EXCEPT ![s] = "killed"]
    /\ stuck' \in {stuck, stuck \/ MayStick({s})}
    /\ UNCHANGED <<got, workerVars, results, consumer, healthVars, dataVars,
                   parentVars, faults>>

-------------------------------------------------------------------------------
(* The parent, under the advisory lock.                                    *)

Running == {s \in Shards : Alive(s)}

\* Every join returned; or a join timed out or a signal came while shards run.
Joined == /\ parent = "join" /\ Running = {}
CutShort == /\ parent = "join" /\ Running # {}

Reap ==
    /\ crashed' = {s \in Shards : process[s] # "exited"}
    /\ parent' = "terminate"
    /\ UNCHANGED <<queueVars, workerVars, results, consumer, healthVars, process,
                   dataVars, leftover, exit, faultVars>>

JoinAll == Joined /\ Reap

StopWaiting == CutShort /\ Reap

\* _terminate: SIGTERM, then SIGKILL, to every shard still alive.
Terminate ==
    /\ parent = "terminate"
    /\ process' = [s \in Shards |-> IF Alive(s) THEN "killed" ELSE process[s]]
    /\ stuck' \in {stuck, stuck \/ MayStick(Running)}
    /\ parent' = "record"
    /\ UNCHANGED <<got, workerVars, results, consumer, healthVars, dataVars, crashed,
                   leftover, exit, faultVars>>

\* Mutant: a crash counts like one failed request.
RecordCrashesAsFaults ==
    /\ parent = "record"
    /\ proxy' = [s \in Shards |-> IF s \in crashed THEN Fault(proxy[s]) ELSE proxy[s]]
    /\ parent' = "drain"
    /\ UNCHANGED <<queueVars, workerVars, results, consumer, tracker, process, dataVars,
                   crashed, leftover, exit, faultVars>>

\* record_crashes: a SHARD_CRASH on the row of every crashed shard.
RecordCrashes ==
    /\ parent = "record"
    /\ proxy' = [s \in Shards |-> IF s \in crashed THEN Crash(proxy[s]) ELSE proxy[s]]
    /\ parent' = "drain"
    /\ UNCHANGED <<queueVars, workerVars, results, consumer, tracker, process, dataVars,
                   crashed, leftover, exit, faultVars>>

\* The queue's entries from..to; the sentinels follow the symbols.
Queued(from, to) == {Universe[i] : i \in (from .. to) \cap DOMAIN Universe}

\* _drain: get_nowait until Empty, which it raises at once when the read lock
\* is stuck and as soon as it overtakes the feeder thread.
Drain ==
    /\ parent = "drain"
    /\ \E k \in got .. Len(Universe) + Cardinality(Shards) :
          /\ stuck => k = got
          /\ leftover' = Queued(got + 1, k)
    /\ parent' = "leftover"
    /\ UNCHANGED <<queueVars, workerVars, results, consumer, healthVars, process,
                   dataVars, crashed, exit, faultVars>>

RecordNotAttempted ==
    /\ parent = "leftover"
    /\ items' = [x \in Symbols |->
           IF x \in leftover THEN items[x] \cup {"not_attempted"} ELSE items[x]]
    /\ parent' = "finalize"
    /\ UNCHANGED <<queueVars, workerVars, results, consumer, healthVars, process,
                   committed, marked, crashed, leftover, exit, faultVars>>

\* exit_code over the statuses the audit holds: `missing` symbols have no row.
Recorded(status) == {x \in Symbols : status \in items[x]}

Missing == {x \in Symbols : items[x] = {}}

\* Mutant: only the rows that exist are counted.
ExitCodeOfRows ==
    IF Symbols \ (Missing \cup Recorded("unknown")) = {} THEN "none_resolved"
    ELSE IF Recorded("failed") = {}
         THEN IF Recorded("not_attempted") # {} THEN "partial" ELSE "ok"
    ELSE IF Recorded("ok") = {} THEN "all_failed"
    ELSE "partial"

ExitCode ==
    IF Symbols \ (Missing \cup Recorded("unknown")) = {} THEN "none_resolved"
    ELSE IF Recorded("failed") = {}
         THEN IF Missing \cup Recorded("not_attempted") # {} THEN "partial" ELSE "ok"
    ELSE IF Recorded("ok") = {} THEN "all_failed"
    ELSE "partial"

FinalizeRun ==
    /\ parent = "finalize"
    /\ exit' = ExitCode
    /\ parent' = "done"
    /\ UNCHANGED <<queueVars, workerVars, results, consumer, healthVars, process,
                   dataVars, crashed, leftover, faultVars>>

\* The parent is killed, or a signal finds it outside the try block, or its
\* database session is lost: the advisory lock is free, the shards go on.
ParentDies ==
    /\ parent \notin {"done", "dead"}
    /\ parent' = "dead"
    /\ UNCHANGED <<queueVars, workerVars, results, consumer, healthVars, process,
                   dataVars, crashed, leftover, exit, faultVars>>

-------------------------------------------------------------------------------

WorkerStep(s, w) ==
    Check(s, w) \/ Take(s, w) \/ TakeNothing(s, w) \/ Fetch(s, w)

ConsumerStep(s) ==
    \/ Consume(s) \/ Flush(s) \/ Persist(s) \/ Emit(s) \/ Mark(s)
    \/ EndOfResults(s) \/ Close(s) \/ RaisedExit(s)

ParentStep ==
    JoinAll \/ Terminate \/ RecordCrashes \/ Drain \/ RecordNotAttempted \/ FinalizeRun

Next ==
    \/ \E s \in Shards, w \in Workers : WorkerStep(s, w)
    \/ \E s \in Shards : ConsumerStep(s) \/ Raise(s) \/ Kill(s)
    \/ ParentStep \/ StopWaiting \/ ParentDies

Spec == Init /\ [][Next]_vars

\* The threads of a live process are scheduled and a fetch ends (every request
\* has a timeout); nothing makes an error, a kill or a cancel happen.
FairSpec ==
    /\ Spec
    /\ \A s \in Shards : WF_vars(ConsumerStep(s))
    /\ \A s \in Shards, w \in Workers : WF_vars(WorkerStep(s, w))
    /\ WF_vars(ParentStep)

-------------------------------------------------------------------------------
(* Properties.                                                             *)

Thread == [at : {"check", "source", "end"}, symbol : {None}]
          \cup [at : {"fetch"}, symbol : Symbols]

Main == [at : {"get", "close"}, symbol : {None}, saved : {FALSE}]
        \cup [at : {"flush", "persist", "emit", "mark"}, symbol : Symbols, saved : BOOLEAN]
        \cup [at : {"raised"}, symbol : Symbols \cup {None}, saved : BOOLEAN]

Ends == {"exited", "failed", "killed"}

Tracker == [state : Health, withdrawn : BOOLEAN, replay : Health]

\* Types of the variables.
TypeOK ==
    /\ got \in 0 .. (Len(Universe) + Cardinality(Shards)) /\ stuck \in BOOLEAN
    /\ worker \in [Shards -> [Workers -> Thread]]
    /\ fate \in [Symbols -> Outcomes \cup {None}]
    /\ owner \in [Symbols -> Shards \cup {None}]
    /\ results \in [Shards -> Seq(Symbols)]
    /\ consumer \in [Shards -> Main]
    /\ tracker \in [Shards -> Tracker]
    /\ proxy \in [Shards -> Health]
    /\ process \in [Shards -> Ends \cup {"alive"}]
    /\ committed \subseteq Symbols /\ marked \subseteq Symbols
    /\ items \in [Symbols -> SUBSET Status]
    /\ parent \in {"join", "terminate", "record", "drain", "leftover", "finalize",
                   "done", "dead"}
    /\ crashed \subseteq Shards /\ leftover \subseteq Symbols
    /\ exit \in {None, "ok", "partial", "all_failed", "none_resolved"}
    /\ late \in [Shards -> Nat]
    /\ faults \in 0 .. MaxFaults /\ kills \in 0 .. MaxKills

\* "The exit code can never be 0 while an unprocessed symbol remains"
\* (audit.py:337): whatever crashed, was killed, cancelled or left in the
\* queue, a run that reports success has written every symbol that resolved,
\* and has fetched all the others without an error of the transport.  A symbol
\* whose worker crashed is one of those: its row reads unknown_symbol.
ExitHonest ==
    exit = "ok" => \A x \in Symbols : x \in committed \/ fate[x] \in Counted

\* An audit row says what happened to its symbol, across separate
\* transactions and crashes between them: `ok` is committed data, `unknown` a
\* fetch that did not resolve, not for the transport, and `not_attempted` a
\* symbol no shard ever took.
AuditTrue ==
    \A x \in Symbols :
        /\ "ok" \in items[x] => x \in committed
        /\ "unknown" \in items[x] => fate[x] \in Counted
        /\ "not_attempted" \in items[x] => owner[x] = None /\ x \notin committed

\* A dead proxy never costs a symbol its place ("A transport error is not the
\* symbol's fault", runner.py:319): a symbol counted toward delisting was not
\* lost to the transport, has no data of this run, and has its audit row.  It
\* may well be a symbol Yahoo knows: an unreadable or empty answer and a crashed
\* worker count as well.
DelistSparesTransport ==
    \A x \in marked : fate[x] \in Counted /\ x \notin committed /\ "unknown" \in items[x]

\* The bound of the results queue bounds what a shard can lose: the symbols it
\* has taken and not audited, also when its consumer has died.
Backpressure ==
    \A s \in Shards :
        Cardinality({x \in Symbols : owner[x] = s /\ items[x] = {}})
            <= ResultsMax + Cardinality(Workers) + 1

\* A shard whose proxy went into cooldown takes at most one more symbol per
\* worker, the one it had already decided to take.
WithdrawBounded == \A s \in Shards : late[s] <= Cardinality(Workers)

\* When a run is closed, the proxy of every shard that did not end by itself
\* is out of the pool, whatever that shard had written to its row before.
CrashAccounted ==
    parent = "done" => \A s \in Shards : process[s] # "exited" => ~Eligible(proxy[s])

\* The rows a run is closed from do not move under it: no shard outlives the
\* reaping that precedes the count.
CountsAreFinal ==
    [][(parent \in {"finalize", "done"}) => UNCHANGED <<dataVars, proxy>>]_vars

\* A run ends and is closed, unless a database error ended the consumer of a
\* shard: workers, results queue, consumer and parent never wait on one
\* another.  (With such an error the shard can hang until the join times out.)
RunEnds ==
    <>(\/ Running = {} /\ parent \in {"done", "dead"}
       \/ \E s \in Shards : consumer[s].at = "raised")

\* What waits between a worker and its consumer neither breaks the exit code nor grows.
BacklogHolds == TypeOK /\ ExitHonest /\ Backpressure

\* A run ends, and nothing moves under the count it ends with.
RunCloses == RunEnds /\ CountsAreFinal
===============================================================================

----------------------------- MODULE StreamIngest -----------------------------
(***************************************************************************)
(* The streaming process (src/yfin/stream/): supervisor.py, writer.py,     *)
(* runner.py and the fan-out of publish.py.                                *)
(*                                                                         *)
(* The event loop decodes messages and hands them over in memory: a        *)
(* bounded queue of ticks that drops when full, a bounded queue of         *)
(* rejects, a box with the newest tick per symbol, and three counters.     *)
(* One writer thread drains all of them into PostgreSQL, a batch per       *)
(* transaction, and then publishes the batch to the browsers.  The main    *)
(* thread watches both: a signal or a dead writer stops the supervisor,    *)
(* then the writer drains, is joined, and the session row is closed.       *)
(* `yfin purge` may hard-delete a symbol meanwhile.                        *)
(*                                                                         *)
(* A tick is its symbol and its ts_utc; equal ticks are the identical      *)
(* snapshots Yahoo re-sends.  The health box, the reject sampler and the   *)
(* rows_written counter are not modelled here.                             *)
(***************************************************************************)
EXTENDS Naturals, FiniteSets, Sequences

CONSTANTS
    Symbols,      \* symbols messages arrive for
    Archive,      \* StreamSupervisor._archived: those whose ticks are kept
    MaxTs,        \* bound: instants a tick may carry
    QueueMax,     \* SupervisorConfig.queue_maxsize
    BatchSize,    \* WriterConfig.batch_size
    QuotesEvery,  \* WriterConfig.quotes_every_n_batches
    Kafka,        \* WriterConfig.kafka_enabled
    JoinTimesOut, \* whether thread.join(timeout=30) may give up on the writer
    MaxMessages,  \* bound: messages received
    MaxPurges,    \* bound: symbols purged
    MaxFaults     \* bound: database errors

ASSUME StreamAssumption ==
    /\ Archive \subseteq Symbols
    /\ {MaxTs, QueueMax, BatchSize, QuotesEvery, MaxMessages, MaxPurges, MaxFaults} \subseteq Nat
    /\ QueueMax > 0 /\ BatchSize > 0 /\ QuotesEvery > 0
    /\ Kafka \in BOOLEAN /\ JoinTimesOut \in BOOLEAN

Tick == [symbol : Symbols, ts : 1 .. MaxTs]

\* What the box, the quote table and the newest message say of a symbol: the
\* instant of a tick, or 0 for no row.
Latest == [Symbols -> 0 .. MaxTs]

Empty == [s \in Symbols |-> 0]

Newer(a, b) == IF a >= b THEN a ELSE b

\* One number per column of stream_sessions that counts messages.
Counts == [messages : Nat, dropped : Nat, rejected : Nat]

Zero == [messages |-> 0, dropped |-> 0, rejected |-> 0]

Plus(a, b) == [messages |-> a.messages + b.messages,
               dropped  |-> a.dropped + b.dropped,
               rejected |-> a.rejected + b.rejected]

SymbolsOf(T) == {t.symbol : t \in T}

ElementsOf(q) == {q[i] : i \in 1 .. Len(q)}

VARIABLES
    queue,      \* StreamSupervisor.queue
    rejectq,    \* how many rejects wait in StreamSupervisor.rejects
    box,        \* LatestBox._rows
    counters    \* StreamCounters

loopVars == <<queue, rejectq, box, counters>>

VARIABLES
    pc,         \* where the writer thread is
    draining,   \* it has left the main loop for the drain loop
    batch,      \* rows of the current batch
    accepted,   \* those of them the symbol filter let through
    drained,    \* what _write_quotes took out of the box and will upsert
    batches,    \* StreamWriter._batches, modulo QuotesEvery
    cache,      \* SymbolFilter._known
    taken       \* the counters taken and not yet on the session row

writerVars == <<pc, draining, batch, accepted, drained, batches, cache, taken>>

VARIABLES
    listed,     \* table symbols
    ticks,      \* table live_ticks
    quotes,     \* table live_quotes
    outbox,     \* table stream_outbox
    refused,    \* ticks recorded as unknown_symbol rejects
    totals      \* the counters of the stream_sessions row

dbVars == <<listed, ticks, quotes, outbox, refused, totals>>

VARIABLES
    verdict,    \* what _watch returned, "none" while it polls
    stopping,   \* StreamWriter._stopping
    status      \* StreamStatus of the session row

runVars == <<verdict, stopping, status>>

VARIABLES
    received,   \* history: exact counts of what arrived
    arrived,    \* history: ticks of archived symbols that arrived
    overflow,   \* history: ticks a full queue dropped
    newest,     \* history: newest instant seen per symbol
    published,  \* history: ticks handed to the browsers
    purged,     \* history: ticks a purge deleted
    faults      \* database errors so far

historyVars == <<received, arrived, overflow, newest, published, purged, faults>>

vars == <<loopVars, writerVars, dbVars, runVars, historyVars>>

Init ==
    /\ queue = <<>> /\ rejectq = 0 /\ box = Empty /\ counters = Zero
    /\ pc = "idle" /\ draining = FALSE /\ batch = <<>> /\ accepted = {}
    /\ drained = Empty /\ batches = 0 /\ cache = {} /\ taken = Zero
    /\ listed = Symbols
    /\ ticks = {} /\ quotes = Empty /\ outbox = {} /\ refused = {} /\ totals = Zero
    /\ verdict = "none" /\ stopping = FALSE /\ status = "running"
    /\ received = Zero /\ arrived = {} /\ overflow = {} /\ newest = Empty
    /\ published = {} /\ purged = {} /\ faults = 0

-------------------------------------------------------------------------------
(* The event loop *)

\* Mutant: the last tick to arrive replaces the one in the box.
PutLast(b, t) == [b EXCEPT ![t.symbol] = t.ts]

\* LatestBox.put keeps the newest tick of a symbol.
Put(b, t) == [b EXCEPT ![t.symbol] = Newer(t.ts, @)]

Full == Len(queue) >= QueueMax

\* _offer_reject drops a reject its queue has no room for.
OfferReject == rejectq' = IF rejectq < QueueMax THEN rejectq + 1 ELSE rejectq

\* _on_result of a message with no usable row and one reject.
ReceiveBad ==
    /\ ~stopping
    /\ received.messages < MaxMessages
    /\ OfferReject
    /\ LET one == [messages |-> 1, dropped |-> 0, rejected |-> 1]
       IN  counters' = Plus(counters, one) /\ received' = Plus(received, one)
    /\ UNCHANGED <<queue, box, writerVars, dbVars, runVars,
                   arrived, overflow, newest, published, purged, faults>>

\* _on_result of a message with a row: the box always takes it, the queue only
\* when the symbol is archived, and a full queue drops it and counts it.
Receive(t) ==
    LET kept    == t.symbol \in Archive
        drops   == kept /\ Full
        one     == [messages |-> 1, dropped |-> IF drops THEN 1 ELSE 0, rejected |-> 0]
    IN  /\ ~stopping
        /\ received.messages < MaxMessages
        /\ box' = Put(box, t)
        /\ newest' = [newest EXCEPT ![t.symbol] = Newer(t.ts, @)]
        /\ queue' = IF kept /\ ~drops THEN Append(queue, t) ELSE queue
        /\ arrived' = IF kept THEN arrived \cup {t} ELSE arrived
        /\ overflow' = IF drops THEN overflow \cup {t} ELSE overflow
        /\ counters' = Plus(counters, one)
        /\ received' = Plus(received, one)
        /\ UNCHANGED <<rejectq, writerVars, dbVars, runVars, published, purged, faults>>

-------------------------------------------------------------------------------
(* The symbol filter *)

\* known(): a miss with a stale cache reloads the table, any miss left asks the
\* database.  What is cached is believed, however old.
Refreshes(stale, candidates) == stale /\ ~(candidates \subseteq cache)

Hits(stale, candidates) ==
    IF Refreshes(stale, candidates)
    THEN candidates \cap listed
    ELSE candidates \cap (cache \cup listed)

Remembered(stale, candidates) ==
    IF Refreshes(stale, candidates)
    THEN listed
    ELSE cache \cup (candidates \cap listed)

-------------------------------------------------------------------------------
(* The writer thread *)

\* Mutant: run() returns once stopped, without the drain loop.
BeginNoDrain ==
    /\ pc = "idle"
    /\ pc' = IF stopping THEN "done" ELSE "collect"
    /\ draining' = stopping
    /\ UNCHANGED <<loopVars, batch, accepted, drained, batches, cache, taken,
                   dbVars, runVars, historyVars>>

\* The top of run(): another cycle, or the drain loop once stop() was called.
Begin ==
    /\ pc = "idle"
    /\ pc' = "collect"
    /\ draining' = stopping
    /\ UNCHANGED <<loopVars, batch, accepted, drained, batches, cache, taken,
                   dbVars, runVars, historyVars>>

\* One iteration of _collect's loop.
Get ==
    /\ pc = "collect"
    /\ Len(batch) < BatchSize
    /\ queue # <<>>
    /\ batch' = Append(batch, Head(queue))
    /\ queue' = Tail(queue)
    /\ UNCHANGED <<rejectq, box, counters, pc, draining, accepted, drained, batches,
                   cache, taken, dbVars, runVars, historyVars>>

\* _collect ends on a full batch, an empty queue or its deadline (which does not
\* pass before the first row is tried), and _collect_rejects follows.
Collected == batch # <<>> \/ queue = <<>>

\* How many rejects _collect_rejects takes.
TakenRejects == IF rejectq < BatchSize THEN rejectq ELSE BatchSize

\* A batch of rows or rejects goes on to _write.
EndCollect ==
    /\ pc = "collect"
    /\ Collected
    /\ batch # <<>> \/ rejectq > 0
    /\ rejectq' = rejectq - TakenRejects
    /\ batches' = (batches + 1) % QuotesEvery
    /\ pc' = "filter"
    /\ UNCHANGED <<queue, box, counters, draining, batch, accepted, drained, cache, taken,
                   dbVars, runVars, historyVars>>

\* Mutant: _drain_once stops at the first batch without rows.
EndEmptyRowsOnly ==
    /\ pc = "collect"
    /\ batch = <<>> /\ queue = <<>>
    /\ draining \/ rejectq = 0
    /\ pc' = IF draining THEN "done" ELSE "count"
    /\ UNCHANGED <<loopVars, draining, batch, accepted, drained, batches, cache, taken,
                   dbVars, runVars, historyVars>>

\* Nothing collected: a cycle flushes the counters, the drain loop ends.
EndEmpty ==
    /\ pc = "collect"
    /\ batch = <<>> /\ queue = <<>> /\ rejectq = 0
    /\ pc' = IF draining THEN "done" ELSE "count"
    /\ UNCHANGED <<loopVars, draining, batch, accepted, drained, batches, cache, taken,
                   dbVars, runVars, historyVars>>

\* _write_ticks up to the INSERT: which rows pass the symbol filter.
Filter ==
    /\ pc = "filter"
    /\ \E stale \in BOOLEAN :
         LET candidates == SymbolsOf(ElementsOf(batch))
         IN  /\ accepted' = {t \in ElementsOf(batch) : t.symbol \in Hits(stale, candidates)}
             /\ cache' = Remembered(stale, candidates)
    /\ pc' = "insert"
    /\ UNCHANGED <<loopVars, draining, batch, drained, batches, taken,
                   dbVars, runVars, historyVars>>

\* Mutant: the batch is published before its transaction commits.
InsertPublishes ==
    /\ pc = "insert"
    /\ pc' = IF SymbolsOf(accepted \ ticks) \subseteq listed
             THEN IF batches = 0 THEN "quotes" ELSE "commit"
             ELSE "dead"
    /\ published' = published \cup accepted
    /\ UNCHANGED <<loopVars, draining, batch, accepted, drained, batches, cache, taken,
                   dbVars, runVars, received, arrived, overflow, newest, purged, faults>>

\* The INSERT of the rows not yet in the table: a symbol that has no row fails
\* it, and with it the thread.  The outbox and reject rows of the batch follow.
Insert ==
    /\ pc = "insert"
    /\ pc' = IF SymbolsOf(accepted \ ticks) \subseteq listed
             THEN IF batches = 0 THEN "quotes" ELSE "commit"
             ELSE "dead"
    /\ UNCHANGED <<loopVars, draining, batch, accepted, drained, batches, cache, taken,
                   dbVars, runVars, historyVars>>

\* _write_quotes, every QuotesEvery batches: empties the box and filters it.
DrainBox ==
    /\ pc = "quotes"
    /\ \E stale \in BOOLEAN :
         LET candidates == {s \in Symbols : box[s] # 0}
         IN  /\ drained' = [s \in Symbols |->
                              IF s \in Hits(stale, candidates) THEN box[s] ELSE 0]
             /\ cache' = Remembered(stale, candidates)
    /\ box' = Empty
    /\ pc' = "upsert"
    /\ UNCHANGED <<queue, rejectq, counters, draining, batch, accepted, batches, taken,
                   dbVars, runVars, historyVars>>

\* Its upsert, under the same foreign key.
Upsert ==
    /\ pc = "upsert"
    /\ pc' = IF \A s \in Symbols \ listed : drained[s] = 0 THEN "commit" ELSE "dead"
    /\ UNCHANGED <<loopVars, draining, batch, accepted, drained, batches, cache, taken,
                   dbVars, runVars, historyVars>>

\* Mutant: the rows the filter refused are not handed to _write_rejects.
LandUnrejected ==
    /\ ticks' = ticks \cup {t \in accepted : t.symbol \in listed}
    /\ outbox' = IF Kafka THEN outbox \cup ElementsOf(batch) ELSE outbox
    /\ quotes' = [s \in Symbols |-> Newer(drained[s], quotes[s])]
    /\ UNCHANGED <<listed, refused, totals>>

\* What the transaction leaves behind: the new ticks, the outbox rows of the
\* whole batch, the rejects of the rows the filter refused, and the quotes whose
\* guard lets them through.
Land ==
    /\ ticks' = ticks \cup {t \in accepted : t.symbol \in listed}
    /\ outbox' = IF Kafka THEN outbox \cup ElementsOf(batch) ELSE outbox
    /\ refused' = refused \cup (ElementsOf(batch) \ accepted)
    /\ quotes' = [s \in Symbols |-> Newer(drained[s], quotes[s])]
    /\ UNCHANGED <<listed, totals>>

Commit ==
    /\ pc = "commit"
    /\ Land
    /\ pc' = "publish"
    /\ drained' = Empty
    /\ UNCHANGED <<loopVars, draining, batch, accepted, batches, cache, taken,
                   runVars, historyVars>>

\* publish() after the commit: one pipeline, and a failure is swallowed.
Publish ==
    /\ pc = "publish"
    /\ published' \in {published, published \cup accepted}
    /\ batch' = <<>>
    /\ accepted' = {}
    /\ pc' = "count"
    /\ UNCHANGED <<loopVars, draining, drained, batches, cache, taken, dbVars, runVars,
                   received, arrived, overflow, newest, purged, faults>>

\* StreamCounters.take is not atomic: it reads the counts, ...
TakeRead ==
    /\ pc = "count"
    /\ taken' = counters
    /\ pc' = "reset"
    /\ UNCHANGED <<loopVars, draining, batch, accepted, drained, batches, cache,
                   dbVars, runVars, historyVars>>

\* Mutant: take() leaves the counters as they are.
TakeKeep ==
    /\ pc = "reset"
    /\ pc' = "add"
    /\ UNCHANGED <<queue, rejectq, box, draining, batch, accepted, drained, batches, cache,
                   counters, taken, dbVars, runVars, historyVars>>

\* ... and resets them, along with whatever was counted in between.
TakeReset ==
    /\ pc = "reset"
    /\ counters' = Zero
    /\ pc' = "add"
    /\ UNCHANGED <<queue, rejectq, box, draining, batch, accepted, drained, batches, cache,
                   taken, dbVars, runVars, historyVars>>

\* add_session_counters, in a transaction of its own.
AddCounters ==
    /\ pc = "add"
    /\ totals' = Plus(totals, taken)
    /\ taken' = Zero
    /\ pc' = "idle"
    /\ UNCHANGED <<loopVars, draining, batch, accepted, drained, batches, cache,
                   listed, ticks, quotes, outbox, refused, runVars, historyVars>>

WriterStep ==
    \/ Begin \/ Get \/ EndCollect \/ EndEmpty \/ Filter \/ Insert \/ DrainBox \/ Upsert
    \/ Commit \/ Publish \/ TakeRead \/ TakeReset \/ AddCounters

\* A database error kills the thread; what it held in memory is lost.  An error
\* at the commit leaves open whether the transaction landed.
InDatabase == pc \in {"filter", "insert", "quotes", "upsert", "commit", "add"}

WriterFails ==
    /\ InDatabase
    /\ faults < MaxFaults
    /\ faults' = faults + 1
    /\ pc' = "dead"
    /\ \/ UNCHANGED dbVars
       \/ pc = "commit" /\ Land
    /\ UNCHANGED <<loopVars, draining, batch, accepted, drained, batches, cache, taken, runVars,
                   received, arrived, overflow, newest, published, purged>>

-------------------------------------------------------------------------------
(* The database beside it *)

\* Symbols whose row the open transaction holds: those of rows it inserted, and
\* those of quotes it upserted.
Locked ==
    {s \in Symbols :
        \/ pc \in {"quotes", "upsert", "commit"} /\ s \in SymbolsOf(accepted \ ticks)
        \/ pc = "commit" /\ drained[s] # 0}

\* purge_symbol, in one transaction; the scope row goes with it, but the running
\* connections keep their plan until the next rescan.
Purge(s) ==
    /\ s \in listed \ Locked
    /\ Cardinality(Symbols \ listed) < MaxPurges
    /\ listed' = listed \ {s}
    /\ ticks' = {t \in ticks : t.symbol # s}
    /\ quotes' = [quotes EXCEPT ![s] = 0]
    /\ purged' = purged \cup {t \in ticks : t.symbol = s}
    /\ UNCHANGED <<loopVars, writerVars, outbox, refused, totals, runVars,
                   received, arrived, overflow, newest, published, faults>>

-------------------------------------------------------------------------------
(* The main thread *)

\* _watch: a stop signal is looked at first, then a dead writer.
WatchStop ==
    /\ verdict = "none"
    /\ verdict' = "stop"
    /\ UNCHANGED <<loopVars, writerVars, dbVars, stopping, status, historyVars>>

WatchDead ==
    /\ verdict = "none"
    /\ pc = "dead"
    /\ verdict' = "dead"
    /\ UNCHANGED <<loopVars, writerVars, dbVars, stopping, status, historyVars>>

\* supervisor.run has closed every connection and returned; writer.stop().
StopWriter ==
    /\ verdict # "none"
    /\ ~stopping
    /\ stopping' = TRUE
    /\ UNCHANGED <<loopVars, writerVars, dbVars, verdict, status, historyVars>>

\* thread.join(timeout=30), then close_session with the verdict _watch gave.
CloseSession ==
    /\ stopping
    /\ status = "running"
    /\ pc \in {"done", "dead"} \/ JoinTimesOut
    /\ status' = IF verdict = "dead" THEN "failed" ELSE "ok"
    /\ UNCHANGED <<loopVars, writerVars, dbVars, verdict, stopping, historyVars>>

\* The process ends, and a daemon thread with it.
Exit ==
    /\ status # "running"
    /\ pc # "exited"
    /\ pc' = "exited"
    /\ UNCHANGED <<loopVars, draining, batch, accepted, drained, batches, cache, taken,
                   dbVars, runVars, historyVars>>

-------------------------------------------------------------------------------

Next ==
    \/ ReceiveBad
    \/ \E t \in Tick : Receive(t)
    \/ WriterStep
    \/ WriterFails
    \/ \E s \in Symbols : Purge(s)
    \/ WatchStop
    \/ WatchDead
    \/ StopWriter
    \/ CloseSession
    \/ Exit

\* The writer thread and the main thread keep running; messages, signals,
\* purges and errors come when they come.
Fairness ==
    /\ WF_vars(WriterStep)
    /\ WF_vars(WatchDead)
    /\ WF_vars(StopWriter)
    /\ WF_vars(CloseSession)
    /\ WF_vars(Exit)

Spec == Init /\ [][Next]_vars

FairSpec == Spec /\ Fairness

-------------------------------------------------------------------------------
(* Properties *)

TypeOK ==
    /\ queue \in Seq(Tick) /\ rejectq \in Nat /\ box \in Latest /\ counters \in Counts
    /\ pc \in {"idle", "collect", "filter", "insert", "quotes", "upsert", "commit", "publish",
               "count", "reset", "add", "done", "dead", "exited"}
    /\ draining \in BOOLEAN /\ batch \in Seq(Tick) /\ accepted \subseteq Tick
    /\ drained \in Latest /\ batches \in Nat /\ cache \subseteq Symbols /\ taken \in Counts
    /\ listed \subseteq Symbols /\ ticks \subseteq Tick /\ quotes \in Latest
    /\ outbox \subseteq Tick /\ refused \subseteq Tick /\ totals \in Counts
    /\ verdict \in {"none", "stop", "dead"} /\ stopping \in BOOLEAN
    /\ status \in {"running", "ok", "failed"}
    /\ received \in Counts /\ arrived \subseteq Tick /\ overflow \subseteq Tick
    /\ newest \in Latest /\ published \subseteq Tick /\ purged \subseteq Tick /\ faults \in Nat

\* The writer has lost nothing it took out of the queue or the box.
Alive == pc \notin {"dead", "exited"}

\* Ticks whose fate is on record.
Settled == ticks \cup refused \cup overflow \cup purged

\* While the writer lives, every tick of an archived symbol that ever arrived is
\* waiting, in the batch, archived, rejected on record, dropped on record, or
\* was purged with its symbol: none vanishes (writer.py:_write, supervisor.py:_offer).
KeptOrCounted ==
    Alive => arrived \subseteq ElementsOf(queue) \cup ElementsOf(batch) \cup Settled

\* The newest price of a listed symbol is always in the box, on its way to
\* live_quotes or there, queue overflow, reordering and partial batches
\* notwithstanding (supervisor.py:LatestBox, writer.py:_write_quotes).
LatestNeverLost ==
    Alive => \A s \in listed : newest[s] = Newer(box[s], Newer(drained[s], quotes[s]))

\* Browsers see only ticks the archive has or had, and with Kafka on every
\* archived tick is queued for it (writer.py:_write: one transaction, then publish).
DownstreamConsistent ==
    /\ published \subseteq ticks \cup purged
    /\ Kafka => ticks \subseteq outbox

\* A writer that ended its drain left nothing behind, and nothing arrived since
\* (writer.py:run, runner.py:run_stream).
StopDrains == pc = "done" => arrived \subseteq Settled /\ rejectq = 0

\* The counts on the session row never exceed what happened, whatever the loop
\* counts while the writer takes them (supervisor.py:StreamCounters.take).
NeverOvercounted ==
    \A c \in {"messages", "dropped", "rejected"} :
        totals[c] + Newer(taken[c], counters[c]) <= received[c]

\* A tick the queue accepted is archived, rejected or purged, unless the writer
\* dies first (writer.py:run drains on a stop; _collect returns on its own).
TickLands ==
    \A t \in Tick :
        (t \in ElementsOf(queue) /\ Alive) ~> (t \in ticks \cup refused \cup purged \/ pc = "dead")

\* A stop, or a dead writer, ends the process (runner.py:_watch, run_stream).
StopCompletes == (verdict # "none" \/ pc = "dead") ~> pc = "exited"

\* The writer's counts stay true to what happened, and every variable keeps its shape.
StreamCounts == TypeOK /\ NeverOvercounted

\* What was begun is ended: an accepted tick, and the process.
StreamEnds == TickLands /\ StopCompletes
===============================================================================

# Verification of yfin

yfin collects market data from Yahoo Finance into PostgreSQL/TimescaleDB and serves it: a
sharded sync run pulls some sixty datasets per symbol over a pool of proxies, a stream process
archives live ticks, an outbox relay publishes changes to Kafka, a scheduler starts the
jobs, and an API and a terminal read the result. This directory holds TLA+ models of
the parts whose correctness depends on order: threads, processes, transactions, crashes,
retries and time. Paths below are relative to `src/yfin/`.

Contents: inventory, plan, one section for each modelled part (outbox, stream, connections and
scope, sync run, bar archive, datasets and row writing, scheduler, API, live terminal),
findings, limits.

## Inventory

| component | state it keeps | operations | what is hard | what makes it correct | module |
|---|---|---|---|---|---|
| sharded sync run (`pipeline/shard.py`, `runner.py`, `persist.py`, `audit.py`) | symbol queue, results queue, audit rows, run row, advisory lock | spawn, take, fetch, persist, record, drain, reap, close | processes killed anywhere, bounded queues, two transactions per symbol, joins that give up | success only when every known symbol is written; audit rows tell the truth; nobody is delisted by a dead proxy | `ShardRun` |
| proxy pool (`proxy/health.py`, `repository.py`, `pipeline/proxy_plan.py`) | failure counts, cooldown, rounds per proxy | record, flush, crash, eligibility | late events after a withdrawal | a proxy that fails is rested, one that kills its shard is charged | `ProxyHealth` |
| stream ingestion (`stream/supervisor.py`, `writer.py`, `runner.py`, `publish.py`) | bounded tick queue, latest-price box, counters, symbol cache | receive, collect, filter, write, publish, stop, drain | event loop against writer thread, purge of a cached symbol, stop in mid-cycle | a tick is kept or counted, the newest price survives, nothing is published that was not archived | `StreamIngest` |
| transactional outbox (`storage/changes.py`, `outbox/`) | outbox rows, offset row, producer queue | write, walk, produce, flush, advance, clean up | ids taken before commit, partial failure, late delivery, restart | nothing skipped, nothing dropped unpublished, at-least-once | `Outbox` |
| intraday archive (`datasets/bars.py`, `storage/rescale.py`, `stream/reconcile.py`) | bars, gap ledger, split ledger | plan, fetch, persist, rescale, seed, reconcile | a source that forgets and restates, failed windows, order of splits and bars | one scale, every hole on the ledger, gaps retried | `BarArchive` |
| datasets (`datasets/`, `pipeline/turn.py`) | as-of gates, content hashes, snapshots with a history | fetch, gate, write, touch | an answer judged unchanged while others change the rows it stands for | a gate hides nothing | `Catalogue`, `DatasetSync` |
| row writing and retention (`storage/persistence.py`, `purge.py`, `pipeline/prune.py`) | the tables, the change collector | upsert, replace, diff, touch, prune, purge | a replaced scope written as a diff, shared tables, flags by other datasets | what is stored is what a plain writer would have stored, and the events say so | `DatasetSync` |
| stream connections and scope (`stream/connection.py`, `topology.py`, `supervisor.py:_rescan`) | running connections, scope, health and latest boxes, `live_quotes` | edit, plan, rescan, open, close, reconnect, watchdog | a rescan is a sequence of awaits during which sockets and symbols move | sockets follow the plan; a rescan takes only what left; the scope converges | `StreamScope` |
| scheduler (`scheduler/service.py`, `runs.py`, `jobs.py`) | queues, job threads, children, `scheduler_runs` | fire, skip, spawn, wait, close, reload, stop | a stop while a job is spawned, orphan rows and children after a crash | jobs do not overlap; every firing leaves a true row; a stop ends | `Scheduler` |
| API clients and tokens (`api/storage/clients.py`, `api/routers/oauth.py`, `api/auth/`, `api/ratelimit/revocation.py`, `token_endpoint.py`) | client row, secrets, epoch keys in Redis | create, change, rotate, revoke, publish, mint, check | commit and publication are two steps; commands overtake each other | no token outlives what it was minted from | `ApiAuth` |
| API limits (`api/ratelimit/`) | bucket, quota, slots, usage buffer in Redis | consume, refund, acquire, release, flush | read-then-write from several requests, expiry, failed calls, delete before commit | limits held; what is charged is used, and what is used is counted once | `ApiQuota` |
| API reads (`api/routers/v1/`, `api/storage/catalog.py`, `exposure.py`) | the cursor a caller holds | page, resume, refuse | rows change between two pages | a row that stays is served exactly once | `ApiReads` |
| live terminal (`ui/live.py`, `web/src/live`) | subscriptions, frame queue, client store | subscribe, snapshot, tick, drop, reconnect | snapshots against ticks, dropped frames, a dead bus | what is shown is stored; drops are told; sessions follow their page | `LiveSession` |
| wire decoding, event routing, COPY, settings, exporter, Yahoo client, per-symbol resolution, proxy administration, admin console, CLI, core, migrations | one row at a time, or none | pure mappings and single statements | data, not control | — | not modelled |

How they interact: the scheduler starts a **sync run** as a child process; its parent takes an
advisory lock and shares one symbol queue among **shards**, each with its own proxy; the shards'
consumers write symbol transactions, in which **datasets** pass their gates, **bars** are rescaled
and written, and changes are collected into the **outbox** of the same transaction; the relay, a
process of its own, walks that table. The **stream** process shares the symbols table (foreign keys,
purge), writes ticks, quotes and its own outbox, publishes to Redis for the **terminal**, and its
archive fills the bar gaps through `yfin stream reconcile`. The **API** reads the same tables and
keeps its counters and revocations in Redis. Every pair of processes meets in the database; inside a
process, threads meet in queues and in plain objects guarded by the interpreter lock.

## Plan

Order: what cannot be repaired afterwards comes first.

1. `Outbox` over `AtLeastOnceQueue` (abstract): a skipped change is lost for ever. Done, proved.
2. `StreamIngest`: a tick is never served again. Done, proved.
3. `ShardRun` with `ProxyHealth`: the run that fills everything else. Done, safety proved.
4. `BarArchive`: bars leave Yahoo's retention. Done, safety proved.
5. `StreamScope`: rescans and connections. Done, safety proved.
6. `ApiAuth`, `ApiQuota`, `ApiReads`, composed in `Api`. Done, safety proved.
7. `Scheduler`: jobs, children and rows. Done, safety proved.
8. `Catalogue` and `DatasetSync`: every dataset and the writer under it. Done, safety proved.
9. `LiveSession`: bus, frame queue and client store. Done, safety proved.

Left, of the system: the unmodelled rows
of the inventory, none of which keeps state across steps, and a composition of `StreamIngest`
with `StreamScope`, which now share the writer's two boxes only by name.

Conventions: every module declares its bounds as CONSTANTS with a named assumption;
a module `MCx` only supplies sets; a definition commented "Mutant:" is a plausible bug
used to show that a property can fail, and is part of no specification. There is one run for each
question, so a property a run checks is often a conjunction of named parts
(`RecordsHonest`, `LimitsHeld`, ...), each of which has its own comment where it is defined; the type
invariant of a module is one of the parts.

## The outbox and its relay (`Outbox`, `AtLeastOnceQueue`, `OutboxProofs`)

Code: `outbox/relay.py`, `outbox/cursor.py`, `outbox/kafka.py`, `outbox/spec.py`,
`storage/changes.py`, `models/changes.py`, and the transaction boundary in
`pipeline/persist.py`.

| model | code |
|---|---|
| `rows` | `pipeline_outbox` / `stream_outbox`, rows of open transactions included |
| `committed` | history variable: what a reader could ever have seen |
| `state`, `xid`, `events` | the writing transactions; `events` is `ChangeCollector._events` |
| `cursor` | the single row of the offset table, the pair `Position` |
| `pc` | where `OutboxRelay.run` is: `publish`, waiting in `flush`, `acked` (about to advance), `cleanup`, `newest` (between the two statements of `IdCursor.cutoff`), `drop`, `dead` |
| `inflight` | the producer's queue, one set of messages per pass |
| `failed` | `DeliveryTracker.failed` of the current pass |
| `tail` | history variable: the last message on each key's partition |
| `window` | history variable: rows committed between the two reads of `IdCursor.cutoff` |

A transaction gets its xid at its first data write (`Begin`), its row ids at the COPY of
`ChangeCollector.flush` (`Flush`) and becomes visible at `Commit`; other transactions
interleave between any two of these. `StartPass` is `publish_once` up to and including
the `produce` calls; `FlushReturn` and `FlushTimeout` are the two ways `flush(30.0)` ends;
`Advance` is the offset transaction. A crash may fall between any two steps of the relay:
it loses the producer's queue and keeps the offset table.

**Modelling decisions.** The clock counts chunk intervals (one hour), so a row's
`created` is its chunk. A key is its own partition: ordering across keys of one
partition is not promised by anything and is not modelled. `drop_chunks` needs a lock on
the chunks it drops, so it waits for a transaction that has written into one of them.
The cleanup interval timer is a free choice (`SkipCleanup`).

**What is promised.** `AtLeastOnceQueue` says only: rows are committed, delivered any
number of times, and forgotten once delivered. `Outbox` implements it with
`done <- Done`, the rows that are behind the cursor or dropped.

**Runs.**

- `outbox_xid`: two concurrent transactions of up to two events over two keys, batches
  of one message, so that every transaction of two is resumed inside, two hours, one fault,
  under the fairness of `FairSpec`. The interesting orders (ids taken early and
  committed late, a batch that ends inside a transaction, a cleanup while a flushed
  transaction is open, a late delivery of a timed-out pass) all fit in this instance; its
  mutants show that each is reached.
- `outbox_id` (a violation): the tick queue, three transactions of one writer at a time. Its
  cutoff is two statements under READ COMMITTED. When the first finds nothing unpublished, two
  transactions commit, one on each side of an hour's boundary, and then the second asks for the newest row,
  the first of the two is in a chunk below the cutoff: `NoLoss` is violated, by a plain
  interleaving of the writer and the relay, without any fault. The code says it is safe
  (`cursor.py:131`, `relay.py:183`); the finding in PROJECT.json quotes both.

**Fairness.** `OutboxRelay.run` is a loop that never blocks for ever (`flush` has a timeout),
so its steps are weakly fair; the broker eventually settles each message it is given
(librdkafka's own message timeout makes it a failure otherwise); a transaction that was
begun ends (`idle_in_transaction` or the process's death ends it). `Restart` is fair: the
relay is a supervised service. Nothing forces a writer to begin.

**Proofs** (`OutboxProofs`, for every set of transactions and keys, every batch size and all
bounds). The assumption is `CursorAssumption` (the id walk only with a single writer; no
transaction outlives the cleanup lag on the xid walk). `IdSpec` is `Spec` with the second statement of
`IdCursor.cutoff`; the invariant is inductive for it, so for both. `NoSkip` is
not inductive: nothing in it says why a row that commits *later* cannot appear behind the
cursor. The strengthening `IInv` adds it: every row still inside its transaction lies
after the cursor and after the batch in hand (`NothingPassed`: on the xid walk because
every active xid is above the batch's, on the id walk because the single writer's ids
are), the batch is a prefix of what is unpublished (`BatchIsPrefix`), an
acknowledged pass has delivered all of its batch (`PassAccounted`), and the pending cutoff is
below everything uncommitted and everything unpublished but the rows of `window`, those committed between the two reads
of a cutoff, which no pass has offered yet (`CleanupSafe`). The xid cursor has no such rows, so
`NothingSkipped`, `NothingLost` and `Refinement` hold of `pipeline_outbox` whatever commits when, within the lag; `Refinement` shows each step
to be one of the abstract queue's or a stutter. Of `stream_outbox`, `CursorKeepsOrder` proves
`IdCursorHolds`: all that is ever lost was in `window`, and while nothing is lost nothing is skipped and
`TailIsNewest` holds. `TailIsNewest` needs the
order of deliveries, so `TailInv` adds that the newest change of a key has the greatest id (one
writer), that a partition's last message is at or after whatever the cursor has passed and all that is
queued is beyond the cursor, and that a message of the pass is delivered after every older pass
and before those of its key that follow it. Left to TLC: `EveryRowDone` (liveness). Of the xid walk `TailIsNewest`
does not hold: two writers may swap the changes of one key (`cursor.py:199`).


## The stream (`StreamIngest`, `StreamIngestProofs`)

Code: `stream/supervisor.py` (hand-over), `stream/writer.py` (the thread), `stream/runner.py` (the
process), `stream/publish.py`, `stream/repository.py`, `storage/purge.py`.

The event loop's actions (`Receive`, `ReceiveBad`, `WatchStop`, `WatchDead`, `StopWriter`, the join) interleave
with the writer's cycle: `Begin`, `Get`, `EndCollect`, `Filter`, `Insert`, `DrainBox`, `Upsert`, `Land`, `Commit`,
`Publish`, `TakeRead`, `TakeReset`, `AddCounters`. Each database statement is a step, because a purge
of a symbol may commit between two of them; `Locked` is the row lock a foreign key check
takes, which makes the purge wait. An error rolls the transaction back and ends the thread.
`StreamCounters.take` is two steps: the interpreter may switch threads at the dataclass call
between the read and the reset, while `+=` on one attribute of a loaded object is not interrupted here.
The archive keeps, per symbol, the set of ticks; a price is its timestamp.

Abstracted: the connection health box, the reject sampler and `rows_written`; the session row, which
exists before the first message; the collection deadline, which is assumed not to pass before
the first `get`; Redis and the stream's outbox are the sets `published` and `outbox`.

Runs. `stream_ingest`: two symbols, one of them archived, timestamps up to 2, a queue of one, batches of
two, quotes with every batch, two messages, one purge, one database error. A queue of one makes it full
with the second message, two timestamps let ticks overtake each other, and one purge or error at any
step is enough for each hazard; the mutants show that every property has its case. Deadlock is not
checked because the process ends.
`StreamCounts` is the type invariant with `NeverOvercounted`; `StreamEnds` is `TickLands` and `StopCompletes`: that the process
ends, not with which status. The join that gives up on the writer is switched off in the run.

Fairness: the writer thread runs (weak fairness of its steps: the interpreter schedules every
runnable thread), the event loop reacts to a stop signal and to the writer's end, a signal
eventually comes. Messages, purges and errors are never forced.

Proofs, for all symbols, bounds and queue sizes: `KeptOrCounted` (each received tick is archived, in the
queue, in the writer's hands, or counted as dropped, rejected or lost with an error), `LatestNeverLost`
(the newest price of an archived symbol is in the table, the box or the transaction),
`DownstreamConsistent`, `StopDrains`, `NeverOvercounted` and, with them, `StreamCounts` (theorem
`CountsHold`). None is inductive alone: the
strengthening says where each tick is at each program counter of the writer. `TickLands` and
`StopCompletes` are liveness and stay with TLC.

## Stream connections and scope (`StreamScope`, `StreamScopeProofs`)

Code: `stream/topology.py`, `stream/connection.py`, `stream/supervisor.py` (`run`, `_rescan`, `_open`,
`_close`, `_departed_symbols`, `forget_connections`), `stream/repository.py`, `cli/stream.py` (`scope`).

| model | code |
|---|---|
| `scope`, `exchange`, `active` | `stream_scope` and the columns of `symbols` that `load_scope` joins |
| `disabling` | symbols `scope disable` has taken out and whose quotes it has not deleted yet |
| `reading`, `archived` | what the last rescan whose plan fits has read; `StreamSupervisor._archived` |
| `running`, `at`, `closing` | `_running`, where each `StreamConnection.run` is, and the key whose cancelled task is being awaited |
| `sup` | where `_rescan` is: idle, closing keys one by one, replacing keys, or stopping |
| `toClose`, `closed`, `toChange` | the keys the rescan closes and replaces, done and to do |
| `heard`, `healthBox`, `rows` | connections that have had a message, `HealthBox`, `stream_connection_health` |
| `box`, `quotes` | `LatestBox` and `live_quotes` |

`PlanConnections` is `plan_connections`: the symbols of an exchange in order, one bare key when they
fit, numbered keys otherwise; the sets `ToClose`, `ToOpen`, `ToChange` are `plan_diff`. `Rescan` reads
and plans in one step, because it does so without an await; the closes
follow one await at a time, then all new keys open, then the replacements follow, with every other connection, every edit
of the scope and the writer's two flushes between them. A cancelled task still emits its last
words (`LastWords`) before it is gone. `DialFails`, `Loses` and `Quiet` are a refused dial, a lost socket and a silence
that the watchdog ends.

Left out: delays of the back-off, the counters and the age of a heartbeat; `config_loader`, which the
runner never passes (`stream/runner.py:161`), so that a rescan re-reads the scope and no setting.

Run `stream_scope`: three symbols, one of them outside the scope at first, two
exchanges, one symbol to a connection, two connections at most and a head of two: adding the third
symbol makes the plan not fit, delisting one makes it fit again, and a move between exchanges
renumbers keys. A behaviour has two edits, or one edit with a fault, a stop or a message, or all but the edit.

Fairness: the rescan timer fires and a rescan goes on (`Supervise`); some connection that wants to
dial does (`Connect`). Refusals, losses, edits and messages are not forced, so `ScopeConverges` is about what
the stream does once they are over.

Proofs (`StreamScopeProofs`), for every finite catalogue, any exchanges, chunk size, canary and limits, and any edits, faults and
stops. First the planner: `PlanTyped` (symbols of the key's exchange, at most `PerConnection` of them, by a
pigeonhole argument on places in the sorted members), `PlanCovers` (every scoped symbol on one key and on no
second), `PlanLocal` (what a key carries depends on the members of its exchange alone). Then the supervisor:
`SocketsFollowPlan` speaks of the time between rescans, so the inductive `OnPlan` says how far a rescan has come: a key to
close has no place in the new plan, a key to replace has another one, any other key already has its own or, before
the closes are over, is yet to be opened, and the key being closed is popped. `Tasks` and `Roomy` are the parts about tasks and
limits. `SocketsFollow` and `RescanIsLocal` (the action property `RescanTakesWhatLeft`, which measures what left by the list the rescan read, as the code does: a symbol
that returns before the delete loses its quote and no property forbids it) follow; `ScopeConverges` is liveness and stays with TLC.

## The sync run (`ShardRun`, `ProxyHealth`, `SyncProofs`)

Code: `pipeline/shard.py`, `runner.py`, `persist.py`, `audit.py`, `proxy_plan.py`, `proxy/`.

Each shard is a process with worker threads, a bounded results queue and one consumer. A worker
checks the withdrawal flag, takes a symbol, fetches and hands the payload over; fetch and put are one
step, and the feeder thread's position is projected away (a queue may look empty too
early, which `MayStick` and `Drain` allow). A payload is its outcome, of at most two dataset
faults. The consumer handles tracker events, persists (commits, rolls back, or commits with the
answer lost), then records audit rows in a second transaction. If that second one raises, the
consumer ends while its workers go on until the results queue is full. `Kill` may take a shard at any
step; one killed inside `get()` keeps the queue's reader lock. The parent joins, gives up
after a timeout (`StopWaiting`, never forced), terminates, charges crashes, drains, records what was
not attempted and closes the run; it may itself die, and its lock with it. `ProxyHealth` is
`apply_outcome` as a function on a row, used by the tracker and by the parent.

A symbol that does not resolve is `unreached` when an error of the transport is among its errors, and in
`Counted` otherwise: Yahoo does not know it, its answer could not be read (a 404, bad JSON), it was empty, or the worker
crashed (`runner.py:255`). The consumer cannot tell the members of `Counted` apart (`runner.py:323`): all get an
`unknown_symbol` row, all are counted toward delisting, and a run of nothing but such symbols
besides the written ones exits with 0. `DelistSparesTransport`, `AuditTrue` and `ExitHonest` say exactly that, and no more.

Not modelled: a server that commits for a child already terminated; the difference
between verified and attempted cells and the content hash, which are inside the outcome `ok`.

Runs. `shard_run`: two shards of one worker, two symbols, replies that resolve, that the transport loses, that
Yahoo does not know and that crash the worker, one kill; with it the exit code, the audit rows and the end of the run meet every order of
kill, timeout and death of the parent. `shard_backlog`: one shard, four symbols, transport faults, a
proxy row that has failed before, one database error: the queue is longer than the results
queue and the threshold is reached inside a payload, which `Backpressure`, `WithdrawBounded` and
`CrashAccounted` need. `BacklogHolds` is `ExitHonest` and `Backpressure` there; `RunCloses` is `RunEnds` and
`CountsAreFinal`.

Fairness: threads of a running process make progress, the parent's own steps are taken.
No join is forced to time out and no kill to happen. `RunEnds` excludes shards whose
consumer has raised: there the run ends only through the join's timeout. The end marker that `run_sync` puts
behind the payloads (`pipeline/runner.py:274`) stands for the end of the workers and is no message of the model.

Proofs (the first part of `SyncProofs`), for every universe, number of shards and workers, thresholds and bounds: `TypeOK`, `ExitHonest`,
`AuditTrue`, `DelistSparesTransport`, `CrashAccounted`, `CountsAreFinal`. The inductive `Core` has one part per
place a symbol can be: `Unowned` (in the queue), `Hands` (with a worker), `Payloads` (in a results queue),
`Verdicts` (with the consumer), `OwnedData` (who may write data, and of which symbols), then `Reaped` and `Charged` for the
parent's view of ended shards. `WithdrawalIsPrompt` and `BacklogIsBounded` rest on
`Loads`: once a shard has withdrawn, the symbols taken since and the workers between check and
source are together at most the workers (the bound alone is not inductive: each such worker still
takes one), and every symbol taken and not audited is in the results queue, at a worker or with the
consumer, one for each place. `RunEnds` is liveness and stays with TLC.

## The bar archive (`BarArchive`, `BarArchiveProofs`)

Code: `datasets/bars.py`, `storage/rescale.py`, `pipeline/persist.py`, `stream/reconcile.py`, `pipeline/readers.py`,
`cli/bars.py`. One symbol, one interval, time in days.

| model | code |
|---|---|
| `bars` | days with rows in `price_bars`, of Yahoo's or made from ticks |
| `scale[d][s]` | how often split `s` has been applied to day `d`, by Yahoo or by the archive: the price, as far as it matters |
| `effective` | splits in Yahoo's current scale (`Served`) |
| `splits`, `applied` | rows of `splits` and of `bar_rescales` |
| `gaps` | `bar_gaps`; the key is the start, and retention gaps start inside a day while failed windows start at midnight, so reason and day are the key |
| `run` | what the fetches of a run returned, until its transaction |
| `since` | history variable: where the first fill began |
| `astray` | history variable: a day and a later split, when a step has put the day's bars off the ledger's count of that split |

`Planned`, `Windows` and `Lost` are `plan_windows`, `_merge` and `_slice`; `Fetch` is the loop with its per-window error
boundary, in which a window of holidays fails with "no data" and does not count as an error; `Persist`
is the symbol transaction: rescale, bars, gaps, then the splits of the same run, which were fetched after the
bars. `--full-refresh` is the explicit range of all served days. `Reconcile` and
`RescaleByHand` are the other writers. Excluded: the unbounded intervals, rescales skipped for want of a
time zone (nothing is recorded, the split stays pending), ranges older than Yahoo serves, markets with a bar at
exactly 00:00 UTC, and a run that lasts past midnight.

`astray` is set by steps, never read off the scale: `Stray` when a run stores bars at a scale that includes a split
which is not in the ledger after its own rescale, `Reconcile` when ticks of before a split that is in the ledger
become bars, `SeedBaseline` when a split is taken as applied over bars stored without it (bars
stored with it are put right by that). `OneScale` says of every bar, Yahoo's or from ticks, and every split of the ledger that its scale is
right if and only if the two are not astray. The documented setup (`cli/bars.py:215`: seed once, before the first bars run) does
not keep bars from going astray: every later split comes in with the run that stores its first bars; see Findings.

`trimmed` is another history variable: the days that the second failure of a resolved row has cut off it.
`LedgerHolds` claims nothing of those days, so it does not catch the loss (`datasets/bars.py:372`), it bounds it.

Runs. `bar_archive`: eight days with a retention of four, requests of two days, no overlap, a split of the
past and one to come, a holiday, ticks on one day, two faults, one explicit range. Two
windows per fetch and two faults let one window fail next to one that succeeds, be resolved and fail
again, which the second failure of a resolved row needs; eight days let the archive fall behind retention.
The overlap only repeats days that are stored; the proofs hold for every overlap. `LedgerHolds` is the
type invariant with `HolesOnLedger`.
Deadlock is not checked: the calendar ends.

Fairness: the sync job of the interval is scheduled for ever (strong fairness, because
other runs disable it in between), and a run that began is worked off. The
calendar is not forced, so `GapsAreRetried` does not hold by days running out.

Proofs, for every retention, overlap, window length, calendar and split set. `BarTypeCorrect`: types, and with
them that windows are nonempty and over, which rests on the existence of oldest and newest days
(from the well-foundedness of the naturals). `ArchiveHasOneScale`, with no assumption on the operator:
`OneScale` says nothing of splits that wait, so it is not inductive. `Ledger` adds `Divided` (a split outside the ledger is
in the scale of exactly the bars that went astray with it, so one rescale makes the others right), `Books` (a payload's scale
includes the table
of splits, and that the ledger) and `Later` (nothing is divided by an earlier split). `HolesAreRecorded` is `LedgerHolds`, from `Recall`:
holes are what lies before the newest bar, and a row that ends past it makes the next fetch start later, so
`Covered` speaks of every day that a bar or a row has got past; `Accounted` says that what a run hands over is all that was
planned, each window got or failed, and what the retention has taken; `Dropped` and `OnlyHolidays` place the rows before
anything is stored. Attempting this proof showed the one way a day leaves the ledger, which `trimmed` now names; see Findings.
`GapsAreRetried` is liveness and stays with TLC.

## Datasets, row writing, retention (`Catalogue`, `DatasetSync`, `SyncProofs`)

Code: `datasets/`, `pipeline/turn.py`, `storage/persistence.py`, `storage/purge.py`, `pipeline/prune.py`,
`models/`, `discovery/`.

`Catalogue` is the registry as data: one record per dataset with its tables, and for each table the
key columns it fills, the mode (upsert or replace with a scope), the columns an insert sets and an update may touch
(a search and a domain's profile share two columns of a research report and have others each to itself),
whether its rows come from each part of an answer or from what was read at all, and the gate in front.
`DatasetSync` is the machinery: `StmtsOf` is what a gate lets through, `CollectedWrite`
and `PlainWrite` are the row writer with and without a change collector, `RunPrune` is retention and `Purge` the
purge of a symbol. A sync of a dataset is one step, because its writes share a transaction with
everything else of its symbol. An answer is a set of cells (part, item, value); `short` is a
block of it that came back empty.

`plain` is the database the same syncs would have left without a collector, `mirror` what a consumer of
the events has. The four properties compare them: `StoredAsPlain` (a replace written as a diff
leaves what delete and insert would have left, and `fetched_at` too but for exactly the rows a sync moved in a table
it replaces, which keep the one they had), `GatesHideNothing` (rows behind a gate are the last
answer, the hash of a header is that of its children, a history ends at its snapshot),
`EventsTell` (of the stored keys the mirror has exactly what is stored; a sync leaves it nothing that it deleted; and
every row that prune or the purge deletes stays in it until a sync writes its key again: the two commands pass no collector),
`TablesHold` (keys, links with their parents, nobody writes another dataset's days, parts or columns).

Left out: deduplication inside one answer, chunking of statements, verification counts, the
guard column, the monotonic `is_repaired`, coalescing of date ranges (that is `BarArchive`),
`first_seen_at` of gates, the watermark of the shared history frame, parsing of Yahoo's frames and its errors.

Run `datasets`: forty-four groups, which are the datasets that share tables, together every dataset of the registry; two or three
syncs of three different sheets over two days, one prune and one purge anywhere;
two where there are many tables or kinds of answer, one day where nothing shared has a date. Three
syncs are a change and a change back, two days separate the rows of an as-of gate; the mutants reach each rule.

Proofs (the second part of `SyncProofs`): all four properties, for every grouping of datasets that meets
`GroupsAssumption`, any answers that meet `SheetsAssumption` (one value for an item of a part), and any number of
syncs, days, prunes and purges. The run's datasets are records of `Catalogue`, and TLC evaluates both
assumptions on all forty-four groups, so the theorems hold of the registry as it is translated; a dataset that breaks an
assumption would stop the run. What `GroupsAssumption` asks:

- `SoundWrite`, `SoundDataset`: a replaced scope has the day, and the part where a table is shared by parts; a
  dataset writes a table once; the child rows of a hash gate are replaced by the header's key.
- `SoundLinks`: a link is written in one transaction with the article or report it names, from the same
  answer, and what it names is upserted only.
- `SoundHash`, `SoundSnapshot`, `SoundAsOf`: tables behind a gate have no clean-up by name beyond their gate's own rule
  (a screen's runs and members go together), a history has its snapshot's key and the day, an as-of replace by
  what was read is scoped by part.
- `Apart`: nobody else writes behind a hash or a snapshot; datasets that share a dated table write other parts of it.

None of these properties is inductive alone. The argument has layers:

| invariant | says | why it is needed |
|---|---|---|
| `WriterInv` | each table has one row for a key, the contents of `plain`, and of its keys `mirror` has exactly them | whether a row counts as changed is decided on what is stored, so the comparison with the naive writer starts from equal contents |
| `KeysInv` | and keys are blank where the primary key has no column | a replaced scope names columns; without it a scope could reach rows of another dataset |
| `LinksInv` | what links refer to is stored | gives `LinksHaveParents` through retention, which deletes parents by what links to them |
| `SnapInv` | a history ends at a moment with what its snapshot has, unless all of it was pruned | the newest row is the snapshot only if no later row exists and no change was skipped |
| `HashInv` | a header has the bodies of its children | children are skipped when the header has not moved |
| `AsOfInv` | each gate has the digest of its last answer, and the rows of its day hold that answer | a shut gate writes nothing, so what it stands for must have been left alone by retention, purge and the datasets beside it |

`SameContents` is the heart of `StoredAsPlain`: on tables of equal contents a statement that compares, updates in place,
touches and deletes missing keys leaves what deleting the scope and inserting would have left; `StampsOfWrite` says the
same of `fetched_at`, and `HeardExactly` of a consumer's copy. Retention and purge are
shown to choose rows by key (`LostAlike`), so both databases lose the same. For each gate the step lemmas are four:
a sync of the dataset (`SnapSync`, `HashSync`, `ShutSync`/`OpenSync`), of another (`OthersLeave`, `OtherSync`), retention
and the purge. `SoundAsOf` has the scope by part because an as-of replace of the parts that were read would otherwise
clear parts that were not, and a gate left shut over them would hide it.

Two disagreements are part of the properties. A changed row of a collected replace keeps its old `fetched_at`
(`storage/persistence.py:199`), although `storage/contracts.py:47` says volatile columns "land exactly where a plain
upsert would have put them": `FetchedAtLags`, a conjunct of `StoredAsPlain`, says that these rows lag and no others do.
`yfin prune` and `yfin symbols purge` report nothing (`cli/app.py:294`, `cli/symbols.py:151`), although
`tests/repo/test_change_delete_repo.py:3` says a consumer "has to be told or keeps rows that exist nowhere":
`DeletesTold`, a conjunct of `EventsTell`, says which rows it keeps.

Worth knowing: a search writes
`is_known = False` over a flag another dataset set (`datasets/discovery/search.py:384`, `models/news.py:61`). A domain
that answers without reports keeps the links of an earlier answer of the same day
(`datasets/domain/profile.py:235`). A statement's hash leaves out its currency.

## The scheduler (`Scheduler`)

Code: `scheduler/service.py`, `scheduler/runs.py`, `scheduler/jobs.py`, `pipeline/audit.py` (stale sync rows),
`pipeline/prune.py` (retention of both tables).

| model | code |
|---|---|
| `queue`, `thread` | the two executors of APScheduler and where each job's thread is in `_run_job` |
| `row` | `scheduler_runs`, one per firing that got as far as a thread |
| `child` | the process group of a command, its exit code, and the `sync_runs` row of a sync |
| `state` | `_JobState`: whether the group is registered in `_children`, when the trigger was built, the gauge of the last success |
| `phase` | up, the signal handler, the wait for children, the exit of the interpreter, down |

`Spawn`, `Register`, `Reap`, `CloseRow`, `RecordResult` are steps of their own: a stop, a crash of the scheduler, a
failed statement, a reload or a manual `yfin sync` may fall between any two. Children survive the
scheduler; `Start` closes the rows it finds open and those sync rows whose process cannot be healthy.

Run `scheduler`: the two jobs of the one-thread `yahoo` queue, one of them a sync, two runs, a clock of
two, one stop, one further event (crash, kill, error or changed schedule),
a sync started by hand. With a grace of zero one tick makes a firing late, and two runs are enough for an overlap.

Fairness: threads of a live scheduler and `stop()` run, the service manager starts it again, commands
end. Signals, firings, crashes and the clock are not forced.

Proofs (`SchedulerProofs`), for every set of jobs, every size of the default executor, any grace and all bounds: `Tied`
(types), `OneAtATime` (`NoOverlap`), `LiveSyncsAreKept` (`LiveSyncUntouched`) and `RecordsAreHonest` (`RecordsHonest`).
`NoOverlap` counts live children and says nothing of who waits for them. The inductive `Placed` ties them:
each busy thread has a run whose row is its job's and of this life, and whose child is where the thread believes it is
(`Threaded`); each live child of this life has such a thread (`Watched`), so that two children of a job would be two threads
of it; the yahoo executor has one busy thread; a queued firing has no thread yet (`Queued`). Identifiers not taken name
nothing, and a firing in a queue has one left (`Reserved`), which makes every firing accountable. `Healthy`
bounds the age of a running sync by the limit that `scheduler/runs.py:118` takes for dead. That is an assumption (`Tick` waits for such a sync), not something the code sees to: a sync
that runs for longer is closed by the next start. `Gauged` says that only a success whose thread is
about to count it may be newer than the gauge: `_record_result` follows the closing of the row, so the thread has a step
of its own for it (`succeeded`). `AllEnds` is liveness and stays with TLC.

Worth knowing: a child between its spawn and its registration, and a job still queued, get no SIGTERM from a
stop; the process waits for them (`AllEnds`), for as long as the command takes. The exporter and its
queries only read and are not modelled.

## The API (`Api` = `ApiAuth` + `ApiQuota` + `ApiReads`)

Code: `api/storage/clients.py`, `cli/api.py`, `api/ratelimit/`, `api/routers/oauth.py`, `api/auth/dependencies.py`;
`api/routers/v1/`, `api/storage/catalog.py`, `api/exposure.py`.

`ApiAuth` has one client: its row with an epoch, its secrets by age, the keys in Redis that make a
change effective before tokens expire, the token endpoint (which loads, hashes outside any lock, then
mints) and the bearer check. A command reads, commits and publishes, three steps that a second
operator's command may interleave with; a publication may fail. `RevocationHolds` asks of every change but a revoked secret
that tokens minted from the rows before it are refused once it is published (`StaleRefused`), of a disabled client
(`DisabledRefused`) and of a revoked secret (`SecretRefused`) that their own keys hold however commands cross, and that
an up-to-date token is accepted after orderly commands (`FreshAccepted`). `ApiQuota` has the four counters:
every call to Redis is a step, a script or a pipeline is one, the get and the decr of a slot's release are two, and so are those
of a refund; a call that fails may have been executed, a slot and a day's key expire under whoever uses them, and any
number of flushes run at once, with the locks of their upserts. `ApiReads` walks one collection by its cursors while rows come
and go, the plan's page size changes, and the symbol is purged: the keyset, the digest of the
query, the 404 and 422 are those of the routers. `Api` joins them: a request is metered only
with an accepted token, and one clock ages tokens, buckets, slots and periods.

Run `api`: `AllBudgets` lists which events may meet in one behaviour, so that each hazard gets the
events it needs and no more: two commands and an attempt at the token endpoint, one and one with a fault; three attempts
with two faults; three requests; two requests with two failing ends (their refunds meet), with a fault, with a kill, or with a flush;
one with an end, a fault and a kill; one with two flushes and a fault; a command
against a request; walks of four pages with two edits, or three and three. Token lifetime two ticks, leeway and
grace one, two live secrets, a burst and a concurrency of one, a quota of two, a slot and a day's key of two ticks, a period of two, four instants;
two values per key column, page sizes one and two. 402 937 states. The five routes are one of each shape of sort key: ascending, within a
symbol, two columns, mixed directions, both descending. `api_calendar` is the expected violation; see Findings.
There is no fairness, because everything said here is safety: nothing need arrive.

Proofs (`ApiProofs`), for any number of operators, attempts and requests, any plan, lifetimes, windows and bounds that
`ApiAssumption` admits (sizes are naturals, positive where zero would switch the limit off, the sets of actors are finite,
and a budget has fewer commands than there are names for secrets). Three invariants, one for each side:

- `MeterInv`, for `UsageIsHonest` and the counters of `LimitsAreHeld`. A counter is only as good as what each request knows, so
  `Courses` says what a request has been told, has taken and has given back at each step; with it the slots count at least the
  requests that hold one, less those that outlived theirs (`SlotsCount`), a token granted
  was in the burst, was refilled, or came of a clock set back (`BucketCount`), the month's counter is units less
  refunds (`QuotaCount`) and below zero only after refunds that overlapped (`RefundCount`), and what a flush has read is in
  Redis, in its transaction or in the table, or the day is named in `spoiled` with the reason (`Flushing`, `DayCount`).
- `AuthInv`, for `RevocationIsKept` and the secrets of `LimitsAreHeld`. It relates every command to the moment it read, wrote and
  published: the epoch grows with each serial command (`Raised`), a token carries no epoch newer than its
  mint (`MintedBefore`), the keys outlast what they revoke (`KeysLast`), a revoked secret stays so and its key is set
  once its command is published (`DeadSecrets`, `Unpublished`), and after orderly commands the keys are those of the
  row (`KeysFollow`); `Windows` orders the attempts of a block.
- `ReadInv`, for `PagedExactlyOnce`: what has been served is at or before the cursor and what stayed and is not served is
  after it (`CursorBetween`). The hypothesis `WholeKey` says that the sort key of every collection walked is its primary
  key, so that the order of its rows is total. The five routes of the run `api` satisfy it; the economic calendar does not, and
  `api_calendar` shows the row it then loses.

Where the code says more than it does, the property says exactly what it does:

- `api/storage/clients.py:2` calls a revocation immediate. Two commands that read one epoch commit the same sum, and
  the older of two commits may publish last; tokens of before are then accepted, and in no other way (`StaleRefused`). The flag and
  the key of a secret are not lost to that (`DisabledRefused`, `SecretRefused`).
- `cli/api.py:174` says that tokens of the other secret stay live when one is revoked. `revoke` raises the epoch too, and the epoch
  refuses them: `StaleRefused` asks nothing after a revocation, `SecretRefused` only of the secret's own tokens, and no property promises that the others live.
- `refund_quota` says "Never below zero" (`api/ratelimit/limiter.py:179`), and `tests/unit/test_api_ratelimit.py:131` tests it of one
  refund. Two that read one unit both lower it: `QuotaFloor` says that only refunds that overlapped do this.
- `release` guards against a key that has expired (`api/ratelimit/concurrency.py:57`) with a get of its own: a key that expires before
  the decr is made anew, at minus one and without a life. `SlotsHeld` allows for each request that outlived its slot, and no other.
- Two flushes, the scheduled one and one by hand, may both read and add a day (`api/ratelimit/usage.py:83`), as nothing keeps
  the second out: `UsageCounted` says that only then a day is counted twice.

`ChargedIsUsed` speaks of each request rather than of totals, which is the stronger claim: a sum could hide one request that
paid twice behind one that did not pay.

Left out: the window of an address at the token endpoint (its EXPIRE is renewed by every
attempt, `api/ratelimit/token_endpoint.py:62`), the answers while Redis is down as far as they grant without counting,
the minute for which a process keeps a plan's limits, the last-used stamp, ETags, filters, details and
search.

Worth knowing: the slot's expiry is renewed by every acquire, so a slot whose process died lives as long as the client is busy
(`api/ratelimit/concurrency.py:19`). A changed page cap invalidates the cursors of a walk that asked for no size, because the default size is
in the digest. `financials_as_of` is read in a second statement and may be newer than the rows beside it. The
terminal's `read_screen` pages by OFFSET (`ui/data.py:506`), which promises nothing under changes.

## The live terminal (`LiveSession`)

Code: `stream/supervisor.py` (the box and the queue), `stream/writer.py` (commit and fan-out), `stream/publish.py`, `ui/live.py`,
`web/src/live/socket.ts`, `store.ts`.

One page and one session from connect to disconnect, and the stream behind it. `Receive` is the event loop's callback: every tick goes
into the box of last values, and to the queue only if its symbol is archived and the queue has room. `Collect`, `Write`, `Commit` and
`Publish` are the writer's cycle: a batch of the queue, its inserts and, with every Nth batch, the quotes
drained from the box, the commit, and the fan-out; Redis forwards to who listens. The session's three tasks are
`Handle` (frames of the page; a snapshot is read in a thread, hence two steps), `Poll` (the bus) and `Take`/`Deliver` (the
sender, which awaits the socket while the others offer). The bounded queue drops its oldest frame, control frames too.
The page retains symbols and shows the newest frame its store accepts.

Run `live_session`: two symbols, one of them archived, with room for one in a session, so that the ceiling is met; two ticks and a stream queue of one, so that
a tick is dropped; the quotes drained with every batch, so that prices without a tick in the archive reach `live_quotes`; a queue of two; three
changes of panels; one fault (Redis, socket, transaction or read). 433 886 states. Fairness: the three tasks of an open session run, the socket sends, a page that
lost its socket dials again. Nothing forces a tick, a panel or a fault.

What a page may show is not what the archive has: `stream/publish.py:163` says that "the page must never see a tick the archive does
not have", which is so for the fan-out and not for the snapshots. The box is not behind the queue (`stream/supervisor.py:270`), so
`live_quotes` gets prices of ticks that are still queued, were dropped by a full queue, or belong to a symbol with `archive=false`, and
`ui/live.py:319` sends them. `ShownIsStored` says both halves: all that the fan-out carries is in the archive, and a price that is shown and is not
there comes from a committed row that has not gone back since. `DarkIsTold` is content with a count of
drops, whichever frames they were, and takes it that losing Redis raises in the reader.

Proofs (`LiveSessionProofs`), for every set of symbols and of archived ones, both queue sizes, ceiling and refresh period: `LiveTyped`, `DropsHold`,
`SessionFollows`, `ShownHolds`. `DropsAreCounted` is inductive as it stands, by conservation through each offer.
`SessionFollowsPage` is not: its last part speaks only of an empty inbox, so `Subscribed` says of every symbol the page gave up
that it is not held, or that an unsubscription of it waits in the inbox with no subscription behind it.
`ShownIsStored` needs `Stored`, every place a price can be on its way to the page (the feed, the
queue, the socket, a snapshot in hand), with what a frame may tell (`Tells`: a tick of the archive, or a quote that its row has come up to, which
the guard on `ts_utc` keeps), and `WriterFlow`: the batch that is published is the one that was committed. `DarkIsTold` is liveness and stays with TLC.

Left out: the handshake's limits, Origin and bad tokens, the count of panels per symbol, the
animation frame and the tape, batches of more than one tick or of rejects alone. Worth knowing, and why no convergence is claimed: a snapshot is as old as the last refresh of
`live_quotes`, so a tick published between it and the subscription can be missing until the next one
(`ui/live.py:317` claims there is no such gap, which holds when every batch refreshes);
a snapshot read before a newer tick and offered after it takes the page back; a refusal for too many
symbols that crosses a release leaves the released place empty, so `SessionFollowsPage` bounds what a session holds only from above; symbols without
archive are never published, and when nothing else arrives there is no batch, so their prices stay in the box (`stream/writer.py:222`);
the client reconnects after a close the server calls permanent.
## Findings

Shown by a run:

- `outbox_id`: `IdCursor.cutoff` reads twice, and what is committed between the two reads below the second's chunk is
  dropped before it is published, while `outbox/cursor.py:131` and `outbox/relay.py:183` hold the cleanup to be safe.
- `api_calendar`: see below.

The economic calendar is paged on (`event_time_utc`, `event_name`)
(`datasets/market/calendars.py:207`) while the primary key is (`region`, `event_time_utc`, `event_name`)
(`models/market.py:151`), although `datasets/exposure.py:30` says of a sort key that it "must be unique together, or
pagination would skip or repeat rows": where the events of two regions with one name and time straddle a page, the second is never
served. `api/storage/catalog.py:100` checks only that the columns exist. The IPO calendar's sort key leaves out
`action` in the same way.

Stated by a property as the code has it, where a comment or a test says otherwise (the sections above quote both sides):

- a changed row of a collected replace keeps its `fetched_at` (`FetchedAtLags` in `StoredAsPlain`), and what prune and purge delete
  is not announced (`DeletesTold` in `EventsTell`);
- a revocation is not immediate for commands that cross (`StaleRefused`), a month's counter goes below zero when refunds overlap
  (`QuotaFloor`), slots expire under the requests that hold them (`SlotsHeld`), and two flushes count a day twice (`UsageCounted`);
- bars go astray of the ledger's scale, with the documented setup too: the run that first meets a split stores its
  bars at the new scale before the split is in the table, so the next rescale divides them once more, for each later split (`OneScale`);
- a crashed worker, an unreadable answer and an empty one count toward delisting as an unknown symbol does, because
  `pipeline/runner.py:319` excuses the transport alone (`DelistSparesTransport`);
- a page is shown prices the archive does not have, in snapshots (`ShownIsStored`).

Met while modelling, without a property:

- Outbox: two transactions that change one key can leave the older
  change last on its topic (`outbox/cursor.py:199`; `TailIsNewest` is proved of the single writer's queue only).
  `NoLoss` of the pipeline's queue rests on `OpenLimit <= CleanupLag`: a transaction that stays open for longer than
  `CLEANUP_LAG_HOURS` after its flush can lose its chunk.
- Stream: a purged symbol passes the cached filter and its foreign key ends the writer (`stream/writer.py:90`); a
  writer that dies while draining leaves the session recorded as ok (`stream/runner.py:180`); symbols streamed
  without archive never reach `live_quotes` when nothing is archived; a health row of a forgotten connection is
  put back by the writer from its box (`stream/repository.py:217`, `stream/supervisor.py:235`), and so may be
  the quote of a departed symbol (`stream/supervisor.py:257`); a join that gives up after 30 seconds leaves a writer
  that still commits (`stream/runner.py:176`).
- Sync run: the run's advisory lock dies with the parent while shards go on (`pipeline/shard.py:226`); a late success
  ends a withdrawn proxy's rest (`proxy/health.py:98`); a run cancelled by a signal charges a crash
  to every proxy (`pipeline/shard.py:356`); `run_sync` joins without a timeout (`pipeline/runner.py:274`).
- Bars: a failed window whose key was resolved
  before is never reopened (`datasets/bars.py:372`). A retention gap is inverted when the last bar is newer
  than the boundary but within the overlap of it (`datasets/bars.py:129`). An explicit range moves the watermark
  past days nobody fetched. Any bar derived from ticks closes its whole gap (`stream/reconcile.py:159`). A failed
  window grows by a day with each failed retry. And a resolved row can lose days: a window that fails again from the same
  first day with an earlier end overwrites the end (`datasets/bars.py:372`), so the days it no longer spans are in no row,
  while `models/bars.py:160` calls the ledger a "Permanent record of missed fetch windows" (`trimmed` names these days).
- Scheduler: the scheduled time of a row is the moment its trigger was built, the same for all its firings
  (`scheduler/service.py:268` against `scheduler/runs.py:34`), and retention keeps rows by it
  (`pipeline/prune.py:374`).
- API: `candidates_for` offers the two newest secrets, revoked ones included (`api/storage/clients.py:90`
  against `:24`), so after a rotation, a revocation of the new
  secret and another rotation, the oldest secret is refused inside its grace.

Where a property leaves something out, it names it: `LedgerHolds` the days of `trimmed` and archives with a range fetched by hand,
`StreamEnds` the status of the session, `RescanTakesWhatLeft` a symbol that returns between the reading and the
delete, `SessionFollowsPage` whether all that the page wants is held, `PagedOnce` the routes whose sort key is not the primary key (`api_calendar`).

## Limits

TLC checks small instances: no claim is made there beyond the bounds named above and in the
`.cfg` files. What is proved (`OutboxProofs`, `StreamIngestProofs`, `SyncProofs`, `BarArchiveProofs`, `SchedulerProofs`,
`ApiProofs`, `LiveSessionProofs`, `StreamScopeProofs`) holds for all values of the constants that meet the named assumptions, including the bounds
on faults, messages and time; hypotheses beyond those are `~XidWalk` (`CursorKeepsOrder`, the single writer's queue)
and `WholeKey` (`PagedExactlyOnce`). Of `DatasetSync` the theorems hold of every catalogue that
meets `GroupsAssumption`; that this one does is evaluated by TLC. Only model-checked: all liveness (`EveryRowDone`, `StreamEnds`, `RunEnds`,
`GapsAreRetried`, `AllEnds`, `ScopeConverges`, `DarkIsTold`), which with ENABLED is beyond the proof system. SQL statements are
taken to do what they say under READ COMMITTED; Kafka, Redis, the operating system and Yahoo are
modelled from how the code uses them (the external entries of the map).

Not modelled: the wire protocol's decoding and its rejects (`stream/protocol.py:227` sets no upper bound on
a timestamp), routing of events and COPY encoding, the settings store, the exporter, the Yahoo
client's retries within one request, the per-symbol, market and domain runners (loops whose outcome
`ShardRun` takes as an input), the active proxy check and its administration, the admin console, the command
line, core helpers, schema and migrations, the API's application shell and the front end's layout. They hold no
state across steps, or one that a unit test reaches.

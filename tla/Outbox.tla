-------------------------------- MODULE Outbox --------------------------------
(***************************************************************************)
(* The transactional outbox and its relay (src/yfin/outbox/).              *)
(*                                                                         *)
(* Writers queue one outbox row per change inside the transaction that     *)
(* makes the change (storage/changes.py for the pipeline, stream/writer.py *)
(* for ticks).  One relay process walks the queue in cursor order, hands   *)
(* each batch to the Kafka producer, waits for the acknowledgements, and   *)
(* only then moves its cursor, in a transaction of its own.  Chunks of the *)
(* queue older than a cutoff are dropped behind it.                        *)
(*                                                                         *)
(* XidWalk selects the cursor: TRUE is XidCursor (pipeline_outbox, written *)
(* by concurrent transactions), FALSE is IdCursor (stream_outbox, written  *)
(* by a single thread).  Time is counted in chunk intervals of one hour,   *)
(* so the created_at of a row is the chunk it lies in.                     *)
(***************************************************************************)
EXTENDS Naturals, FiniteSets, Sequences

CONSTANTS
    Txns,          \* writing transactions
    Keys,          \* partition keys; a key also stands for the data row it names
    XidWalk,       \* TRUE: XidCursor, FALSE: IdCursor
    SingleWriter,  \* whether at most one transaction writes at a time
    BatchSize,     \* RelayConfig.batch_size
    CleanupLag,    \* CLEANUP_LAG_HOURS
    OpenLimit,     \* hours a transaction may stay open after its flush
    MaxEvents,     \* bound: events of one transaction
    MaxClock,      \* bound: hours
    MaxPasses,     \* bound: passes with messages in the producer's queue at once
    MaxFaults      \* bound: failed deliveries, flush timeouts and crashes together

\* The id walk is correct only for a queue with a single writer (spec.py); the
\* xid walk only while no transaction outlives the cleanup lag (cursor.py).
ASSUME CursorAssumption ==
    /\ XidWalk \in BOOLEAN
    /\ SingleWriter \in BOOLEAN
    /\ XidWalk \/ SingleWriter
    /\ XidWalk => OpenLimit <= CleanupLag

ASSUME BoundAssumption ==
    /\ {BatchSize, CleanupLag, OpenLimit, MaxEvents, MaxClock, MaxPasses, MaxFaults} \subseteq Nat
    /\ BatchSize > 0

VARIABLES
    state,      \* life of each transaction
    xid,        \* its transaction id, 0 before its first write
    events,     \* ChangeCollector._events: the keys it has changed, in order
    rows,       \* the queue table, rows of transactions in progress included
    committed,  \* history: every row whose transaction committed
    window,     \* history: rows committed between the two reads of IdCursor.cutoff
    newest,     \* history: per key, its rows in the transaction that committed it last
    nextXid,    \* the next transaction id
    nextId,     \* the table's identity sequence
    clock       \* the clock that stamps created_at, in hours

dbVars == <<state, xid, events, rows, committed, window, newest, nextXid, nextId, clock>>

VARIABLES
    pc,         \* where the relay's loop is
    cursor,     \* the offset table's single row
    batch,      \* the messages of the current pass
    failed,     \* DeliveryTracker.failed is not empty
    cutoff,     \* the created_at below which chunks are about to be dropped
    inflight,   \* the producer's queue, one set per pass, oldest pass first
    delivered,  \* history: rows the broker has acknowledged
    tail,       \* history: per key, the id delivered last
    faults      \* faults spent so far

relayVars == <<pc, cursor, batch, failed, cutoff, inflight, delivered, tail, faults>>

vars == <<dbVars, relayVars>>

-------------------------------------------------------------------------------
(* Rows, positions and their order *)

Row == [xid : Nat, id : Nat, key : Keys, created : Nat]

Position == [xid : Nat, id : Nat]

TxnStates == {"idle", "open", "flushed", "committed", "aborted"}

RelayStates == {"publish", "flush", "acked", "cleanup", "newest", "drop", "dead"}

Active(t) == state[t] \in {"open", "flushed"}

RowsOf(t) == {r \in rows : r.xid = xid[t]}

\* The position a relay records for a row; IdCursor leaves xid at zero.
PosOf(r) == [xid |-> IF XidWalk THEN r.xid ELSE 0, id |-> r.id]

\* The row is at or before a recorded position.
Leq(r, p) ==
    IF XidWalk THEN r.xid < p.xid \/ (r.xid = p.xid /\ r.id <= p.id)
               ELSE r.id <= p.id

\* The order in which a batch lists its messages.
Before(q, r) ==
    IF XidWalk THEN q.xid < r.xid \/ (q.xid = r.xid /\ q.id < r.id)
               ELSE q.id < r.id

Visible == rows \cap committed

Unpublished == {r \in Visible : ~Leq(r, cursor)}

\* xid < pg_snapshot_xmin(...): every older transaction has ended.
BelowXmin(r) == \A t \in Txns : Active(t) => r.xid < xid[t]

\* Mutant: the batch query without its snapshot guard.
EligibleAnyXid == Unpublished

Eligible == {r \in Unpublished : XidWalk => BelowXmin(r)}

\* ORDER BY ... LIMIT n
FirstN(S, n) == {r \in S : Cardinality({q \in S : Before(q, r)}) < n}

Drained == \A i \in DOMAIN inflight : inflight[i] = {}

IsLeast(c, S) == c \in S /\ \A d \in S : c <= d

IsGreatest(c, S) == c \in S /\ \A d \in S : d <= c

-------------------------------------------------------------------------------
Init ==
    /\ state = [t \in Txns |-> "idle"]
    /\ xid = [t \in Txns |-> 0]
    /\ events = [t \in Txns |-> <<>>]
    /\ rows = {}
    /\ committed = {}
    /\ window = {}
    /\ newest = [k \in Keys |-> {}]
    /\ nextXid = 1
    /\ nextId = 1
    /\ clock = 0
    /\ pc = "publish"
    /\ cursor = [xid |-> 0, id |-> 0]
    /\ batch = {}
    /\ failed = FALSE
    /\ cutoff = 0
    /\ inflight = <<>>
    /\ delivered = {}
    /\ tail = [k \in Keys |-> 0]
    /\ faults = 0

-------------------------------------------------------------------------------
(* The writers *)

\* The first data write of a transaction assigns its xid.
Begin(t) ==
    /\ state[t] = "idle"
    /\ SingleWriter => \A u \in Txns : ~Active(u)
    /\ state' = [state EXCEPT ![t] = "open"]
    /\ xid' = [xid EXCEPT ![t] = nextXid]
    /\ nextXid' = nextXid + 1
    /\ UNCHANGED <<events, rows, committed, window, newest, nextId, clock, relayVars>>

\* A data row is changed and its event recorded; PostgreSQL holds the row's
\* lock until the transaction ends.
Write(t, k) ==
    /\ state[t] = "open"
    /\ Len(events[t]) < MaxEvents
    /\ \A u \in Txns \ {t} : Active(u) => \A i \in DOMAIN events[u] : events[u][i] # k
    /\ events' = [events EXCEPT ![t] = Append(@, k)]
    /\ UNCHANGED <<state, xid, rows, committed, window, newest, nextXid, nextId, clock, relayVars>>

\* ChangeCollector.flush: one timestamp for all events, ids in event order.
Flush(t) ==
    /\ state[t] = "open"
    /\ state' = [state EXCEPT ![t] = "flushed"]
    /\ rows' = rows \cup
         {[xid |-> xid[t], id |-> nextId + i - 1, key |-> events[t][i], created |-> clock] :
              i \in DOMAIN events[t]}
    /\ nextId' = nextId + Len(events[t])
    /\ UNCHANGED <<xid, events, committed, window, newest, nextXid, clock, relayVars>>

Commit(t) ==
    /\ state[t] = "flushed"
    /\ state' = [state EXCEPT ![t] = "committed"]
    /\ committed' = committed \cup RowsOf(t)
    /\ window' = IF pc = "newest" THEN window \cup RowsOf(t) ELSE window
    /\ newest' = [k \in Keys |->
                    IF \E r \in RowsOf(t) : r.key = k
                    THEN {r \in RowsOf(t) : r.key = k} ELSE newest[k]]
    /\ UNCHANGED <<xid, events, rows, nextXid, nextId, clock, relayVars>>

\* A rollback, or the death of the writing process.
Abort(t) ==
    /\ Active(t)
    /\ state' = [state EXCEPT ![t] = "aborted"]
    /\ rows' = rows \ RowsOf(t)
    /\ UNCHANGED <<xid, events, committed, window, newest, nextXid, nextId, clock, relayVars>>

\* An hour passes.  OpenLimit bounds how long a flushed transaction stays open.
Tick ==
    /\ clock < MaxClock
    /\ \A r \in rows \ committed : clock < r.created + OpenLimit
    /\ clock' = clock + 1
    /\ UNCHANGED <<state, xid, events, rows, committed, window, newest, nextXid, nextId,
                   relayVars>>

-------------------------------------------------------------------------------
(* The relay: publish_once, then _maybe_cleanup, for ever *)

\* Reads the cursor and the next batch, and produces every message of it.
StartPass ==
    LET next == FirstN(Eligible, BatchSize)
        queue == IF Drained THEN <<>> ELSE inflight
    IN  /\ pc = "publish"
        /\ next # {}
        /\ Len(queue) < MaxPasses
        /\ batch' = next
        /\ inflight' = Append(queue, next)
        /\ failed' = FALSE
        /\ pc' = "flush"
        /\ UNCHANGED <<dbVars, cursor, cutoff, delivered, tail, faults>>

EmptyPass ==
    /\ pc = "publish"
    /\ Eligible = {}
    /\ pc' = "cleanup"
    /\ UNCHANGED <<dbVars, cursor, batch, failed, cutoff, inflight, delivered, tail, faults>>

\* The broker acknowledges a message; a partition is first in, first out.
Deliver ==
    \E i \in DOMAIN inflight : \E r \in inflight[i] :
        /\ \A j \in 1..(i - 1) : \A q \in inflight[j] : q.key # r.key
        /\ \A q \in inflight[i] : q.key = r.key => ~Before(q, r)
        /\ inflight' = [inflight EXCEPT ![i] = @ \ {r}]
        /\ delivered' = delivered \cup {r}
        /\ tail' = [tail EXCEPT ![r.key] = r.id]
        /\ UNCHANGED <<dbVars, pc, cursor, batch, failed, cutoff, faults>>

\* A message is refused or expires; its own pass's tracker hears of it.
Fail ==
    /\ faults < MaxFaults
    /\ \E i \in DOMAIN inflight : \E r \in inflight[i] :
          /\ inflight' = [inflight EXCEPT ![i] = @ \ {r}]
          /\ failed' = (failed \/ (pc = "flush" /\ i = Len(inflight)))
    /\ faults' = faults + 1
    /\ UNCHANGED <<dbVars, pc, cursor, batch, cutoff, delivered, tail>>

\* Mutant: the number of messages flush() left queued is ignored.
FlushReturnIgnoringQueue ==
    /\ pc = "flush"
    /\ pc' = IF failed THEN "cleanup" ELSE "acked"
    /\ batch' = IF failed THEN {} ELSE batch
    /\ UNCHANGED <<dbVars, cursor, failed, cutoff, inflight, delivered, tail, faults>>

\* flush() returns 0: nothing is queued any more, of this pass or an earlier one.
FlushReturn ==
    /\ pc = "flush"
    /\ Drained
    /\ pc' = IF failed THEN "cleanup" ELSE "acked"
    /\ batch' = IF failed THEN {} ELSE batch
    /\ UNCHANGED <<dbVars, cursor, failed, cutoff, inflight, delivered, tail, faults>>

\* flush() gives up with messages still queued: the pass counts as failed, and
\* what is queued may still be delivered later.
FlushTimeout ==
    /\ pc = "flush"
    /\ ~Drained
    /\ faults < MaxFaults
    /\ faults' = faults + 1
    /\ pc' = "cleanup"
    /\ batch' = {}
    /\ UNCHANGED <<dbVars, cursor, failed, cutoff, inflight, delivered, tail>>

\* Mutant: the offset records the transaction but not the row inside it.
AdvanceBareXid ==
    /\ pc = "acked"
    /\ \E last \in batch :
          /\ \A r \in batch : r = last \/ Before(r, last)
          /\ cursor' = [xid |-> last.xid, id |-> 0]
    /\ pc' = "cleanup"
    /\ batch' = {}
    /\ UNCHANGED <<dbVars, failed, cutoff, inflight, delivered, tail, faults>>

\* The offset moves to the last message of the batch.
Advance ==
    /\ pc = "acked"
    /\ \E last \in batch :
          /\ \A r \in batch : r = last \/ Before(r, last)
          /\ cursor' = PosOf(last)
    /\ pc' = "cleanup"
    /\ batch' = {}
    /\ UNCHANGED <<dbVars, failed, cutoff, inflight, delivered, tail, faults>>

\* The cleanup interval has not passed, or there is no cutoff to clean up to.
SkipCleanup ==
    /\ pc = "cleanup"
    /\ pc' = "publish"
    /\ UNCHANGED <<dbVars, cursor, batch, failed, cutoff, inflight, delivered, tail, faults>>

\* Mutant: the cutoff without the lag for open transactions.
XidCutoffNoLag(c) == IsLeast(c, {r.created : r \in Unpublished})

\* LEAST(oldest unpublished, now() - CLEANUP_LAG_HOURS)
XidCutoff(c) ==
    /\ clock >= CleanupLag
    /\ IsLeast(c, {r.created : r \in Unpublished} \cup {clock - CleanupLag})

\* IdCursor.cutoff, its first statement: the oldest unpublished row.
IdCutoff(c) == IsLeast(c, {r.created : r \in Unpublished})

\* drop_published_chunks computes the cutoff.
ReadCutoff ==
    /\ pc = "cleanup"
    /\ \E c \in 0..clock :
          /\ IF XidWalk THEN XidCutoff(c) ELSE IdCutoff(c)
          /\ cutoff' = c
    /\ pc' = "drop"
    /\ UNCHANGED <<dbVars, cursor, batch, failed, inflight, delivered, tail, faults>>

\* IdCursor.cutoff found nothing unpublished ...
NothingPending ==
    /\ pc = "cleanup"
    /\ ~XidWalk
    /\ Unpublished = {}
    /\ pc' = "newest"
    /\ UNCHANGED <<dbVars, cursor, batch, failed, cutoff, inflight, delivered, tail, faults>>

\* ... and asks, in a second statement with a snapshot of its own (READ
\* COMMITTED), for the newest row: what commits in between is taken for published.
ReadNewest ==
    /\ pc = "newest"
    /\ IF Visible = {}
       THEN pc' = "publish" /\ UNCHANGED cutoff
       ELSE /\ pc' = "drop"
            /\ \E r \in Visible :
                  /\ \A q \in Visible : q.created <= r.created
                  /\ cutoff' = r.created
    /\ UNCHANGED <<dbVars, cursor, batch, failed, inflight, delivered, tail, faults>>

\* drop_chunks: every chunk wholly below the cutoff, as soon as no open
\* transaction holds one of them.
DropChunks ==
    /\ pc = "drop"
    /\ \A r \in rows : r.created < cutoff => r \in committed
    /\ rows' = {r \in rows : r.created >= cutoff}
    /\ cutoff' = 0
    /\ pc' = "publish"
    /\ UNCHANGED <<state, xid, events, committed, window, newest, nextXid, nextId, clock,
                   cursor, batch, failed, inflight, delivered, tail, faults>>

\* The relay process dies with its producer's queue, and is started again.
Crash ==
    /\ pc # "dead"
    /\ faults < MaxFaults
    /\ faults' = faults + 1
    /\ pc' = "dead"
    /\ batch' = {}
    /\ inflight' = <<>>
    /\ failed' = FALSE
    /\ cutoff' = 0
    /\ UNCHANGED <<dbVars, cursor, delivered, tail>>

Restart ==
    /\ pc = "dead"
    /\ pc' = "publish"
    /\ UNCHANGED <<dbVars, cursor, batch, failed, cutoff, inflight, delivered, tail, faults>>

-------------------------------------------------------------------------------
Writers ==
    \/ \E t \in Txns : Begin(t) \/ Flush(t) \/ Commit(t) \/ Abort(t)
    \/ \E t \in Txns, k \in Keys : Write(t, k)
    \/ Tick

Relay ==
    \/ StartPass \/ EmptyPass \/ FlushReturn \/ FlushTimeout \/ Advance
    \/ SkipCleanup \/ ReadCutoff \/ DropChunks \/ Crash \/ Restart

Broker == Deliver \/ Fail

Next == Writers \/ Relay \/ Broker

\* A queue walked by XidCursor, whose cutoff is one statement.
Spec == Init /\ [][Next]_vars

\* IdCursor's cutoff has a second statement.
IdNext == Next \/ NothingPending \/ ReadNewest

\* A queue walked by IdCursor.
IdSpec == Init /\ [][IdNext]_vars

\* The relay's loop runs, the broker settles every message it is given, and an
\* open transaction ends.  Nothing forces a writer to start one.
Fairness ==
    /\ WF_vars(StartPass \/ EmptyPass)
    /\ WF_vars(FlushReturn)
    /\ WF_vars(Advance)
    /\ WF_vars(SkipCleanup \/ ReadCutoff)
    /\ WF_vars(DropChunks)
    /\ WF_vars(Restart)
    /\ WF_vars(Deliver)
    /\ \A t \in Txns : WF_vars(Flush(t)) /\ WF_vars(Commit(t) \/ Abort(t))

FairSpec == Spec /\ Fairness

-------------------------------------------------------------------------------
(* What the queue and its relay must get right *)

\* The shape of the state, with the sequences that number rows and
\* transactions ahead of everything they have numbered.
TypeOK ==
    /\ state \in [Txns -> TxnStates]
    /\ xid \in [Txns -> Nat]
    /\ events \in [Txns -> Seq(Keys)]
    /\ rows \subseteq Row
    /\ committed \subseteq Row
    /\ window \subseteq Row
    /\ newest \in [Keys -> SUBSET Row]
    /\ nextXid \in Nat \ {0}
    /\ nextId \in Nat \ {0}
    /\ clock \in Nat
    /\ pc \in RelayStates
    /\ cursor \in Position
    /\ batch \subseteq Row
    /\ failed \in BOOLEAN
    /\ cutoff \in Nat
    /\ inflight \in Seq(SUBSET Row)
    /\ delivered \subseteq Row
    /\ tail \in [Keys -> Nat]
    /\ faults \in Nat
    /\ \A t \in Txns : xid[t] < nextXid
    /\ \A r \in rows \cup committed : 0 < r.id /\ r.id < nextId

\* The cursor never stands beyond a committed row the broker has not
\* acknowledged: a transaction that took its ids early and committed late is
\* not stepped past, and a failed, timed-out or interrupted pass is retried.
NoSkip == \A r \in committed : Leq(r, cursor) => r \in delivered

\* Chunk cleanup never drops a committed row that is still unpublished, not
\* even one that became visible after the cutoff was computed.
NoLoss == \A r \in committed \ rows : r \in delivered

\* Messages that will never be offered to the broker again.
Done == {r \in committed : r \notin rows \/ Leq(r, cursor)}

Queue == INSTANCE AtLeastOnceQueue WITH done <- Done

\* The relay implements the at-least-once queue: only committed rows are
\* delivered, and only delivered rows are forgotten.
AtLeastOnce == Queue!Spec

\* Within a key the last message on the topic is the last change committed,
\* whenever the relay has caught up: a partial failure, a late delivery or a
\* replay may repeat old messages but never leaves one of them last.
TailIsNewest ==
    (pc \in {"publish", "cleanup"} /\ Drained /\ committed = Done)
    => \A k \in Keys : newest[k] # {} =>
          IsGreatest(tail[k], {r.id : r \in newest[k]})

\* All that the id cursor can lose was committed between its cutoff's two reads,
\* and as long as it has lost nothing it skips nothing either.
IdCursorHolds ==
    /\ (committed \ rows) \ delivered \subseteq window
    /\ NoLoss => NoSkip /\ TailIsNewest

\* Once the broker stays up and open transactions end, every committed row is
\* published and recorded as published: the relay is never stuck behind a
\* multi-batch transaction or a retried pass.
EveryRowDone ==
    \A n \in 1..(Cardinality(Txns) * MaxEvents) :
        (\E r \in committed : r.id = n) ~> (\E r \in Done : r.id = n)
===============================================================================

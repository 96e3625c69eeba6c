----------------------------- MODULE LiveSession -----------------------------
(***************************************************************************)
(* One open terminal page and what feeds it: the stream's event loop and   *)
(* its writer thread (src/yfin/stream/supervisor.py, writer.py,            *)
(* publish.py), the session of `/ui/ws` (src/yfin/ui/live.py), and the     *)
(* page's socket and store (web/src/live/socket.ts, store.ts).             *)
(*                                                                         *)
(* The event loop puts every tick in a box of last values and queues those *)
(* to be archived, while there is room.  The writer inserts a batch of the *)
(* queue, with every Nth batch drains the box into live_quotes, commits,   *)
(* and only then publishes the batch to Redis, which forwards to whoever   *)
(* is subscribed at that moment.  A session runs three tasks on one event  *)
(* loop: the handler of the page's frames, the reader of the bus and the   *)
(* sender of a bounded queue that drops its oldest frame.  The page        *)
(* retains symbols, asks for them, and shows the last frame it accepts.    *)
(*                                                                         *)
(* A tick is a symbol and an instant, instants arriving in order; a batch  *)
(* is one tick, and a batch of rejects alone is left out.  The panels of a *)
(* symbol count as one, the animation frame that paints what was accepted  *)
(* and the tape are left out, and so are bad tokens, the Origin check and  *)
(* the handshake limits.                                                   *)
(***************************************************************************)
EXTENDS Naturals, Sequences, FiniteSets

CONSTANTS
    Symbols,     \* symbols a page may show, all of them streamed and known
    Archived,    \* those whose ticks are kept: archive=true
    MaxTs,       \* bound: ticks of the stream
    StreamMax,   \* the size of the supervisor's queue
    QuotesEvery, \* WriterConfig.quotes_every_n_batches
    QueueMax,    \* QUEUE_MAXSIZE
    MaxSymbols,  \* MAX_SYMBOLS
    MaxActs,     \* bound: symbols retained and released
    MaxFaults    \* bound: Redis or a socket lost, a transaction or a read failed

ASSUME LiveAssumption ==
    /\ {MaxTs, StreamMax, QuotesEvery, QueueMax, MaxSymbols, MaxActs, MaxFaults} \subseteq Nat
    /\ QuotesEvery > 0 /\ QueueMax > 0
    /\ IsFiniteSet(Symbols) /\ Archived \subseteq Symbols

Tick == [s : Symbols, t : 1 .. MaxTs]

\* What the page is sent and what it sends.
ServerFrames ==
    [op : {"snap", "tick"}, d : Tick] \cup [op : {"live"}, enabled : BOOLEAN]
        \cup [op : {"error"}]

ClientFrames == [op : {"sub", "unsub"}, symbols : SUBSET Symbols]

\* An instant per symbol, 0 for none.
Instants == [Symbols -> 0 .. MaxTs]

None == [s \in Symbols |-> 0]

VARIABLES
    clock,      \* the instant of the newest tick received
    latest,     \* LatestBox: the newest tick of each symbol not drained yet
    queue,      \* StreamSupervisor.queue
    writing,    \* the batch of the writer: a sequence of at most one tick
    phase,      \* idle | collected | written | committed: where its batch is
    batches,    \* batches modulo QuotesEvery
    quotes,     \* the quotes its transaction writes
    archive,    \* live_ticks
    table,      \* live_quotes
    redis       \* whether Redis answers

VARIABLES
    link,       \* whether the socket is open
    inbox,      \* frames of the page the session has not handled
    symbols,    \* LiveSession._symbols
    channels,   \* what the pub/sub connection is subscribed to
    bus,        \* off | ok | broken | dark: only ok and broken are _bus_ok
    feed,       \* ticks Redis has forwarded and nobody has read
    handler,    \* idle | read | offer: where _subscribe is
    asked,      \* the symbols that _subscribe was asked for
    read,       \* the rows it has read from live_quotes
    out,        \* _out
    dropped,    \* _dropped
    sending     \* the frame the sender awaits, with the drops it reports first

VARIABLES
    retained,   \* symbols a panel holds
    budgetFull, enabled,
    floor,      \* snapAt
    shown,      \* quotes: the instant shown of each symbol
    owed,       \* frames offered to the session, less those delivered or reported lost
    acts, faults

writerVars  == <<clock, latest, queue, writing, phase, batches, quotes, archive, table>>
handlerVars == <<handler, asked, read>>
queueVars   == <<out, dropped, owed>>
sessionVars == <<symbols, channels, bus>>
pageVars    == <<retained, budgetFull, enabled, floor, shown>>
vars == <<writerVars, redis, link, inbox, sessionVars, feed, handlerVars, queueVars,
          sending, pageVars, acts, faults>>

Init ==
    /\ clock = 0 /\ latest = None /\ queue = <<>>
    /\ writing = <<>> /\ phase = "idle" /\ batches = 0 /\ quotes = None
    /\ archive = {} /\ table = None /\ redis = TRUE
    /\ link = FALSE /\ inbox = <<>> /\ symbols = {} /\ channels = {} /\ bus = "off"
    /\ feed = <<>> /\ handler = "idle" /\ asked = {} /\ read = {}
    /\ out = <<>> /\ dropped = 0 /\ owed = 0 /\ sending = <<>>
    /\ retained = {} /\ budgetFull = FALSE /\ enabled = FALSE
    /\ floor = None /\ shown = None
    /\ acts = 0 /\ faults = 0

Act == acts < MaxActs /\ acts' = acts + 1

Fault == faults < MaxFaults /\ faults' = faults + 1

-----------------------------------------------------------------------------
(* The event loop and the writer thread of the stream, and Redis.          *)

others == <<redis, link, inbox, sessionVars, handlerVars, queueVars, sending, pageVars, acts>>

\* _on_result: the box takes every tick, the queue only those to be kept, and only
\* while it has room.
Receive(s) ==
    LET tick == [s |-> s, t |-> clock + 1]
        kept == s \in Archived /\ Len(queue) < StreamMax
    IN  /\ clock < MaxTs
        /\ clock' = tick.t
        /\ latest' = [latest EXCEPT ![s] = tick.t]
        /\ queue' = IF kept THEN Append(queue, tick) ELSE queue
        /\ UNCHANGED <<writing, phase, batches, quotes, archive, table, feed, others, faults>>

\* _collect
Collect ==
    /\ phase = "idle" /\ queue # <<>>
    /\ writing' = <<Head(queue)>> /\ queue' = Tail(queue)
    /\ batches' = (batches + 1) % QuotesEvery
    /\ phase' = "collected"
    /\ UNCHANGED <<clock, latest, quotes, archive, table, feed, others, faults>>

Drains == batches = 0

\* Mutant: the batch is published inside its transaction.
WritePublishes ==
    /\ phase = "collected"
    /\ phase' = "written"
    /\ quotes' = IF Drains THEN latest ELSE None
    /\ latest' = IF Drains THEN None ELSE latest
    /\ feed' = IF redis /\ bus = "ok" /\ writing[1].s \in channels THEN feed \o writing ELSE feed
    /\ UNCHANGED <<clock, queue, writing, batches, archive, table, others, faults>>

\* The inserts of the batch, and with every Nth the box is drained into live_quotes,
\* whatever has become of its ticks; nothing is visible before the commit.
Write ==
    /\ phase = "collected"
    /\ phase' = "written"
    /\ quotes' = IF Drains THEN latest ELSE None
    /\ latest' = IF Drains THEN None ELSE latest
    /\ UNCHANGED <<clock, queue, writing, batches, archive, table, feed, others, faults>>

\* The guard on ts_utc: an older quote updates nothing.
Quoted(s) == IF quotes[s] > table[s] THEN quotes[s] ELSE table[s]

Commit ==
    /\ phase = "written"
    /\ phase' = "committed"
    /\ archive' = archive \cup {writing[1]}
    /\ table' = [s \in Symbols |-> Quoted(s)]
    /\ quotes' = None
    /\ UNCHANGED <<clock, latest, queue, writing, batches, feed, others, faults>>

\* A failed transaction is the end of the process, and of what it remembered;
\* another one takes over.
RollsBack ==
    /\ phase = "written" /\ Fault
    /\ phase' = "idle" /\ writing' = <<>> /\ batches' = 0
    /\ latest' = None /\ queue' = <<>> /\ quotes' = None
    /\ UNCHANGED <<clock, archive, table, feed, others>>

\* What has been committed is published, to whoever listens now; a failure is
\* swallowed.
Publish ==
    /\ phase = "committed"
    /\ feed' = IF redis /\ bus = "ok" /\ writing[1].s \in channels
               THEN feed \o writing ELSE feed
    /\ phase' = "idle" /\ writing' = <<>>
    /\ UNCHANGED <<clock, latest, queue, batches, quotes, archive, table, others, faults>>

\* Redis goes away, and every connection to it; or it comes back, and a session
\* that had one does not notice.
RedisLost ==
    /\ redis /\ Fault
    /\ redis' = FALSE
    /\ bus' = IF bus = "ok" THEN "broken" ELSE bus
    /\ feed' = <<>>
    /\ UNCHANGED <<writerVars, link, inbox, symbols, channels, handlerVars, queueVars,
                   sending, pageVars, acts>>

RedisBack ==
    /\ ~redis
    /\ redis' = TRUE
    /\ UNCHANGED <<writerVars, link, inbox, sessionVars, feed, handlerVars, queueVars,
                   sending, pageVars, acts, faults>>

-----------------------------------------------------------------------------
(* The session: src/yfin/ui/live.py.                                       *)

Live(e) == [op |-> "live", enabled |-> e]

Frame(op, s, t) == [op |-> op, d |-> [s |-> s, t |-> t]]

\* Mutant: the frame that gives way is not counted.
OfferSilently(frames) ==
    LET all  == out \o frames
        lost == IF Len(all) > QueueMax THEN Len(all) - QueueMax ELSE 0
    IN  /\ out' = SubSeq(all, lost + 1, Len(all))
        /\ dropped' = dropped
        /\ owed' = owed + Len(frames)

\* The frames offered one after the other to a queue that drops its oldest.
Offer(frames) ==
    LET all  == out \o frames
        lost == IF Len(all) > QueueMax THEN Len(all) - QueueMax ELSE 0
    IN  /\ out' = SubSeq(all, lost + 1, Len(all))
        /\ dropped' = dropped + lost
        /\ owed' = owed + Len(frames)

\* Mutant: the page is not told.
GoDarkSilently(fails) ==
    /\ bus' = IF fails THEN "dark" ELSE bus
    /\ UNCHANGED queueVars

\* _go_dark, if the call found the connection broken.
GoDark(fails) ==
    /\ bus' = IF fails THEN "dark" ELSE bus
    /\ Offer(IF fails THEN <<Live(FALSE)>> ELSE <<>>)

Frames(f) == inbox # <<>> /\ handler = "idle" /\ Head(inbox).op = f /\ inbox' = Tail(inbox)

\* Mutant: what is asked for is not added to what is held.
TooManyHeld(S) == Cardinality(symbols) > MaxSymbols

TooMany(S) == Cardinality(symbols \cup S) > MaxSymbols

\* A subscription over the ceiling is refused whole.
Refuse ==
    /\ Frames("sub")
    /\ TooMany(Head(inbox).symbols)
    /\ Offer(<<[op |-> "error"]>>)
    /\ UNCHANGED <<writerVars, redis, link, sessionVars, feed, handlerVars, sending,
                   pageVars, acts, faults>>

\* The channels first; the rows are read in another thread.
Subscribe ==
    LET fresh == Head(inbox).symbols \ symbols IN
    /\ Frames("sub")
    /\ ~TooMany(Head(inbox).symbols)
    /\ channels' = IF bus = "ok" THEN channels \cup fresh ELSE channels
    /\ symbols' = symbols \cup fresh
    /\ GoDark(bus = "broken" /\ fresh # {})
    /\ handler' = "read" /\ asked' = Head(inbox).symbols
    /\ UNCHANGED <<writerVars, redis, link, feed, read, sending, pageVars, acts, faults>>

\* The rows as they are committed now; a failed read gives none.
ReadQuotes ==
    /\ handler = "read"
    /\ handler' = "offer"
    /\ \/ /\ read' = {[s |-> s, t |-> table[s]] : s \in {r \in asked : table[r] # 0}}
          /\ UNCHANGED faults
       \/ read' = {} /\ Fault
    /\ UNCHANGED <<writerVars, redis, link, inbox, sessionVars, feed, asked, queueVars,
                   sending, pageVars, acts>>

\* In whichever order the rows came.
OfferSnaps ==
    /\ handler = "offer"
    /\ \E rows \in [1 .. Cardinality(read) -> read] :
        /\ {rows[i] : i \in DOMAIN rows} = read
        /\ Offer([i \in DOMAIN rows |-> Frame("snap", rows[i].s, rows[i].t)])
    /\ handler' = "idle" /\ asked' = {} /\ read' = {}
    /\ UNCHANGED <<writerVars, redis, link, inbox, sessionVars, feed, sending, pageVars,
                   acts, faults>>

Unsubscribe ==
    LET gone == Head(inbox).symbols \cap symbols IN
    /\ Frames("unsub")
    /\ channels' = IF bus = "ok" THEN channels \ gone ELSE channels
    /\ symbols' = symbols \ gone
    /\ GoDark(bus = "broken" /\ gone # {})
    /\ UNCHANGED <<writerVars, redis, link, feed, handlerVars, sending, pageVars,
                   acts, faults>>

\* The bus reader: a tick is offered, and a dead connection is told.
Poll ==
    /\ symbols # {}
    /\ \/ bus = "ok" /\ feed # <<>> /\ feed' = Tail(feed)
          /\ Offer(<<Frame("tick", Head(feed).s, Head(feed).t)>>) /\ UNCHANGED bus
       \/ bus = "broken" /\ GoDark(TRUE) /\ UNCHANGED feed
    /\ UNCHANGED <<writerVars, redis, link, inbox, symbols, channels, handlerVars,
                   sending, pageVars, acts, faults>>

\* The sender takes a frame and the count of drops, and awaits the socket.
Take ==
    /\ sending = <<>> /\ out # <<>>
    /\ sending' = <<[frame |-> Head(out), n |-> dropped]>>
    /\ out' = Tail(out)
    /\ dropped' = 0
    /\ UNCHANGED <<writerVars, redis, link, inbox, sessionVars, feed, handlerVars, owed,
                   pageVars, acts, faults>>

-----------------------------------------------------------------------------
(* The page: web/src/live/store.ts and socket.ts.                          *)

\* A tick below the floor of its snapshot was in flight when that was read.
Accepts(d) == d.t >= floor[d.s]

Handles(f) ==
    CASE f.op = "live" ->
            enabled' = f.enabled /\ UNCHANGED <<floor, shown, budgetFull>>
      [] f.op = "error" ->
            budgetFull' = TRUE /\ UNCHANGED <<floor, shown, enabled>>
      [] f.op = "snap" ->
            /\ floor' = [floor EXCEPT ![f.d.s] = f.d.t]
            /\ shown' = [shown EXCEPT ![f.d.s] = f.d.t]
            /\ UNCHANGED <<enabled, budgetFull>>
      [] OTHER ->
            /\ shown' = IF Accepts(f.d) THEN [shown EXCEPT ![f.d.s] = f.d.t] ELSE shown
            /\ UNCHANGED <<floor, enabled, budgetFull>>

\* The socket delivers the report of the drops, then the frame.
Deliver ==
    /\ sending # <<>>
    /\ sending' = <<>>
    /\ Handles(sending[1].frame)
    /\ owed' = owed - 1 - sending[1].n
    /\ UNCHANGED <<writerVars, redis, link, inbox, sessionVars, feed, handlerVars, out,
                   dropped, retained, acts, faults>>

Asks(op, S) == IF link /\ S # {} THEN <<[op |-> op, symbols |-> S]>> ELSE <<>>

\* The first panel of a symbol.
Retain(s) ==
    /\ Act
    /\ s \notin retained
    /\ retained' = retained \cup {s}
    /\ inbox' = inbox \o Asks("sub", {s})
    /\ UNCHANGED <<writerVars, redis, link, sessionVars, feed, handlerVars, queueVars,
                   sending, budgetFull, enabled, floor, shown, faults>>

\* The last panel of a symbol; after a refusal the whole set is asked for again.
Release(s) ==
    LET rest == retained \ {s} IN
    /\ Act
    /\ s \in retained
    /\ retained' = rest
    /\ floor' = [floor EXCEPT ![s] = 0]
    /\ budgetFull' = FALSE
    /\ inbox' = inbox \o Asks("unsub", {s}) \o Asks("sub", IF budgetFull THEN rest ELSE {})
    /\ UNCHANGED <<writerVars, redis, link, sessionVars, feed, handlerVars, queueVars,
                   sending, enabled, shown, faults>>

\* The socket opens on a session of its own: _open_bus, the `live` frame, and
\* the whole set of symbols.
Connect ==
    /\ ~link
    /\ link' = TRUE
    /\ inbox' = IF retained = {} THEN <<>> ELSE <<[op |-> "sub", symbols |-> retained]>>
    /\ bus' = IF redis THEN "ok" ELSE "off"
    /\ Offer(<<Live(redis)>>)
    /\ UNCHANGED <<writerVars, redis, symbols, channels, feed, handlerVars, sending,
                   pageVars, acts, faults>>

\* The socket closes, for whatever reason, and the session with it.
Disconnect ==
    /\ link /\ Fault
    /\ link' = FALSE /\ inbox' = <<>> /\ symbols' = {} /\ channels' = {} /\ bus' = "off"
    /\ feed' = <<>> /\ handler' = "idle" /\ asked' = {} /\ read' = {}
    /\ out' = <<>> /\ dropped' = 0 /\ owed' = 0 /\ sending' = <<>>
    /\ UNCHANGED <<writerVars, redis, pageVars, acts>>

-----------------------------------------------------------------------------

Handle == Refuse \/ Subscribe \/ ReadQuotes \/ OfferSnaps \/ Unsubscribe

Stream == Collect \/ Write \/ Commit \/ Publish \/ \E s \in Symbols : Receive(s)

Next ==
    \/ Stream \/ RollsBack \/ RedisLost \/ RedisBack
    \/ Handle \/ Poll \/ Take \/ Deliver
    \/ Connect \/ Disconnect
    \/ \E s \in Symbols : Retain(s) \/ Release(s)

\* The tasks of a session run, the socket sends, and a page reconnects.
Fairness ==
    WF_vars(Handle) /\ WF_vars(Poll) /\ WF_vars(Take) /\ WF_vars(Deliver)
        /\ WF_vars(Connect)

Spec == Init /\ [][Next]_vars

FairSpec == Spec /\ Fairness

-----------------------------------------------------------------------------

TypeOK ==
    /\ clock \in 0 .. MaxTs /\ {latest, quotes, table, floor, shown} \subseteq Instants
    /\ archive \subseteq Tick /\ {queue, writing, feed} \subseteq Seq(Tick)
    /\ Len(queue) <= StreamMax /\ Len(out) <= QueueMax
    /\ phase \in {"idle", "collected", "written", "committed"} /\ batches \in 0 .. QuotesEvery - 1
    /\ {redis, link, budgetFull, enabled} \subseteq BOOLEAN
    /\ inbox \in Seq(ClientFrames)
    /\ {symbols, channels, asked, retained} \subseteq SUBSET Symbols
    /\ bus \in {"off", "ok", "broken", "dark"} /\ handler \in {"idle", "read", "offer"}
    /\ read \subseteq Tick /\ out \in Seq(ServerFrames) /\ {dropped, owed} \subseteq Nat
    /\ sending \in Seq([frame : ServerFrames, n : Nat])

\* A hole is never silent: every frame offered to a page has been delivered, is
\* queued, or is in a count of drops that the page has had or will have with
\* the next frame, and the queue is within its size.  (_offer, _take_dropped,
\* _sender, which await the socket while the other tasks offer.)
DropsAreCounted ==
    /\ Len(out) <= QueueMax
    /\ owed = Len(out) + dropped
                + IF sending = <<>> THEN 0 ELSE 1 + sending[1].n

\* Once a session has handled what the page sent it holds only symbols the page
\* still wants, within the ceiling, and with a live bus it listens to exactly
\* those: no channel outlives its panel and no symbol waits for a channel.
\* (_subscribe, _unsubscribe, retain, release.)
SessionFollowsPage ==
    /\ Cardinality(symbols) <= MaxSymbols
    /\ bus = "ok" => channels = symbols
    /\ link /\ inbox = <<>> => symbols \subseteq retained

\* What the fan-out carries to the page, and where it is.
Carried == {feed[i] : i \in DOMAIN feed} \cup
           {f.d : f \in {g \in {out[i] : i \in DOMAIN out} \cup {sending[i].frame : i \in DOMAIN sending} :
                             g.op = "tick"}}

\* "The page must never see a tick the archive does not have" (publish.py): so it is
\* for the ticks of the fan-out.  A price that the archive does not have, because its
\* tick is still queued, was dropped or is not to be kept, comes in a snapshot only,
\* and is one that live_quotes holds or held, committed: the row is never behind it.
\* (_on_result, _write, _write_quotes, publish, list_quotes.)
ShownIsStored ==
    /\ TypeOK
    /\ Carried \subseteq archive
    /\ \A s \in Symbols :
          \/ shown[s] <= table[s]
          \/ [s |-> s, t |-> shown[s]] \in archive

\* A bus that dies under a session that has symbols is told to the page, which
\* stops trusting its prices, unless the page drops off or the notice is among
\* the frames that it is told were dropped.  (_go_dark, _bus_reader, _sender.)
DarkIsTold ==
    bus = "broken" /\ symbols # {}
        ~> (~enabled \/ ~link \/ dropped > 0 \/ (sending # <<>> /\ sending[1].n > 0))
=============================================================================

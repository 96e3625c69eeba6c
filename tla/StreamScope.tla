----------------------------- MODULE StreamScope -----------------------------
(***************************************************************************)
(* Which symbol is streamed on which connection, and what is left of it    *)
(* when it leaves (src/yfin/stream/topology.py, connection.py, the rescan  *)
(* of supervisor.py, repository.py and `yfin stream scope`).               *)
(*                                                                         *)
(* The scope is a table the command line edits and the catalogue narrows   *)
(* and moves between exchanges.  The supervisor reads it at boot and on    *)
(* every rescan, plans connections that never carry two exchanges and      *)
(* never exceed Yahoo's quota, and closes, opens and replaces connections  *)
(* one await at a time.  Every connection dials, subscribes, reads and     *)
(* reconnects by itself, and leaves its health in a box; the writer thread *)
(* moves that box, and the box of newest ticks, to the tables at its own   *)
(* pace.  StreamIngest has the rest of what the writer does.               *)
(*                                                                         *)
(* Symbols are numbers because the planner sorts them.  A health row is    *)
(* its key; what it says of the connection, the back-off delays, the       *)
(* counters and the age of a heartbeat are left out.                       *)
(***************************************************************************)
EXTENDS Naturals, FiniteSets

CONSTANTS
    Symbols,        \* the symbols of the catalogue, in the planner's order
    Exchanges,      \* groups of symbols; the exchange of a symbol may be any
    PerConnection,  \* yf_stream_max_symbols_per_connection
    MaxConnections, \* yf_stream_max_connections
    Limit,          \* YAHOO_SUBSCRIPTION_LIMIT
    Canary,         \* yf_stream_canary_symbols
    Scopes,         \* the scopes a run may begin with
    Homes,          \* the exchanges the symbols may begin on
    Budgets         \* bound: how many edits of the scope and the catalogue, sockets
                    \*   refused, lost or silent, stops and messages a run may have

ASSUME ScopeAssumption ==
    /\ Symbols \subseteq Nat /\ IsFiniteSet(Symbols) /\ IsFiniteSet(Canary)
    /\ "none" \notin Exchanges
    /\ {PerConnection, MaxConnections, Limit} \subseteq Nat
    /\ PerConnection > 0
    /\ Scopes \subseteq [Symbols -> {"out", "quoted", "archived"}]
    /\ Homes \subseteq [Symbols -> Exchanges]
    /\ Budgets \subseteq [{"edits", "faults", "stops", "messages"} -> Nat]

\* An exchange that fits on one connection keeps its bare name, part 0 here;
\* otherwise part i + 1 stands for the suffix #i.
Keys == [exchange : Exchanges, part : 0 .. Cardinality(Symbols)]

NoKey == [exchange |-> "none", part |-> 0]

\* A scope as the supervisor reads it: what is asked of a symbol, and where.
Readings == [listed : [Symbols -> {"out", "quoted", "archived"}],
             exchange : [Symbols -> Exchanges]]

VARIABLES
    scope,      \* stream_scope: out is no row, quoted is archive = false
    active,     \* the symbols with symbols.is_active
    exchange,   \* symbols.exchange, after normalise_exchange
    disabling   \* symbols `scope disable` has deleted and not unquoted yet

VARIABLES
    sup,        \* off | idle | close | change | stop: what the supervisor does
    reading,    \* the last reading whose plan fits
    archived,   \* StreamSupervisor._archived
    toClose,    \* keys the rescan has still to close
    closed,     \* all the keys the rescan closes
    toChange,   \* keys the rescan has still to replace
    running,    \* _running: the symbols of the plan of each key, {} for none
    closing     \* the key whose task _close waits for, or NoKey

VARIABLES
    at,         \* where the task of a key is: none | dial | reading | quiet |
                \*   lost | backoff
    heard,      \* keys whose connection has had a message (last_message_at)
    healthBox,  \* HealthBox: keys with a row the writer has not taken
    box,        \* LatestBox: symbols with a tick the writer has not taken
    rows,       \* stream_connection_health rows of the unfinished session
    quotes,     \* live_quotes
    left        \* what is left of the budget

scopeVars == <<scope, active, exchange, disabling>>
planVars  == <<sup, reading, archived, toClose, closed, toChange, running, closing>>
connVars  == <<at, heard>>
boxVars   == <<healthBox, box, rows, quotes>>
vars == <<scopeVars, planVars, connVars, boxVars, left>>

NoRow == [s \in Symbols |-> "out"]

Init ==
    /\ scope \in Scopes /\ exchange \in Homes
    /\ active = Symbols /\ disabling = {}
    /\ sup = "off" /\ closing = NoKey
    /\ reading = [listed |-> NoRow, exchange |-> exchange]
    /\ archived = {} /\ toClose = {} /\ closed = {} /\ toChange = {}
    /\ running = [k \in Keys |-> {}]
    /\ at = [k \in Keys |-> "none"] /\ heard = {}
    /\ healthBox = {} /\ box = {} /\ rows = {} /\ quotes = {}
    /\ left \in Budgets

-----------------------------------------------------------------------------
(* Planning: topology.py, and the rows load_scope returns.                 *)

LoadScope ==
    [listed |-> [s \in Symbols |-> IF s \in active THEN scope[s] ELSE "out"],
     exchange |-> exchange]

Scoped(r) == {s \in Symbols : r.listed[s] # "out"}

Archived(r) == {s \in Symbols : r.listed[s] = "archived"}

Members(r, e) == {s \in Scoped(r) : r.exchange[s] = e}

CeilDiv(n, d) == (n + d - 1) \div d

\* Sorted members in chunks of PerConnection, a key for each chunk.
PlanConnections(r) ==
    [k \in Keys |->
        LET M == Members(r, k.exchange)
            Chunk(s) == Cardinality({t \in M : t < s}) \div PerConnection
        IN  IF CeilDiv(Cardinality(M), PerConnection) = 1
            THEN IF k.part = 0 THEN M ELSE {}
            ELSE {s \in M : k.part = Chunk(s) + 1}]

Used(plan) == {k \in Keys : plan[k] # {}}

\* Otherwise QuotaExceeded: symbols are never dropped to fit.
Fits(plan) ==
    /\ PerConnection <= Limit - Cardinality(Canary)
    /\ Cardinality(Used(plan)) <= MaxConnections

ToClose(plan) == Used(running) \ Used(plan)

ToOpen(plan) == Used(plan) \ Used(running)

\* Mutant: a connection is replaced when its subscription changed size.
ToChangeBySize(plan) ==
    {k \in Used(running) \cap Used(plan) :
        Cardinality(running[k]) # Cardinality(plan[k])}

ToChange(plan) == {k \in Used(running) \cap Used(plan) : running[k] # plan[k]}

-----------------------------------------------------------------------------
(* `yfin stream scope`, and the catalogue.                                 *)

Spend(what) == left[what] > 0 /\ left' = [left EXCEPT ![what] = @ - 1]

Edit == Spend("edits")

ScopeAdd(s, as) ==
    /\ Edit
    /\ scope[s] # as
    /\ scope' = [scope EXCEPT ![s] = as]
    /\ UNCHANGED <<active, exchange, disabling, planVars, connVars, boxVars>>

\* The scope row goes in one transaction, the quote in the next.
ScopeDisable(s) ==
    /\ Edit
    /\ disabling = {}
    /\ scope' = [scope EXCEPT ![s] = "out"]
    /\ disabling' = {s}
    /\ UNCHANGED <<active, exchange, planVars, connVars, boxVars>>

DisableQuotes ==
    /\ disabling # {}
    /\ quotes' = quotes \ disabling
    /\ disabling' = {}
    /\ UNCHANGED <<scope, active, exchange, planVars, connVars, healthBox, box, rows, left>>

\* A sync finds the symbol delisted.
Delist(s) ==
    /\ Edit
    /\ s \in active
    /\ active' = active \ {s}
    /\ UNCHANGED <<scope, exchange, disabling, planVars, connVars, boxVars>>

\* A sync learns the exchange of a symbol, or that it moved.
Moves(s, e) ==
    /\ Edit
    /\ exchange[s] # e
    /\ exchange' = [exchange EXCEPT ![s] = e]
    /\ UNCHANGED <<scope, active, disabling, planVars, connVars, boxVars>>

-----------------------------------------------------------------------------
(* The supervisor.  Nothing else of the event loop runs between two of its *)
(* awaits; the writer thread and the command line do.                      *)

Emit(K) == healthBox' = healthBox \cup K

\* What StreamSupervisor.run does before it sleeps, and the close_stale_sessions
\* of run_stream before it: rows of an earlier session are listed no more.
Boot ==
    LET plan == PlanConnections(LoadScope) IN
    /\ sup = "off"
    /\ Fits(plan)
    /\ sup' = "idle"
    /\ reading' = LoadScope
    /\ archived' = Archived(LoadScope)
    /\ running' = plan
    /\ at' = [k \in Keys |-> IF plan[k] = {} THEN "none" ELSE "dial"]
    /\ healthBox' = Used(plan)
    /\ rows' = {}
    /\ UNCHANGED <<scopeVars, toClose, closed, toChange, closing, heard, box, quotes, left>>

\* A plan that does not fit ends the process before its session opens.
BootRefused ==
    /\ sup = "off"
    /\ ~Fits(PlanConnections(LoadScope))
    /\ rows' = {}
    /\ UNCHANGED <<scopeVars, planVars, connVars, healthBox, box, quotes, left>>

\* A rescan whose plan does not fit changes nothing.
Rescan ==
    LET plan == PlanConnections(LoadScope) IN
    /\ sup = "idle"
    /\ Fits(plan)
    /\ sup' = "close"
    /\ reading' = LoadScope
    /\ toClose' = ToClose(plan) /\ closed' = ToClose(plan)
    /\ toChange' = ToChange(plan)
    /\ UNCHANGED <<scopeVars, archived, running, closing, connVars, boxVars, left>>

\* The keys the supervisor may turn to, in whichever order they sort.
Due == CASE sup = "close"  -> toClose
         [] sup = "change" -> toChange
         [] sup = "stop"   -> Used(running)
         [] OTHER          -> {}

\* _close up to its await: the entry is popped, the task told to stop and
\* cancelled.
BeginClose(k) ==
    /\ closing = NoKey
    /\ k \in Due
    /\ closing' = k
    /\ running' = [running EXCEPT ![k] = {}]
    /\ toClose' = toClose \ {k} /\ toChange' = toChange \ {k}
    /\ UNCHANGED <<scopeVars, sup, reading, archived, closed, connVars, boxVars, left>>

\* A cancellation that reaches the task while it discards a read is swallowed
\* there: the task then leaves its loop by itself, emitting its last states.
LastWords == {{}} \cup (IF at[closing] \in {"quiet", "lost"} THEN {{closing}} ELSE {})

\* The task of the closing key has ended, its socket closed.
Unwound ==
    LET starts == sup = "change" IN
    /\ closing # NoKey
    /\ closing' = NoKey
    /\ heard' = heard \ {closing}
    /\ at' = [at EXCEPT ![closing] = IF starts THEN "dial" ELSE "none"]
    /\ running' = IF starts
                  THEN [running EXCEPT ![closing] = PlanConnections(reading)[closing]]
                  ELSE running
    /\ \E last \in LastWords : Emit(last \cup IF starts THEN {closing} ELSE {})
    /\ UNCHANGED <<scopeVars, sup, reading, archived, toClose, closed, toChange, box,
                   rows, quotes, left>>

\* All closed: their health rows are forgotten and the new connections start.
Open ==
    LET plan == PlanConnections(reading) IN
    /\ sup = "close" /\ closing = NoKey /\ toClose = {}
    /\ rows' = rows \ closed
    /\ closed' = {}
    /\ running' = [k \in Keys |-> IF k \in ToOpen(plan) THEN plan[k] ELSE running[k]]
    /\ at' = [k \in Keys |-> IF k \in ToOpen(plan) THEN "dial" ELSE at[k]]
    /\ Emit(ToOpen(plan))
    /\ sup' = "change"
    /\ UNCHANGED <<scopeVars, reading, archived, toClose, toChange, closing, heard, box,
                   quotes, left>>

\* Mutant: a symbol that merely stops being archived loses its quote.
DepartedArchive == archived \ Archived(reading)

\* Only symbols that were archived are looked for among the departed.
Departed == archived \ Scoped(reading)

\* Mutant: the archive list only shrinks.
DepartShrinks ==
    /\ sup = "change" /\ closing = NoKey /\ toChange = {}
    /\ quotes' = quotes \ Departed
    /\ archived' = archived \ Departed
    /\ sup' = "idle"
    /\ UNCHANGED <<scopeVars, reading, toClose, closed, toChange, running, closing,
                   connVars, healthBox, box, rows, left>>

Depart ==
    /\ sup = "change" /\ closing = NoKey /\ toChange = {}
    /\ quotes' = quotes \ Departed
    /\ archived' = Archived(reading)
    /\ sup' = "idle"
    /\ UNCHANGED <<scopeVars, reading, toClose, closed, toChange, running, closing,
                   connVars, healthBox, box, rows, left>>

Stop == Spend("stops")

\* A stop signal, seen between two rescans, or a database error of a rescan:
\* load_scope, forget_connections or delete_quotes.  _close_all follows.
Ends ==
    /\ Stop
    /\ closing = NoKey
    /\ sup = "idle" \/ (sup \in {"close", "change"} /\ Due = {})
    /\ sup' = "stop"
    /\ UNCHANGED <<scopeVars, reading, archived, toClose, closed, toChange, running,
                   closing, connVars, boxVars>>

\* The memory of the process goes with it.
Forgotten ==
    /\ sup' = "off" /\ closing' = NoKey
    /\ archived' = {} /\ toClose' = {} /\ closed' = {} /\ toChange' = {}
    /\ running' = [k \in Keys |-> {}]
    /\ at' = [k \in Keys |-> "none"] /\ heard' = {}
    /\ healthBox' = {} /\ box' = {}
    /\ UNCHANGED <<scopeVars, reading, quotes>>

\* Every connection is closed, and so is the session: its rows are not listed.
Ended ==
    /\ sup = "stop" /\ closing = NoKey /\ Used(running) = {}
    /\ Forgotten
    /\ rows' = {}
    /\ UNCHANGED left

\* A kill leaves the session unfinished and the rows saying what they said.
Crash ==
    /\ Stop
    /\ sup # "off"
    /\ Forgotten
    /\ UNCHANGED rows

-----------------------------------------------------------------------------
(* The connections: connection.py.  A key being closed runs no further.    *)

Running(k) == k # closing /\ running[k] # {}

Goes(k, from, to) ==
    /\ Running(k) /\ at[k] \in from
    /\ at' = [at EXCEPT ![k] = to]
    /\ UNCHANGED <<scopeVars, planVars, heard, box, rows, quotes>>

Fault == Spend("faults")

Subscription(k) == running[k] \cup Canary

\* Connected and subscribed.
Opens(k) == Goes(k, {"dial"}, "reading") /\ Emit({k}) /\ UNCHANGED left

DialFails(k) == Goes(k, {"dial"}, "backoff") /\ Emit({k}) /\ Fault

\* The socket dies, or falls silent after a first message.
Loses(k) == Goes(k, {"reading"}, "lost") /\ Fault /\ UNCHANGED healthBox

\* _note_failure, once the socket is closed.
NotesFailure(k) == Goes(k, {"lost"}, "backoff") /\ Emit({k}) /\ UNCHANGED left

Redials(k) == Goes(k, {"backoff"}, "dial") /\ Emit({k}) /\ UNCHANGED left

\* Silence before the first message is a closed market: the pending read is
\* discarded and another one started.
Quiet(k) ==
    /\ k \notin heard
    /\ Goes(k, {"reading"}, "quiet") /\ Fault /\ UNCHANGED healthBox

ReadsOn(k) == Goes(k, {"quiet"}, "reading") /\ UNCHANGED <<healthBox, left>>

\* A message for a symbol of the subscription.  The canary proves the
\* connection healthy, and is data only where it is in the plan.
Hears(k, s) ==
    /\ Running(k) /\ at[k] = "reading"
    /\ s \in Subscription(k)
    /\ heard' = heard \cup {k}
    /\ Emit({k} \cap {j \in Keys : s \in Canary})
    /\ box' = box \cup ({s} \cap running[k])
    /\ Spend("messages")
    /\ UNCHANGED <<scopeVars, planVars, at, rows, quotes>>

-----------------------------------------------------------------------------
(* The writer thread.  Draining a box and writing a row is one step: what  *)
(* has been drained is written like what is still in the box.              *)

FlushHealth(k) ==
    /\ sup # "off"
    /\ k \in healthBox
    /\ healthBox' = healthBox \ {k}
    /\ rows' = rows \cup {k}
    /\ UNCHANGED <<scopeVars, planVars, connVars, box, quotes, left>>

WriteQuotes ==
    /\ sup # "off"
    /\ box # {}
    /\ box' = {}
    /\ quotes' = quotes \cup box
    /\ UNCHANGED <<scopeVars, planVars, connVars, healthBox, rows, left>>

-----------------------------------------------------------------------------

Supervise ==
    \/ Rescan \/ Unwound \/ Open \/ Depart \/ Ended
    \/ \E k \in Keys : BeginClose(k)

Connect(k) == Opens(k) \/ NotesFailure(k) \/ Redials(k)

Next ==
    \/ \E s \in Symbols :
        \/ \E as \in {"quoted", "archived"} : ScopeAdd(s, as)
        \/ ScopeDisable(s)
        \/ Delist(s)
        \/ \E e \in Exchanges : Moves(s, e)
    \/ DisableQuotes
    \/ Boot \/ BootRefused \/ Supervise \/ Ends \/ Crash
    \/ \E k \in Keys :
        \/ Connect(k) \/ DialFails(k) \/ Loses(k) \/ Quiet(k) \/ ReadsOn(k)
        \/ \E s \in Symbols \cup Canary : Hears(k, s)
        \/ FlushHealth(k)
    \/ WriteQuotes

\* The rescan timer fires, a cancelled task ends, a dial is answered or
\* refused, and a back-off delay is over; refusals are bounded, so that it
\* is enough to be fair to the connections together.
Fairness ==
    /\ WF_vars(Supervise)
    /\ WF_vars(\E k \in Keys : Connect(k))

Spec == Init /\ [][Next]_vars

FairSpec == Spec /\ Fairness

-----------------------------------------------------------------------------

TypeOK ==
    /\ scope \in [Symbols -> {"out", "quoted", "archived"}]
    /\ exchange \in [Symbols -> Exchanges]
    /\ {active, disabling, archived, box, quotes} \subseteq SUBSET Symbols
    /\ sup \in {"off", "idle", "close", "change", "stop"}
    /\ reading \in Readings
    /\ {toClose, closed, toChange, heard, healthBox, rows} \subseteq SUBSET Keys
    /\ running \in [Keys -> SUBSET Symbols]
    /\ closing \in Keys \cup {NoKey}
    /\ at \in [Keys -> {"none", "dial", "reading", "quiet", "lost", "backoff"}]

\* Between two rescans the running connections carry every symbol of the last
\* accepted reading, each on exactly one of them and none from two exchanges;
\* no subscription is longer than the head Yahoo keeps; and at every instant a
\* task, with its socket, runs only for an entry of _running or for the one
\* key being closed.  (plan_connections, plan_diff, _rescan, _close.)
SocketsFollowPlan ==
    /\ TypeOK
    /\ sup = "idle" =>
        /\ UNION {running[k] : k \in Keys} = Scoped(reading)
        /\ \A j, k \in Keys : j # k => running[j] \cap running[k] = {}
        /\ \A k \in Keys : \A s \in running[k] : reading.exchange[s] = k.exchange
    /\ \A k \in Used(running) : Cardinality(Subscription(k)) <= Limit
    /\ \A k \in Keys : at[k] # "none" <=> (running[k] # {} \/ k = closing)

\* A rescan touches only what changed: connections of an exchange whose members
\* are those of the last reading are neither closed nor replaced, and the
\* stream deletes a quote only when the symbol has left the scope, not when it
\* merely stopped being archived.  (plan_diff, _departed_symbols.)
RescanTakesWhatLeft ==
    [][/\ sup = "idle" /\ sup' = "close" =>
            \A k \in toClose' \cup toChange' :
                Members(reading, k.exchange) # Members(reading', k.exchange)
       /\ \A s \in quotes \ quotes' :
            s \in disabling \/ s \notin Scoped(reading)]_vars

\* Once edits, faults and restarts are over, a running stream ends up with
\* every scoped symbol on an open socket, and with its archive list up to
\* date, unless the scope does not fit.  (_rescan, StreamConnection.run.)
ScopeConverges ==
    <>[](sup # "off" /\ Fits(PlanConnections(LoadScope)) =>
            /\ archived = Archived(LoadScope)
            /\ \A s \in Scoped(LoadScope) : \E k \in Keys :
                    s \in running[k] /\ at[k] \in {"reading", "quiet"})
===============================================================================

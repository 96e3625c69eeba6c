-------------------------------- MODULE ApiReads --------------------------------
(***************************************************************************)
(* Paged reads: a caller walks one collection of the API to its end, by    *)
(* the cursor of each page (api/routers/v1/market.py and datasets.py), over *)
(* rows that syncs, activations and purges change between the pages.       *)
(*                                                                         *)
(* A row is known by the primary key of its table: `key`, the columns the  *)
(* route sorts on, and `rest`, the primary key's other columns.  A cursor  *)
(* is the sort key of the last row seen and a digest of the query; of the  *)
(* digest only the page size, which is in it, can differ within a walk.    *)
(* The symbol's row and the page are read by two statements, each of which *)
(* sees what was committed when it began.                                  *)
(***************************************************************************)
EXTENDS Integers, Sequences, FiniteSets, FiniteSetsExt

CONSTANTS Routes,      \* the names of the collections a behaviour may walk
          Values,      \* the values of a column of a sort key
          Caps,        \* the values PlanLimits.max_page_size may take
          Limits,      \* what a caller may send as ?limit=; Unasked for nothing
          DefaultSize  \* DEFAULT_PAGE_SIZE

VARIABLES left,   \* bounds: how many more of each kind of event may begin
          route,  \* the collection walked
          rows,   \* the rows its WHERE selects, committed
          listed, \* whether the symbol has a row in `symbols`
          cap,    \* the plan's page size cap
          walk,   \* the caller: what it asks, its cursor, the answer it got last
          got,    \* history: the rows received, and
          twice,  \*          those received more than once
          stayed  \* history: the rows selected ever since the walk began

Unasked == 0
NoCursor == [key |-> <<>>, size |-> 0]

--------------------------------------------------------------------------------
(* The routes: the direction of each column sorted on, whether an unlisted *)
(* symbol is a 404, and the values of the primary key outside the sort key. *)

Route(directions, ofSymbol, rest) == [directions |-> directions, ofSymbol |-> ofSymbol, rest |-> rest]

Symbols == Route(<<"asc">>, FALSE, {0})
Bars == Route(<<"asc">>, TRUE, {0})
Actions == Route(<<"asc", "asc">>, TRUE, {0})
Financials == Route(<<"desc", "asc">>, TRUE, {0})
\* A dataset that declares its whole primary key, but for what the query fixes.
Holders == Route(<<"desc", "desc">>, FALSE, {0})
\* EconomicCalendarDataset sorts on (event_time_utc, event_name); the primary key
\* of calendar_economic also has the region.
EconomicCalendar == Route(<<"desc", "desc">>, FALSE, {1, 2})

Collection ==
    [symbols |-> Symbols, bars |-> Bars, actions |-> Actions, financials |-> Financials,
     holders |-> Holders, economic_calendar |-> EconomicCalendar]

Keys == [1..Len(route.directions) -> Values]
Rows == [key : Keys, rest : route.rest]

\* Mutant: the row comparison of SQL, which knows one direction only.
KeysetAscending(after, key) ==
    \E i \in DOMAIN key : (\A j \in 1..(i - 1) : key[j] = after[j]) /\ key[i] > after[i]

\* _keyset, and the comparisons of reads.py: the key comes after the cursor's.
Keyset(after, key) ==
    \E i \in DOMAIN key :
        /\ \A j \in 1..(i - 1) : key[j] = after[j]
        /\ IF route.directions[i] = "desc" THEN key[i] < after[i] ELSE key[i] > after[i]

\* ORDER BY: the first column that tells them apart decides.
Sorted(one, other) ==
    one # other => LET i == Min({c \in DOMAIN one : one[c] # other[c]})
                   IN  (route.directions[i] = "asc") = (one[i] < other[i])

\* What ORDER BY and LIMIT may return: rows that come before all the others, equal
\* keys in any order.
Firsts(of, n) ==
    {page \in kSubset(Min({n, Cardinality(of)}), of) : \A p \in page, r \in of \ page : Sorted(p.key, r.key)}

--------------------------------------------------------------------------------
(* A page. *)

\* page_size: the cap is what the plan of this request says.
Size == IF walk.limit = Unasked THEN Min({DefaultSize, cap}) ELSE walk.limit

\* What the route answers before it reads the rows.
Answer ==
    IF route.ofSymbol /\ ~listed THEN 404
    ELSE IF Size > cap \/ walk.cursor \notin {NoCursor} \cup [key : Keys, size : {Size}] THEN 422
    ELSE 200

Spared(what) == left[what] > 0 /\ left' = [left EXCEPT ![what] = @ - 1]

\* The caller asks for the next page, with the limit it began with.
AskPage ==
    /\ walk.at = "idle"
    /\ Spared("pages")
    /\ walk' = [walk EXCEPT !.at = IF Answer = 200 THEN "reading" ELSE "idle",
                            !.answer = Answer, !.size = IF Answer = 200 THEN Size ELSE 0]
    /\ UNCHANGED <<route, rows, listed, cap, got, twice, stayed>>

\* query, list_bars and the others: one row more than the page is asked for.
ReadPage ==
    /\ walk.at = "reading"
    /\ LET selected == IF walk.cursor = NoCursor THEN rows
                       ELSE {r \in rows : Keyset(walk.cursor.key, r.key)}
           more == Cardinality(selected) > walk.size
       IN  \E page \in Firsts(selected, walk.size), last \in (IF more THEN Rows ELSE {<<>>}) :
             /\ more => last \in page /\ \A p \in page : Sorted(p.key, last.key)
             /\ got' = got \cup page
             /\ twice' = twice \cup (got \cap page)
             /\ walk' = [walk EXCEPT !.at = IF more THEN "idle" ELSE "done", !.size = 0,
                                     !.cursor = IF more THEN [key |-> last.key, size |-> walk.size]
                                                ELSE NoCursor]
    /\ UNCHANGED <<left, route, rows, listed, cap, stayed>>

--------------------------------------------------------------------------------
(* What changes under the walk. *)

\* A row is written, a symbol is activated, or the open end of a window moves on.
Enters(r) ==
    /\ Spared("edits")
    /\ r \notin rows /\ (route.ofSymbol => listed)
    /\ rows' = rows \cup {r}
    /\ UNCHANGED <<route, listed, cap, walk, got, twice, stayed>>

\* A row is deleted, a symbol is deactivated, or the window's start moves on.
Leaves(r) ==
    /\ Spared("edits")
    /\ rows' = rows \ {r}
    /\ stayed' = stayed \ {r}
    /\ UNCHANGED <<route, listed, cap, walk, got, twice>>

\* The symbol is purged with everything it owns.
Purged ==
    /\ Spared("edits")
    /\ route.ofSymbol /\ listed
    /\ listed' = FALSE
    /\ rows' = {}
    /\ stayed' = {}
    /\ UNCHANGED <<route, cap, walk, got, twice>>

\* The client is given another plan.
NewPlan(n) ==
    /\ Spared("edits")
    /\ cap' = n
    /\ n # cap
    /\ UNCHANGED <<route, rows, listed, walk, got, twice, stayed>>

--------------------------------------------------------------------------------
ReadStep ==
    \/ AskPage
    \/ ReadPage
    \/ \E r \in Rows : Enters(r)
    \/ \E r \in rows : Leaves(r)
    \/ Purged
    \/ \E n \in Caps : NewPlan(n)

ReadInit ==
    /\ route \in IF left["pages"] > 0 THEN {Collection[n] : n \in Routes} ELSE {Symbols}
    /\ rows \in IF left["pages"] > 0 THEN SUBSET Rows ELSE {{}}
    /\ listed = TRUE
    /\ cap \in IF left["pages"] > 0 THEN Caps ELSE {1}
    /\ \E limit \in IF left["pages"] > 0 THEN Limits ELSE {Unasked} :
         walk = [at |-> "idle", limit |-> limit, cursor |-> NoCursor, size |-> 0, answer |-> 200]
    /\ got = {}
    /\ twice = {}
    /\ stayed = rows

--------------------------------------------------------------------------------
(* The shapes of the reads. *)
ReadTypeOK ==
    /\ rows \subseteq Rows /\ got \subseteq Rows /\ twice \subseteq got
    /\ stayed \subseteq rows
    /\ listed \in BOOLEAN
    /\ walk.at \in {"idle", "reading", "done"} /\ walk.answer \in {200, 404, 422}
    /\ walk.cursor = NoCursor \/ walk.cursor \in [key : Keys, size : Nat]

\* Whatever is written, deleted or purged between the pages, and whatever plan the
\* client is given, no row is served twice in a walk, and a walk that was told it is
\* at the end has served every row that was there from its beginning to its end.
PagedOnce ==
    /\ twice = {}
    /\ walk.at = "done" => stayed \subseteq got
================================================================================

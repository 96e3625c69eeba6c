------------------------------ MODULE DatasetSync ------------------------------
(***************************************************************************)
(* What the datasets of the Catalogue do to the database: the row writer   *)
(* (storage/persistence.py), the gates in front of it (asof_base,          *)
(* hash_gated, snapshot_base), retention (pipeline/prune.py) and the purge *)
(* of a symbol (storage/purge.py).  A sync of a dataset is one step: its   *)
(* writes share a transaction.                                             *)
(*                                                                         *)
(* `plain` is the database a writer without a change collector would have  *)
(* left, `mirror` what a consumer of the change events has rebuilt.        *)
(***************************************************************************)
EXTENDS Catalogue, FiniteSetsExt, SequencesExt

CONSTANTS
    Groups,       \* a sequence of sets of datasets that share tables; a behaviour has one
    Owner,        \* the symbol, domain, term, screen or region that is synced
    Foreign,      \* a symbol that answers name and `symbols` may not have
    Sheets,       \* the cells an answer may have: sets of [part, item, val]
    MaxSyncs,     \* how many syncs a behaviour of each group has, and
    MaxDays,      \*   how many days they may take
    MaxPrunes, MaxPurges

ASSUME BoundsAssumption ==
    /\ MaxSyncs \in [DOMAIN Groups -> Nat] /\ MaxDays \in [DOMAIN Groups -> Nat \ {0}]
    /\ MaxPrunes \in Nat /\ MaxPurges \in Nat
    /\ Owner # Foreign

VARIABLES
    group,       \* which of them
    rows,        \* table -> its rows
    plain,       \* the same, written without a collector
    mirror,      \* table -> the contents rebuilt from the events
    gates,       \* <<dataset, part>> -> the row of its as-of gate
    universe,    \* the symbols in `symbols`
    told,        \* <<dataset, part>> -> what its last answer had, for the properties: its rows, and
                 \* the parts that were read when it was written
    now, day,    \* syncs so far; today
    prunes, purges

syncVars == <<group, rows, plain, mirror, gates, universe, told, now, day, prunes, purges>>

WritesOf(ds) == ToSet(ds.free \o ds.writes)
Mates        == Groups[group]
GroupWrites  == [g \in DOMAIN Groups |-> UNION {WritesOf(ds) : ds \in Groups[g]}]
GroupTables  == [g \in DOMAIN Groups |-> {w.table : w \in GroupWrites[g]}]
AllWrites    == GroupWrites[group]
Tables       == GroupTables[group]
Parts        == {"a", "b"}

(* What the datasets have in common.  The scope of a replace names columns    *)
(* of an answer, not of a row, unless the rows are the scope; the header of a *)
(* hash gate and its children, a snapshot and its history are two tables.     *)
Fields == {"owner", "day", "part", "item"}
WriteShape ==
    [table : STRING, key : SUBSET Fields, shape : {"one", "self", "list", "tag", "link"},
     mode : {"upsert", "replace"}, scope : SUBSET Fields, given : {"all", "read", "rows"},
     parts : SUBSET Parts, insert : SUBSET {"c", "d", "e"}, update : SUBSET {"c", "d", "e"},
     known : {"no", "yes", "marked"}]

SoundWrite(w) ==
    /\ w.shape \in {"list", "tag", "link"} => "item" \in w.key
    /\ w.table = "symbols" => w.key = {"item"} /\ w.shape \in {"self", "list"}
    /\ w.mode = "replace" =>
          /\ "day" \in w.key => "day" \in w.scope
          /\ "part" \in w.key /\ w.parts # Parts => "part" \in w.scope
          /\ w.given # "rows" =>
                /\ "item" \notin w.scope /\ w.parts # {}
                /\ w.shape = "list" \/ (w.shape = "one" /\ w.given = "all")

SoundDataset(ds) ==
    /\ ds.gate \in {"none", "asof", "hash", "snapshot"}
    /\ ds.free \in Seq(WriteShape) /\ ds.writes \in Seq(WriteShape)
    /\ \A w \in WritesOf(ds) : SoundWrite(w)
    /\ \A v, w \in WritesOf(ds) : v.table = w.table => v = w
    /\ ToSet(ds.free) \cap ToSet(ds.writes) = {}
    /\ ds.gate \in {"hash", "snapshot"} =>
          /\ Len(ds.writes) > 1 /\ ds.writes[1].table # ds.writes[2].table
          /\ ds.writes[1].shape = "one" /\ ds.writes[1].mode = "upsert"
    /\ ds.gate = "hash" =>
          /\ Len(ds.writes) = 2 /\ ds.writes[2].mode = "replace" /\ ds.writes[2].shape = "list"
          /\ ds.writes[2].scope = ds.writes[1].key /\ ds.writes[1].parts \subseteq ds.writes[2].parts
    /\ ds.gate = "snapshot" => ds.writes[2].shape = "one" /\ ds.writes[2].mode = "upsert"

\* Tables filled from one block of an answer are empty together.
Block(t) ==
    CASE t \in {"news", "news_symbols"} -> "news"
      [] t \in {"research_reports", "domain_report_links", "search_report_hits"} -> "reports"
      [] t \in {"symbols", "search_quotes", "lookup_results", "screen_members", "screen_quotes"} -> "quotes"
      [] OTHER -> t

\* A link is written with what it links to, of the same answer, and what it links to stays.
Links == {<<"news_symbols", "news">>, <<"domain_report_links", "research_reports">>,
          <<"search_report_hits", "research_reports">>}
SoundLinks(ds) ==
    /\ \A w \in WritesOf(ds) : w.table \in {"news", "research_reports"} =>
          w.shape = "list" /\ w.mode = "upsert" /\ w.key = {"item"} /\ w.parts = Parts
    /\ \A p \in Links : \A w \in {x \in WritesOf(ds) : x.table = p[1]} :
          /\ ds.gate \in {"none", "asof"} /\ ~ds.regional
          /\ w.shape \in {"list", "tag", "link"} /\ "part" \notin w.key
          /\ \E v \in WritesOf(ds) : v.table = p[2] /\ (w \in ToSet(ds.free) => v \in ToSet(ds.free))

\* A gate answers for what is stored behind it: nobody else writes there, no clean-up but its own.
CalendarTables == {"calendar_earnings", "calendar_economic", "calendar_ipo", "calendar_splits"}
TreatedByName == CalendarTables \cup {"symbols", "news", "research_reports", "screen_quotes"}
Screens == {"screen_runs", "screen_members"}
SoundHash(ds) ==
    LET head == ds.writes[1]  child == ds.writes[2]
    IN  /\ "owner" \in head.key /\ "item" \notin head.key /\ head.key \subseteq child.key
        /\ "c" \in head.insert \cap head.update \cap child.insert
        /\ {head.table, child.table} \cap TreatedByName = {}
        /\ {head.table, child.table} \cap Screens # {} =>
              head.table = "screen_runs" /\ child.table = "screen_members" /\ "day" \in head.key
SoundSnapshot(ds) ==
    LET snap == ds.writes[1]  hist == ds.writes[2]
    IN  /\ "owner" \in snap.key /\ snap.key \cap {"day", "item"} = {} /\ hist.key = snap.key \cup {"day"}
        /\ hist.parts = snap.parts /\ hist.given = snap.given
        /\ "c" \in snap.insert \cap snap.update \cap hist.insert \cap hist.update
        /\ {snap.table, hist.table} \cap (TreatedByName \cup Screens) = {}
        /\ \A w \in {snap, hist} : Block(w.table) # "none" /\
              \A x \in WritesOf(ds) : x.shape # "one" => Block(x.table) # Block(w.table)
Dated(ds) == {w \in ToSet(ds.writes) : "day" \in w.key}
SoundAsOf(ds) ==
    \A w \in Dated(ds) :
        /\ w.shape \in {"one", "list"} /\ w.insert = w.update /\ w.parts # {}
        /\ w.mode = "replace" /\ w.given = "rows" => w.scope \subseteq {"owner", "day"}
        /\ w.given = "read" => /\ w.shape = "list" /\ "part" \in w.key
                               /\ w.mode = "replace" => "part" \in w.scope
        /\ ds.regional => w.given = "read"
        /\ w.table \notin TreatedByName \cup Screens
SoundGate(ds) ==
    CASE ds.gate = "hash" -> SoundHash(ds) [] ds.gate = "snapshot" -> SoundSnapshot(ds)
      [] ds.gate = "asof" -> SoundAsOf(ds) [] OTHER -> TRUE

\* Two datasets: none writes behind the hash or the snapshot of the other, and dated tables are shared by part.
Apart(ds, e) ==
    /\ ds.gate \in {"hash", "snapshot"} => \A v \in WritesOf(e) : v.table \notin {ds.writes[1].table, ds.writes[2].table}
    /\ ds.gate = "asof" =>
          /\ e.gate = "asof" => ds.name # e.name
          /\ \A w \in Dated(ds) : \A v \in {x \in WritesOf(e) : x.table = w.table} :
                /\ "part" \in w.key /\ v.parts \cap w.parts = {}
                /\ v.shape \in {"one", "list"} /\ v.insert = w.insert /\ v.update = w.update
                /\ ds \in SymbolDatasets <=> e \in SymbolDatasets

\* Datasets that share a table agree on its key; a screen has its members beside its runs.
ASSUME GroupsAssumption ==
    \A g \in DOMAIN Groups :
        /\ \A ds \in Groups[g] : SoundDataset(ds) /\ SoundLinks(ds) /\ SoundGate(ds)
        /\ \A ds \in Groups[g] : \A e \in Groups[g] \ {ds} : Apart(ds, e)
        /\ \A v, w \in GroupWrites[g] : v.table = w.table => v.key = w.key
        /\ "screen_runs" \in GroupTables[g] => "screen_members" \in GroupTables[g]

\* The writer keeps one row per key (dedupe_rows), so an answer tells a cell once.
ASSUME SheetsAssumption ==
    \A cells \in Sheets : \A x, y \in cells : x.part = y.part /\ x.item = y.item => x = y

Content(r) == [key |-> r.key, c |-> r.c, d |-> r.d, e |-> r.e, known |-> r.known]
Contents(S) == {Content(r) : r \in S}
Keys(S)     == {r.key : r \in S}

--------------------------------------------------------------------------------
(* Answers.  What was read: the parts, their cells, and perhaps one block    *)
(* that came back empty.                                                     *)

Answers(ds) ==
    [read  : IF ds.regional THEN {{p} : p \in Parts}
             ELSE IF \E w \in WritesOf(ds) : w.given = "read" THEN {Parts, {"a"}} ELSE {Parts},
     cells : Sheets,
     short : {"none"} \cup {Block(w.table) : w \in {x \in WritesOf(ds) : x.shape # "one"}}]

CellsOf(w, ans) ==
    {c \in ans.cells : /\ Block(w.table) # ans.short
                       /\ c.part \in w.parts \cap ans.read
                       /\ (w.shape = "list" /\ "part" \notin w.key) => c.part = "a"
                       /\ w.shape \in {"tag", "link"} => \E x \in ans.cells : x.part = "a" /\ x.item = c.item}

Key(w, o, d, p, i) ==
    [owner |-> IF "owner" \in w.key THEN o ELSE "-", day |-> IF "day" \in w.key THEN d ELSE 0,
     part  |-> IF "part" \in w.key THEN p ELSE "-",  item |-> IF "item" \in w.key THEN i ELSE "-"]

\* The symbol an is_known flag is about.
Named(w, k) == IF w.shape \in {"tag", "link"} THEN k.owner ELSE IF k.item = "-" THEN Foreign ELSE k.item
Flag(w, k)  == w.known = "yes" \/ (w.known = "marked" /\ Named(w, k) \in universe)

\* The parts an answer has a row for: what was read, or, in a list of parts, what was offered.
Spoken(w, ans) == ans.read \cup IF w.given = "all" THEN {c.part : c \in ans.cells} ELSE {}

(* The rows of write w; `from` is the write whose cells they tell of: w, or,  *)
(* for the header of a hash gate, its child.                                  *)
RowsFrom(w, from, ans, d) ==
    LET cs == CellsOf(from, ans)
        About(p) == {<<c.item, c.val>> : c \in {x \in cs : "part" \in w.key => x.part = p}}
        Row(k, body) == [key |-> k, c |-> IF "c" \in w.insert THEN body ELSE {},
                         d |-> IF "d" \in w.insert THEN body ELSE {},
                         e |-> IF "e" \in w.insert THEN body ELSE {},
                         known |-> Flag(w, k), seen |-> now + 1]
        Tags == {Row(Key(w, IF c.part = "a" THEN Owner ELSE Foreign, d, "-", c.item), {}) : c \in cs}
    IN  CASE w.shape = "one"  -> {Row(Key(w, Owner, d, p, "-"), About(p)) :
                                     p \in IF "part" \in w.key THEN w.parts \cap Spoken(w, ans) ELSE {"-"}}
          [] w.shape = "self" -> {Row(Key(w, "-", d, "-", Owner), About("-"))}
          [] w.shape = "list" -> {Row(Key(w, Owner, d, c.part, c.item), {<<c.item, c.val>>}) : c \in cs}
          [] w.shape = "tag"  -> Tags
          [] w.shape = "link" -> Tags \cup {Row(Key(w, Owner, d, "-", c.item), {}) : c \in cs}

RowsOf(w, ans, d) == RowsFrom(w, w, ans, d)

Scopes(w, new, ans, d) ==
    CASE w.given = "rows" -> Keys(new)
      [] w.given = "all"  -> {Key(w, Owner, d, p, "-") : p \in w.parts}
      [] w.given = "read" -> {Key(w, Owner, d, p, "-") : p \in w.parts \cap ans.read}

InScope(k, w, scopes) == \E s \in scopes : \A f \in w.scope : k[f] = s[f]

--------------------------------------------------------------------------------
(* The row writer.  A statement is a write with its rows and its scopes, and  *)
(* the rows of which it moves fetched_at alone.  No dataset writes a table    *)
(* twice, so the statements of a sync are a set.                              *)

Stmt(w, new, scopes, touched) == [w |-> w, rows |-> new, scopes |-> scopes, touched |-> touched]
StmtOf(w, ans, d) == LET new == RowsOf(w, ans, d) IN Stmt(w, new, Scopes(w, new, ans, d), {})

Replaced(T, s) == {r \in T : s.w.mode = "replace" /\ InScope(r.key, s.w, s.scopes)}

\* Without a collector: the scope is deleted, then the rows are upserted.
Upserted(o, n, w) ==
    [key |-> o.key, c |-> IF "c" \in w.update THEN n.c ELSE o.c,
     d |-> IF "d" \in w.update THEN n.d ELSE o.d,
     e |-> IF "e" \in w.update THEN n.e ELSE o.e, known |-> n.known, seen |-> n.seen]

Pairs(T, S) == {p \in T \X S : p[1].key = p[2].key}
New(T, S)   == LET stored == Keys(T) IN {n \in S : n.key \notin stored}
Seen(o, n)  == [o EXCEPT !.seen = n.seen]

PlainWrite(T, s) ==
    LET left == T \ Replaced(T, s)
        answered == Keys(s.rows \cup s.touched)
    IN  {r \in left : r.key \notin answered}
        \cup New(left, s.rows)
        \cup {Upserted(p[1], p[2], s.w) : p \in Pairs(left, s.rows)}
        \cup {Seen(p[1], p[2]) : p \in Pairs(left, s.touched)}

\* Mutant: an upsert overwrites every column, those of another dataset too.
EffectiveAll(w) == {"c", "d", "e"}

(* With one: only the keys the answer no longer has are deleted, so the      *)
(* update of a replaced row covers every column that is no key and not       *)
(* volatile, and a row whose columns are equal is no event.                  *)
Effective(w) == IF w.mode = "replace" THEN {"c", "d", "e"} ELSE w.update

Removed(T, s) == LET new == Keys(s.rows) IN {r \in Replaced(T, s) : r.key \notin new}
\* Mutant: the predicate compares the columns of the answer and forgets is_known.
ForgetsFlag(T, s) == {p \in Pairs(T, s.rows) : \E col \in Effective(s.w) : p[1][col] # p[2][col]}

\* Rows before and after, where the predicate lets the update through.
Moved(T, s) ==
    {p \in Pairs(T, s.rows) : \/ \E col \in Effective(s.w) : p[1][col] # p[2][col]
                             \/ p[1].known # p[2].known}
Update(o, n, w) ==
    [key |-> o.key, c |-> IF "c" \in Effective(w) THEN n.c ELSE o.c,
     d |-> IF "d" \in Effective(w) THEN n.d ELSE o.d,
     e |-> IF "e" \in Effective(w) THEN n.e ELSE o.e, known |-> n.known,
     seen |-> IF w.mode = "replace" THEN o.seen ELSE n.seen]
Returned(T, s) == New(T, s.rows) \cup {Update(p[1], p[2], s.w) : p \in Moved(T, s)}
\* The volatile columns of the rows the predicate held back.
TouchVolatile(T, s) == {Seen(p[1], p[2]) : p \in Pairs(T, s.rows) \ Moved(T, s)}

CollectedWrite(T, s) ==
    LET answered == Keys(s.rows \cup s.touched)
    IN  ({r \in T : r.key \notin answered} \ Removed(T, s))
        \cup Returned(T, s) \cup TouchVolatile(T, s)
        \cup {Seen(p[1], p[2]) : p \in Pairs(T, s.touched)}

\* Mutant: the deletes of a replaced scope are no event.
DeafToDeletes(M, T, s) ==
    LET returned == Returned(T, s)
    IN  {x \in M : x.key \notin Keys(returned)} \cup Contents(returned)

\* The events of a statement, applied by a consumer.
Heard(M, T, s) ==
    LET returned == Returned(T, s)
        heard == Keys(Removed(T, s) \cup returned)
    IN  {x \in M : x.key \notin heard} \cup Contents(returned)

After(T, written) == IF written = {} THEN T ELSE UNION written

--------------------------------------------------------------------------------
(* The gates. *)

NoGate == [hash |-> {}, day |-> 0]
Gate(ds, ans) == <<ds.name, IF ds.regional THEN CHOOSE p \in ans.read : TRUE ELSE "*">>
GateKeys == {<<ds.name, p>> : ds \in {x \in Mates : x.gate = "asof"}, p \in Parts \cup {"*"}}

Undated(k) == [owner |-> k.owner, day |-> 0, part |-> k.part, item |-> k.item]
Dateless(S) == {[key |-> Undated(r.key), c |-> r.c, d |-> r.d, e |-> r.e, known |-> r.known] : r \in S}

\* The hash is of the marked rows, without the columns that move on every run.
Digest(ds, ans) == {<<w.table, Dateless(RowsOf(w, ans, day))>> : w \in ToSet(ds.writes)}

IsEmpty(ds, ans) == \A w \in ToSet(ds.writes) : RowsOf(w, ans, day) = {}

Stmts(ws, ans) == {StmtOf(w, ans, day) : w \in ws}

\* Behind the gate everything or nothing is written; the day of the gate row moves with it.
AsOfStmts(ds, ans, open) ==
    Stmts(ToSet(ds.free), ans) \cup IF open THEN Stmts(ToSet(ds.writes), ans) ELSE {}

FreshRows(w, new, full) == {n \in new : full \/ ~\E r \in rows[w.table] : r.key = n.key /\ r.c = n.c}

\* The header rows decide each for its own children; the others are written every time.
HashStmts(ds, ans, full) ==
    LET head == ds.writes[1]
        new == RowsFrom(head, ds.writes[2], ans, day)
        moved == FreshRows(head, new, full)
        child == [ds.writes[2] EXCEPT !.mode = "replace", !.scope = head.key]
        kids == {r \in RowsOf(child, ans, day) : InScope(r.key, child, Keys(moved))}
    IN  {Stmt(head, moved, {}, new \ moved), Stmt(child, kids, Keys(moved), {})}
        \cup Stmts(ToSet(ds.free), ans)

\* A history row for each snapshot whose hash moved, compared before the snapshot is written.
SnapshotStmts(ds, ans, full) ==
    LET snap == ds.writes[1]  hist == ds.writes[2]
        moved == FreshRows(snap, RowsOf(snap, ans, day), full)
        kept == {h \in RowsOf(hist, ans, now + 1) : \E n \in moved : n.key.part = h.key.part}
    IN  Stmts(ToSet(ds.writes) \ {hist}, ans) \cup {Stmt(hist, kept, {}, {})}

StmtsOf(ds, ans, full, open) ==
    CASE ds.gate \in {"none", "asof"} -> AsOfStmts(ds, ans, open)
      [] ds.gate = "hash"             -> HashStmts(ds, ans, full)
      [] ds.gate = "snapshot"         -> SnapshotStmts(ds, ans, full)

--------------------------------------------------------------------------------
(* A sync of one dataset.  A symbol is synced while it is in `symbols`; an    *)
(* answer without a row writes nothing, its gate included.                    *)

SyncOf(ds, ans, full) ==
    LET gated == ds.gate = "asof" /\ ~IsEmpty(ds, ans)
        digest == IF gated THEN Digest(ds, ans) ELSE {}
        gate == Gate(ds, ans)
        open == gated /\ (full \/ gates[gate].hash # digest)
    IN  [gated |-> gated, open |-> open, gate |-> gate, digest |-> digest, read |-> ans.read,
         stmts |-> StmtsOf(ds, ans, full, open)]

Commit(sync) ==
    LET On(t) == {s \in sync.stmts : s.w.table = t}
    IN  /\ sync.gated \/ \E s \in sync.stmts : s.rows # {}
        /\ rows' = [t \in Tables |-> After(rows[t], {CollectedWrite(rows[t], s) : s \in On(t)})]
        /\ plain' = [t \in Tables |-> After(plain[t], {PlainWrite(plain[t], s) : s \in On(t)})]
        /\ mirror' = [t \in Tables |-> After(mirror[t], {Heard(mirror[t], rows[t], s) : s \in On(t)})]
        /\ gates' = IF sync.open THEN [gates EXCEPT ![sync.gate] = [hash |-> sync.digest, day |-> day]]
                    ELSE gates
        /\ told' = IF ~sync.gated THEN told
                   ELSE [told EXCEPT ![sync.gate] = [read |-> IF sync.open THEN sync.read ELSE @.read,
                                                     rows |-> sync.digest]]
        /\ universe' = universe \cup UNION {{r.key.item : r \in s.rows} : s \in On("symbols")}

Sync(ds) ==
    /\ now < MaxSyncs[group] /\ now' = now + 1
    /\ ds \in SymbolDatasets => Owner \in universe
    /\ \E ans \in Answers(ds), full \in IF ds.gate = "none" THEN {FALSE} ELSE BOOLEAN :
          \E sync \in {SyncOf(ds, ans, full)} : Commit(sync)
    /\ UNCHANGED <<group, day, prunes, purges>>

\* Another run puts a symbol into the universe.
AddSymbol(x) ==
    /\ x \notin universe /\ universe' = universe \cup {x}
    /\ LET r == [key |-> [owner |-> "-", day |-> 0, part |-> "-", item |-> x], c |-> {}, d |-> {}, e |-> {},
                 known |-> FALSE, seen |-> now]
           With(db, v) == [t \in Tables |-> IF t # "symbols" THEN db[t] ELSE {y \in db[t] : y.key # v.key} \cup {v}]
       IN  rows' = With(rows, r) /\ plain' = With(plain, r) /\ mirror' = With(mirror, Content(r))
    /\ UNCHANGED <<group, gates, told, now, day, prunes, purges>>

NextDay ==
    /\ day < MaxDays[group] /\ day' = day + 1
    /\ UNCHANGED <<group, rows, plain, mirror, gates, universe, told, now, prunes, purges>>

--------------------------------------------------------------------------------
(* Retention.  `yfin prune` passes no collector: what it deletes is no event. *)

AsOfTables == {w.table : w \in UNION {ToSet(ds.writes) : ds \in {x \in Mates : x.gate = "asof"}}}
HistoryTables == {ds.writes[2].table : ds \in {x \in Mates : x.gate = "snapshot"}}
Days(S) == {r.key.day : r \in S}

\* Mutant: only the newest day is kept, as if each run wrote one.
ProtectsNewest(t, S, before) == IF S # {} THEN {Max(Days(S))} ELSE {}

\* The gate's day of every dataset that writes the table, and the newest day if all are old.
Protected(t, S, before) ==
    {gates[<<ds.name, p>>].day :
        ds \in {x \in Mates : x.gate = "asof" /\ \E w \in ToSet(x.writes) : w.table = t},
        p \in Parts \cup {"*"}}
    \cup (IF S # {} /\ Max(Days(S)) < before THEN {Max(Days(S))} ELSE {})

PruneAsOf(t, S, before) ==
    {r \in S : r.key.day < before /\ r.key.day \notin Protected(t, S, before)}

\* Runs go with members only; the newest run of a screen and the newest quote of a symbol stay.
PruneScreens(db, t, before) ==
    LET newest == Max({0} \cup Days(db["screen_runs"]))
        members == {r \in db["screen_members"] : r.key.day < before /\ r.key.day # newest}
    IN  CASE t = "screen_members" -> members
          [] t = "screen_runs" -> {r \in db[t] : members # {} /\ r.key.day < before /\ r.key.day # newest}
          [] t = "screen_quotes" -> {r \in db[t] : r.key.day < before /\
                                        \E s \in db[t] : s.key.item = r.key.item /\ s.key.day > r.key.day}
          [] OTHER -> {}

Linked(db, ts) == UNION {{r.key.item : r \in db[t]} : t \in ts \cap Tables}
OrphanNews(db) == {r \in db["news"] : r.key.item \notin Linked(db, {"news_symbols"})}
OrphanReports(db) ==
    {r \in db["research_reports"] :
        r.key.item \notin Linked(db, {"domain_report_links", "search_report_hits"})}

\* before: a day; since: a moment, for the histories; past: the calendar events that are over.
RunPrune(db, before, since, past) ==
    LET first == [t \in Tables |-> db[t] \ (IF t = "news" THEN OrphanNews(db) ELSE {})]
        dated == [t \in Tables |->
                    {r \in first[t] : ~(t \in CalendarTables /\ r.key.item \in past)}
                    \ ({r \in first[t] : t \in HistoryTables /\ r.key.day < since}
                       \cup (IF t \in AsOfTables /\ (\A w \in AllWrites : w.table = t => "day" \in w.key)
                             THEN PruneAsOf(t, first[t], before) ELSE {})
                       \cup (IF "screen_runs" \in Tables THEN PruneScreens(first, t, before) ELSE {}))]
    IN  [t \in Tables |-> dated[t] \ (IF t = "research_reports" THEN OrphanReports(dated) ELSE {})]

Prune ==
    /\ prunes < MaxPrunes /\ prunes' = prunes + 1
    /\ \E before \in 1..day, since \in IF HistoryTables = {} THEN {0} ELSE 0..(now + 1),
          past \in IF CalendarTables \cap Tables = {} THEN {{}} ELSE {{}, {Foreign}} :
          /\ rows' = RunPrune(rows, before, since, past)
          /\ plain' = RunPrune(plain, before, since, past)
    /\ UNCHANGED <<group, mirror, gates, universe, told, now, day, purges>>

(* `yfin symbols purge`, without a collector as well: every table with a      *)
(* foreign key to `symbols`, gates included, the links to news, the symbol.   *)
Scoped == {w.table : w \in {x \in UNION {WritesOf(ds) : ds \in Mates \cap SymbolDatasets} : "owner" \in x.key}}

Purge ==
    /\ purges < MaxPurges /\ Owner \in universe /\ Mates \cap SymbolDatasets # {}
    /\ purges' = purges + 1 /\ universe' = universe \ {Owner}
    /\ LET Without(db) == [t \in Tables |->
              {r \in db[t] : /\ t \in Scoped => r.key.owner # Owner
                             /\ t = "symbols" => r.key.item # Owner}]
       IN  rows' = Without(rows) /\ plain' = Without(plain)
    /\ LET lost == {ds.name : ds \in Mates \cap SymbolDatasets}
       IN  /\ gates' = [g \in DOMAIN gates |-> IF g[1] \in lost THEN NoGate ELSE gates[g]]
           /\ told' = [g \in DOMAIN told |-> IF g[1] \in lost THEN [read |-> {}, rows |-> {}] ELSE told[g]]
    /\ UNCHANGED <<group, mirror, now, day, prunes>>

SyncInit ==
    /\ group \in DOMAIN Groups /\ universe = {Owner}
    /\ LET r == [key |-> [owner |-> "-", day |-> 0, part |-> "-", item |-> Owner], c |-> {}, d |-> {}, e |-> {},
                 known |-> FALSE, seen |-> 0]
       IN  /\ rows = [t \in Tables |-> IF t = "symbols" THEN {r} ELSE {}]
           /\ plain = rows /\ mirror = [t \in Tables |-> Contents(rows[t])]
    /\ gates = [g \in GateKeys |-> NoGate]
    /\ told = [g \in GateKeys |-> [read |-> {}, rows |-> {}]]
    /\ now = 0 /\ day = 1 /\ prunes = 0 /\ purges = 0

SyncNext ==
    \/ \E ds \in Mates : Sync(ds)
    \/ \E s \in {Owner, Foreign} : AddSymbol(s)
    \/ NextDay \/ Prune \/ Purge

SyncSpec == SyncInit /\ [][SyncNext]_syncVars

--------------------------------------------------------------------------------
(* Properties. *)

\* Types, and the primary key of every table.
SyncTypeOK ==
    /\ group \in DOMAIN Groups /\ universe \subseteq {Owner, Foreign} \cup {c.item : c \in UNION Sheets}
    /\ now \in 0..MaxSyncs[group] /\ day \in 1..MaxDays[group]
    /\ \A t \in Tables : \A r, s \in rows[t] : r.key = s.key => r = s
    /\ \A g \in DOMAIN gates : gates[g].day \in 0..day

(* Deleting only the keys that are gone and updating the rest in place leaves *)
(* what deleting the scope and inserting the answer would have left, whatever *)
(* was stored, marked or left out in between (persistence.py:189, :489).      *)
DiffIsReplace == \A t \in Tables : Contents(rows[t]) = Contents(plain[t])

(* Outside the replaced tables, fetched_at included: a row held back because  *)
(* nothing in it changed is touched by a second statement.                    *)
SeenAsPlain ==
    \A t \in Tables : (\A w \in AllWrites : w.table = t => w.mode = "upsert") => rows[t] = plain[t]

(* In a replaced table the fetched_at of a row is a plain write's as well, but *)
(* for the rows a sync moves: they keep the one they had (the widened update   *)
(* of persistence.py:199 has no volatile column), until a sync finds them as   *)
(* they are stored.                                                            *)
Replaces(ds, t) == \E w \in WritesOf(ds) : w.table = t /\ w.mode = "replace"
Reworded(t) == {p \in rows[t] \X rows'[t] : p[1].key = p[2].key /\ Content(p[1]) # Content(p[2])}
FetchedAtLags ==
    [][now' # now => \E ds \in Mates : \A t \in Tables :
          /\ Replaces(ds, t) => \A p \in Reworded(t) : p[2].seen = p[1].seen
          /\ \A r \in rows'[t], q \in plain'[t] : r.key = q.key /\ r.seen # q.seen =>
                \/ r \in rows[t] /\ q \in plain[t]
                \/ Replaces(ds, t) /\ \E p \in Reworded(t) : p[2] = r]_syncVars

(* A consumer of the events has every row as it is stored: no change of a     *)
(* column, of a flag or by a second dataset on the same row goes unreported.  *)
MirrorKeepsUp == \A t \in Tables : {x \in mirror[t] : x.key \in Keys(rows[t])} = Contents(rows[t])

(* What else it has.  A sync leaves it no row that it deleted; every row that  *)
(* retention or the purge deletes stays with it, until a sync writes its key   *)
(* again: the two commands pass no collector (cli/app.py:294,                  *)
(* cli/symbols.py:151), though their functions would report to one.            *)
Ghosts(t)  == {x \in mirror[t] : x.key \notin Keys(rows[t])}
Deleted(t) == {x \in Contents(rows[t]) : x.key \notin Keys(rows'[t])}
DeletesTold ==
    [][\A t \in Tables :
          Ghosts(t)' = {x \in Ghosts(t) : x.key \notin Keys(rows'[t])}
                       \cup IF now' # now THEN {} ELSE Deleted(t)]_syncVars

(* Behind an as-of gate, the rows at the day of the gate row are the last     *)
(* answer: after answers that changed nothing and wrote nothing, a full       *)
(* refresh, other datasets on the same tables, and retention.                 *)
Latest(w, g) ==
    {x \in rows[w.table] :
        /\ x.key.day = gates[g].day
        /\ x.key.part \in w.parts \cup {"-"}
        /\ w.given = "read" => x.key.part \in told[g].read}
LatestIsAnswer ==
    \A ds \in {x \in Mates : x.gate = "asof"} : \A g \in {x \in DOMAIN gates : x[1] = ds.name} :
        \A w \in {x \in ToSet(ds.writes) : "day" \in x.key} :
            LET stored == Dateless(Latest(w, g))
                answer == UNION {x[2] : x \in {y \in told[g].rows : y[1] = w.table}}
            IN  told[g].rows # {} =>
                  IF w.mode = "replace" /\ (w.given # "rows" \/ answer # {})
                  THEN stored = answer ELSE answer \subseteq stored

(* The hash of a header is that of its children as they are stored, so that   *)
(* an answer it calls unchanged has nothing to write.                         *)
HeaderTellsChildren ==
    \A ds \in {x \in Mates : x.gate = "hash"} :
        LET head == ds.writes[1]  child == [ds.writes[2] EXCEPT !.scope = head.key]
        IN  \A h \in rows[head.table] :
                h.c = UNION {r.c : r \in {x \in rows[child.table] : InScope(x.key, child, {h.key})}}

\* The newest row of a history is the snapshot, and while nothing is pruned there is one.
HistoryEndsAtSnapshot ==
    \A ds \in {x \in Mates : x.gate = "snapshot"} : \A s \in rows[ds.writes[1].table] :
        LET past == {h \in rows[ds.writes[2].table] : h.key.part = s.key.part}
        IN  /\ prunes = 0 => past # {}
            /\ \A h \in past : h.key.day = Max(Days(past)) => h.c = s.c

\* No link outlives what it links to, in whichever order syncs, retention and purge come.
LinksHaveParents ==
    \A p \in Links : p[1] \in Tables => Linked(rows, {p[1]}) \subseteq Linked(rows, {p[2]})

(* A sync leaves alone the days behind it, the parts of a shared table that   *)
(* are another dataset's, and the columns another dataset fills.              *)
Own(ds, t, k) ==
    {w \in WritesOf(ds) : w.table = t /\ k.part \in w.parts \cup {"-"} /\ k.day \in {0, day, now + 1}}
OthersKept ==
    [][now' # now => \E ds \in Mates : \A t \in Tables :
          /\ \A n \in rows'[t] \ rows[t] : Own(ds, t, n.key) # {}
          /\ \A r \in rows[t] \ rows'[t] : \E w \in Own(ds, t, r.key) :
                w.mode = "upsert" =>
                    \E n \in rows'[t] : n.key = r.key /\ \A col \in {"c", "d", "e"} \ w.update : n[col] = r[col]]_syncVars

(* A sync is told apart from a naive one by nothing that is stored, but for   *)
(* the fetched_at of the rows it moved in a table it replaces.                *)
StoredAsPlain == [](DiffIsReplace /\ SeenAsPlain) /\ FetchedAtLags

(* A gate that finds an answer unchanged hides nothing that changed.          *)
GatesHideNothing == LatestIsAnswer /\ HeaderTellsChildren /\ HistoryEndsAtSnapshot

(* The events say what the syncs did, and nothing of what the two clean-up     *)
(* commands did: a consumer's copy is the stored rows and those they deleted.  *)
EventsTell == []MirrorKeepsUp /\ DeletesTold

(* The tables hold together, whichever datasets, prunes and purges share them. *)
TablesHold == [](SyncTypeOK /\ LinksHaveParents) /\ OthersKept
================================================================================

------------------------------ MODULE BarArchive ------------------------------
(***************************************************************************)
(* The intraday archive of one symbol and one interval:                    *)
(* src/yfin/datasets/bars.py (the window planner and the gap ledger),      *)
(* storage/rescale.py (the split ledger), pipeline/persist.py (the symbol  *)
(* transaction) and stream/reconcile.py (gaps filled from ticks).          *)
(*                                                                         *)
(* A sync run plans its windows from the watermark and the open gaps,      *)
(* fetches them one by one, fetches the splits afterwards, and writes      *)
(* everything in one transaction that first applies the splits it finds    *)
(* pending.  Yahoo serves every bar at its current split scale and keeps   *)
(* bars for Depth days; the archive has to keep both facts from showing.   *)
(*                                                                         *)
(* Time is counted in days.  The price of a bar is what matters of it: for *)
(* each split, how often it has been applied to the bar.                   *)
(***************************************************************************)
EXTENDS Integers, FiniteSets

CONSTANTS
    PerRequest,   \* BAR_LIMITS: the longest window of one request
    Depth,        \* BAR_LIMITS: how far back Yahoo serves the interval
    Overlap,      \* yf_bar_overlap_days
    LastDay,      \* bound: the calendar ends
    Splits,       \* bound: the days on which the symbol splits
    Holidays,     \* days without a bar
    TickDays,     \* days of which live_ticks has prices
    HandRanges,   \* bound: fetches of an explicit --start/--end
    MaxFaults     \* bound: requests that fail and runs that are lost

Days == 0 .. LastDay

ASSUME ArchiveAssumption ==
    /\ PerRequest \in Nat \ {0} /\ Depth \in Nat \ {0} /\ Overlap \in Nat
    /\ LastDay \in Nat /\ Depth <= LastDay
    /\ Splits \subseteq Days /\ Holidays \subseteq Days /\ TickDays \subseteq Days
    /\ HandRanges \in Nat /\ MaxFaults \in Nat

NoDay == -1

\* Reasons of a gap; with the day it starts on, the key of its row: a retention
\* gap starts at the last bar's time, a failed window at midnight.
Reasons == {"fetch_failed", "retention_expired"}

VARIABLES
    today,      \* the date in UTC
    effective,  \* splits Yahoo's scale includes
    bars,       \* price_bars: the days that have bars
    scale,      \* how often each split has been applied to a day's bars
    astray,     \* history variable: bars whose scale and the ledger came apart
    gaps,       \* bar_gaps: rows by key, their end and whether they are resolved
    splits,     \* rows of the splits table
    applied,    \* rows of bar_rescales
    run,        \* a sync run of the symbol: what its fetches returned
    since,      \* history variable: the first day the archive was asked for
    trimmed,    \* history variable: days cut off the end of a resolved row
    faults,     \* failed requests so far
    ranges      \* explicit ranges fetched so far

yahooVars  == <<today, effective>>
archive    == <<bars, scale, astray, since>>
ledgers    == <<gaps, trimmed, splits, applied>>
boundVars  == <<faults, ranges>>

vars == <<yahooVars, archive, ledgers, run, boundVars>>

Newest(S) == CHOOSE d \in S : \A e \in S : e <= d
Oldest(S) == CHOOSE d \in S : \A e \in S : d <= e

\* The scale at which Yahoo serves the bars of day d.
Served(d, E) == [s \in Splits |-> IF s \in E /\ d < s THEN 1 ELSE 0]

Unscaled == [s \in Splits |-> 0]

NoRow == [end |-> NoDay, state |-> "none"]

\* What the bars dataset handed over: nothing, or the windows it got and
\* missed, the retention gap, the open gaps it had read and Yahoo's scale.
NoBars == [some |-> FALSE, got |-> {}, failed |-> {}, lost |-> FALSE,
           watermark |-> NoDay, open |-> {}, at |-> {}]

IdleRun == [at |-> "idle", bars |-> NoBars, splits |-> {}]

Init ==
    /\ today = Depth
    /\ effective = {s \in Splits : s < today}
    /\ bars = {} /\ astray = {} /\ since = NoDay
    /\ scale = [d \in Days |-> Unscaled]
    /\ gaps = [k \in Days \X Reasons |-> NoRow] /\ trimmed = {}
    /\ splits = {} /\ applied = {}
    /\ run = IdleRun
    /\ faults = 0 /\ ranges = 0

-------------------------------------------------------------------------------
(* The planner.                                                            *)

Watermark == IF bars = {} THEN NoDay ELSE Newest(bars)

Earliest == today - Depth

\* GapReader: the failed windows that are not resolved.
OpenGaps == {d \in Days : gaps[<<d, "fetch_failed">>].state = "open"}

\* _merge joins ranges that overlap or touch: the stretch of D from day a on.
Stretch(D, a) == {d \in D : a <= d /\ (a .. d) \subseteq D}

\* _slice: the stretch from day a on is cut into requests of PerRequest days.
Slices(S, a) ==
    {{d \in S : c <= d /\ d < c + PerRequest} :
        c \in {d \in S : (d - a) % PerRequest = 0}}

Windows(D) == UNION {Slices(Stretch(D, a), a) : a \in {d \in D : (d - 1) \notin D}}

\* Windows end at today, exclusively.
Until(d) == d .. (today - 1)

\* Mutant: the planner does not look at the gaps.
PlannedFromWatermark ==
    IF bars = {} THEN Until(Earliest)
    ELSE Until(IF Watermark - Overlap < Earliest THEN Earliest ELSE Watermark - Overlap)

\* plan_windows: the days an incremental run asks for.  A gap is asked for one
\* day beyond its end while its start is still served.
Planned ==
    IF bars = {} THEN Until(Earliest)
    ELSE Until(IF Watermark - Overlap < Earliest THEN Earliest ELSE Watermark - Overlap)
         \cup UNION {Until(d) \cap (d .. gaps[<<d, "fetch_failed">>].end) :
                        d \in {g \in OpenGaps : g >= Earliest}}

\* The watermark has left the days Yahoo serves.
Lost == bars # {} /\ Watermark - Overlap < Earliest

-------------------------------------------------------------------------------
(* Yahoo and the calendar.                                                 *)

\* A split takes effect at Yahoo on its day, at any time of it.
YahooSplits(s) ==
    /\ s = today /\ s \notin effective
    /\ effective' = effective \cup {s}
    /\ UNCHANGED <<today, archive, ledgers, run, boundVars>>

\* A run takes less than a day.
NextDay ==
    /\ today < LastDay /\ run.at = "idle"
    /\ today \in Splits => today \in effective
    /\ today' = today + 1
    /\ UNCHANGED <<effective, archive, ledgers, run, boundVars>>

-------------------------------------------------------------------------------
(* A sync run.                                                             *)

\* Fetch of the windows, each in an error boundary of its own.  Yahoo answers
\* "no data" only where there is none.  With no window left and a real error
\* the dataset fails as a whole and hands over nothing.
Fetch(days, lost, open) ==
    \E windows \in {Windows(days)} :
        \E errors \in SUBSET windows :
            LET empty == {w \in windows \ errors : w \subseteq Holidays}
                got == windows \ (errors \cup empty)
            IN  /\ faults + Cardinality(errors) <= MaxFaults
                /\ faults' = faults + Cardinality(errors)
                /\ run' = [at |-> "fetched", splits |-> {},
                           bars |-> IF got = {} /\ errors # {} THEN NoBars
                                    ELSE [some |-> TRUE, got |-> got,
                                          failed |-> errors \cup empty,
                                          lost |-> lost, watermark |-> Watermark,
                                          open |-> open, at |-> effective]]

\* IntervalBarDataset.fetch of a scheduled run.
FetchBars ==
    /\ run.at = "idle"
    /\ Fetch(Planned, Lost, OpenGaps)
    /\ UNCHANGED <<yahooVars, archive, ledgers, ranges>>

\* A run with --start/--end, or with --full-refresh, which reads no watermark
\* and so asks for all that is served: watermark and gaps do not plan, but the
\* gaps are still handed over.
FetchRange ==
    /\ run.at = "idle" /\ ranges < HandRanges
    /\ \E a, b \in Days : Earliest <= a /\ a <= b /\ b < today
                          /\ Fetch(a .. b, FALSE, OpenGaps)
    /\ ranges' = ranges + 1
    /\ UNCHANGED <<yahooVars, archive, ledgers>>

\* A run of other datasets, or a symbol out of the interval's scope.
FetchNoBars ==
    /\ run.at = "idle"
    /\ run' = [IdleRun EXCEPT !.at = "fetched"]
    /\ UNCHANGED <<yahooVars, archive, ledgers, boundVars>>

\* The splits come after the bars (registration order) from the daily frame.
FetchSplits ==
    /\ run.at = "fetched"
    /\ \/ /\ run' = [run EXCEPT !.at = "ready", !.splits = effective]
          /\ UNCHANGED faults
       \/ /\ run' = [run EXCEPT !.at = "ready"]
          /\ faults < MaxFaults /\ faults' = faults + 1
    /\ UNCHANGED <<yahooVars, archive, ledgers, ranges>>

\* pending_splits: rows without a ledger entry, newer than the oldest bar.
Pending == {s \in splits \ applied : \E d \in bars : d < s}

\* _apply_one, for every pending split: bars before its day, in one UPDATE.
Rescaled(d) ==
    IF d \in bars
    THEN [s \in Splits |-> scale[d][s] + IF s \in Pending /\ d < s THEN 1 ELSE 0]
    ELSE scale[d]

\* The bars of the windows that were fetched.
Frame(b) == (UNION b.got) \ Holidays

WriteBars(b) ==
    /\ bars' = bars \cup Frame(b)
    /\ since' = IF bars = {} /\ Frame(b) # {} THEN Oldest(UNION (b.got \cup b.failed))
                ELSE since

\* Mutant: the rows are rescaled after they were written.
ScaleAfter(b) ==
    scale' = [d \in Days |->
        IF d \in bars \cup Frame(b)
        THEN [s \in Splits |-> (IF d \in Frame(b) THEN Served(d, b.at)[s] ELSE scale[d][s])
                               + IF s \in Pending /\ d < s THEN 1 ELSE 0]
        ELSE scale[d]]

\* rescale_before_bars: what the run brings is at Yahoo's scale already.
Scale(b) ==
    scale' = [d \in Days |-> IF d \in Frame(b) THEN Served(d, b.at) ELSE Rescaled(d)]

\* A bar stored at a scale that includes a split the ledger does not have yet
\* will be divided by it once more: the splits are stored after the bars.
Stray(b) ==
    astray' = {p \in astray : p[1] \notin Frame(b)}
              \cup {p \in Frame(b) \X (b.at \ (applied \cup Pending)) : p[1] < p[2]}

\* The days a gap may miss bars of: a retention gap starts behind the last
\* bar of its first day.
Span(k) == (IF k[2] = "fetch_failed" THEN k[1] ELSE k[1] + 1) .. (gaps[k].end - 1)

\* _resolve_writes: the open gaps whose start lies in a fetched window.
Closed(b) == {<<d, "fetch_failed">> : d \in b.open \cap UNION b.got}

\* The rows of _gap_writes: failed windows and the retention gap.
Recorded(b) ==
    {[key |-> <<Oldest(w), "fetch_failed">>, end |-> Newest(w) + 1] : w \in b.failed}
    \cup IF b.lost THEN {[key |-> <<b.watermark, "retention_expired">>, end |-> Earliest]}
         ELSE {}

\* What a resolved row no longer spans once it has been recorded anew.
Trim ==
    trimmed' = trimmed \cup UNION {Span(k) \ Span(k)' :
                                     k \in {g \in DOMAIN gaps : gaps[g].state = "closed"}}

\* Mutant: a failed window leaves no row.
WriteOnlyClosed(b) ==
    /\ gaps' = [k \in DOMAIN gaps |->
           IF k \in Closed(b) THEN [gaps[k] EXCEPT !.state = "closed"] ELSE gaps[k]]
    /\ Trim

\* Upserts by key: recording moves the end of a row and never reopens it.
WriteGaps(b) ==
    /\ gaps' = [k \in DOMAIN gaps |->
           IF k \in Closed(b) THEN [gaps[k] EXCEPT !.state = "closed"]
           ELSE IF \E r \in Recorded(b) : r.key = k
           THEN [end |-> (CHOOSE r \in Recorded(b) : r.key = k).end,
                 state |-> IF gaps[k].state = "none" THEN "open" ELSE gaps[k].state]
           ELSE gaps[k]]
    /\ Trim

\* persist_symbol, one transaction: rescale, bars, gaps, splits.
Persist ==
    /\ run.at = "ready"
    /\ IF run.bars.some
       THEN /\ Scale(run.bars) /\ Stray(run.bars)
            /\ WriteBars(run.bars) /\ WriteGaps(run.bars)
            /\ applied' = applied \cup Pending
       ELSE UNCHANGED <<archive, gaps, trimmed, applied>>
    /\ splits' = splits \cup run.splits
    /\ run' = IdleRun
    /\ UNCHANGED <<yahooVars, boundVars>>

\* The transaction rolls back, or the shard dies with the payload.
LoseRun ==
    /\ run.at # "idle" /\ faults < MaxFaults
    /\ run' = IdleRun /\ faults' = faults + 1
    /\ UNCHANGED <<yahooVars, archive, ledgers, ranges>>

-------------------------------------------------------------------------------
(* The other writers of the archive.                                       *)

\* `yfin bars rescale --symbol`, which takes no lock: it may fall between a
\* run's fetch and its transaction.
RescaleByHand ==
    /\ Pending # {}
    /\ scale' = [d \in Days |-> Rescaled(d)]
    /\ applied' = applied \cup Pending
    /\ UNCHANGED <<yahooVars, bars, astray, since, gaps, trimmed, splits, run, boundVars>>

\* `yfin bars rescale --seed`, at any time: the splits of the table count as
\* applied.  That is right for the bars stored with them and wrong for others.
SeedBaseline ==
    /\ splits \ applied # {}
    /\ LET older == {p \in bars \X (splits \ applied) : p[1] < p[2]}
       IN  astray' = (astray \ older) \cup (older \ astray)
    /\ applied' = splits
    /\ UNCHANGED <<yahooVars, bars, scale, since, gaps, trimmed, splits, run, boundVars>>

\* GapReconciler._close under the sync lock: bars of the days that have ticks
\* and no bar, at the scale they were traded at, whatever the ledger has since;
\* any of them closes the gap.
Reconcile(k) ==
    /\ run.at = "idle" /\ gaps[k].state = "open"
    /\ LET new == (Span(k) \cap TickDays) \ (bars \cup Holidays)
       IN  /\ new # {}
           /\ bars' = bars \cup new
           /\ scale' = [d \in Days |-> IF d \in new THEN Unscaled ELSE scale[d]]
           /\ astray' = astray \cup {p \in new \X applied : p[1] < p[2]}
    /\ gaps' = [gaps EXCEPT ![k].state = "closed"]
    /\ UNCHANGED <<yahooVars, since, trimmed, splits, applied, run, boundVars>>

-------------------------------------------------------------------------------

SyncStep == FetchBars \/ FetchSplits \/ Persist

Next ==
    \/ SyncStep
    \/ FetchRange \/ FetchNoBars \/ LoseRun
    \/ \E s \in Splits : YahooSplits(s)
    \/ NextDay
    \/ RescaleByHand \/ SeedBaseline
    \/ \E k \in DOMAIN gaps : Reconcile(k)

Spec == Init /\ [][Next]_vars

\* The sync job of the interval is scheduled for ever, and a run that began is
\* worked off.
FairSpec ==
    /\ Spec
    /\ SF_vars(FetchBars)
    /\ WF_vars(FetchSplits \/ Persist)

-------------------------------------------------------------------------------
(* Properties.                                                             *)

Payload ==
    [some : BOOLEAN, got : SUBSET SUBSET Days, failed : SUBSET SUBSET Days,
     lost : BOOLEAN, watermark : Days \cup {NoDay}, open : SUBSET Days,
     at : SUBSET Splits]

\* Types of the variables.
TypeOK ==
    /\ today \in Days /\ effective \subseteq Splits
    /\ bars \subseteq Days /\ astray \subseteq bars \X Splits
    /\ since \in Days \cup {NoDay}
    /\ scale \in [Days -> [Splits -> Nat]]
    /\ gaps \in [Days \X Reasons ->
                   [end : Days \cup {NoDay}, state : {"none", "open", "closed"}]]
    /\ trimmed \subseteq Days /\ splits \subseteq Splits /\ applied \subseteq Splits
    /\ run \in [at : {"idle", "fetched", "ready"}, bars : Payload, splits : SUBSET Splits]
    /\ faults \in 0 .. MaxFaults /\ ranges \in 0 .. HandRanges

\* "the archive's scale must be kept consistent" (rescale.py:4): once a split is
\* in the ledger, every bar before it has been divided exactly once, by Yahoo
\* or by the rescale, and no other bar has, but for the bars that went astray
\* by a step of their own: stored at a scale whose split was not in the ledger
\* yet, made from ticks of before a split that was, or passed over by a seed.
\* Each of those is wrong, so the exception is no wider than the fault.
OneScale ==
    \A s \in applied : \A d \in bars :
        scale[d][s] = (IF d < s THEN 1 ELSE 0) <=> <<d, s>> \notin astray

\* Days the archive has passed without bars, beyond the reach of the overlap.
Holes ==
    {d \in Days \ Holidays : /\ bars # {} /\ since <= d /\ d < Watermark - Overlap
                             /\ d \notin bars}

\* "once Yahoo's window has passed that cannot be reconstructed, so it is
\* recorded at the time" (models/bars.py:162): in an archive that scheduled runs
\* alone have written, every hole is a row of the ledger.  Only a row that was
\* resolved can lose days of it again, to a second failure on its first day.
HolesOnLedger ==
    ranges = 0 =>
        \A d \in Holes \ trimmed :
            \E k \in DOMAIN gaps : gaps[k].state # "none" /\ d \in Span(k)

\* The ledger is well formed and names every hole.
LedgerHolds == TypeOK /\ HolesOnLedger

\* The open gaps that Yahoo can still fill.
Retriable == {d \in OpenGaps \ Holidays : Earliest <= d}

\* "A successful slice must close open gaps inside it, or a gap once written is
\* re-fetched on every run" (bars.py:326): the work list is worked off again
\* and again, whatever fails in between.
GapsAreRetried == []<>(Retriable = {})
===============================================================================

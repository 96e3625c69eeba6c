--------------------------- MODULE BarArchiveProofs ---------------------------
(***************************************************************************)
(* Proofs about BarArchive, for every length of window, retention and      *)
(* overlap, every calendar and every set of splits, holidays and ticks.    *)
(*                                                                         *)
(* OneScale holds whatever the operator does and in whatever order splits  *)
(* and bars come in; its inductive form, Ledger, says what the table of    *)
(* splits, the ledger, Yahoo's scale and the payload of a run have to do   *)
(* with each other, and at which scale a bar waits for a split that is not *)
(* in the ledger.                                                          *)
(*                                                                         *)
(* LedgerHolds rests on Recall: the windows of a plan partition it, so all *)
(* that a scheduled run asked for is in a bar or in a recorded window, and *)
(* a row gives up days only where it was resolved (trimmed) or where the   *)
(* plan has them.                                                          *)
(***************************************************************************)
EXTENDS BarArchive, FiniteSetTheorems, WellFoundedInduction, TLAPS

\* The days a run asks for are over, each of its windows has one, and no gap
\* reaches beyond today.
Calendar ==
    /\ Depth <= today
    /\ bars \subseteq 0 .. (today - 1)
    /\ \A w \in run.bars.got \cup run.bars.failed : w # {} /\ w \subseteq 0 .. (today - 1)
    /\ run.at = "idle" => run = IdleRun
    /\ \A k \in DOMAIN gaps : gaps[k].end <= today

Typed == TypeOK /\ Calendar

\* Only splits Yahoo has made are in the table, and only those of the table in
\* the ledger; a run's bars are at a scale that includes those of the table.
Books ==
    /\ applied \subseteq splits /\ splits \subseteq effective /\ run.splits \subseteq effective
    /\ run.bars.some => splits \subseteq run.bars.at

\* A split that is not in the ledger is in the scale of a bar that went astray
\* with it, and in that of no other.
Divided ==
    \A s \in Splits \ applied : \A d \in bars :
        scale[d][s] = IF <<d, s>> \in astray THEN 1 ELSE 0

\* A bar goes astray only with a later split, and has never been divided by an
\* earlier one.
Later ==
    /\ \A p \in astray : p[1] < p[2]
    /\ \A d \in bars, s \in Splits : s <= d => scale[d][s] = 0

Ledger == Typed /\ Books /\ Divided /\ Later /\ OneScale

-------------------------------------------------------------------------------
(* Days, and the windows of the planner.                                   *)

Less == {p \in Nat \X Nat : p[1] < p[2]}

\* A set of naturals has a least element.
LEMMA LeastExists ==
    ASSUME NEW S \in SUBSET Nat, S # {}
    PROVE  \E x \in S : \A y \in S : x <= y
<1>1. IsWellFoundedOn(Less, Nat)
  BY NatLessThanWellFounded DEF OpToRel, Less
<1>2. PICK x \in S : \A y \in S : ~ (<<y, x>> \in Less)
  BY <1>1, WFMin
<1>3. ASSUME NEW y \in S PROVE x <= y
  <2>1. x \in Nat /\ y \in Nat
    OBVIOUS
  <2>2. y < x => <<y, x>> \in Less
    BY <2>1 DEF Less
  <2> QED BY <1>2, <2>1, <2>2
<1> QED BY <1>3

\* The oldest of some days is one of them.
LEMMA OldestIs ==
    ASSUME NEW S \in SUBSET Days, S # {}
    PROVE  Oldest(S) \in S /\ \A d \in S : Oldest(S) <= d
<1>1. S \in SUBSET Nat
  BY DEF Days
<1>2. \E x \in S : \A y \in S : x <= y
  BY <1>1, LeastExists
<1> QED BY <1>2 DEF Oldest

\* The newest of some days is one of them.
LEMMA NewestIs ==
    ASSUME NEW S \in SUBSET Days, S # {}
    PROVE  Newest(S) \in S /\ \A d \in S : d <= Newest(S)
<1> DEFINE T == {LastDay - d : d \in S}
<1>1. \A d \in S : d \in Nat /\ d <= LastDay /\ LastDay \in Nat
  BY ArchiveAssumption DEF Days
<1>2. T \in SUBSET Nat /\ T # {}
  BY <1>1
<1>3. PICK x \in T : \A y \in T : x <= y
  BY <1>2, LeastExists
<1>4. PICK n \in S : x = LastDay - n
  OBVIOUS
<1>5. ASSUME NEW d \in S PROVE d <= n
  <2>1. LastDay - n <= LastDay - d
    BY <1>3, <1>4
  <2> QED BY <2>1, <1>1
<1> QED BY <1>5 DEF Newest

\* A window holds days that were asked for, at least one.
LEMMA WindowsOf ==
    ASSUME NEW D \in SUBSET Days, NEW w \in Windows(D)
    PROVE  w \subseteq D /\ w # {}
<1>1. PICK a \in D : w \in Slices(Stretch(D, a), a)
  BY DEF Windows
<1>2. PICK c \in Stretch(D, a) :
          w = {d \in Stretch(D, a) : c <= d /\ d < c + PerRequest}
  BY <1>1 DEF Slices
<1>3. Stretch(D, a) \subseteq D
  BY DEF Stretch
<1>4. c \in Int /\ PerRequest \in Int /\ PerRequest > 0
  <2>1. c \in Days
    BY <1>3
  <2> QED BY <2>1, ArchiveAssumption DEF Days
<1>5. c \in w
  BY <1>2, <1>4
<1> QED BY <1>2, <1>3, <1>5

\* What an incremental run asks for is over.
LEMMA PlannedIsOver ==
    ASSUME Typed
    PROVE  Planned \in SUBSET (0 .. (today - 1))
<1> USE ArchiveAssumption
<1>1. today \in Int /\ Depth <= today /\ Earliest \in Nat
  BY DEF Typed, TypeOK, Calendar, Earliest, Days
<1>2. \A d \in Nat : Until(d) \subseteq 0 .. (today - 1)
  BY <1>1 DEF Until
<1>3. \A d \in Days : Until(d) \cap (d .. gaps[<<d, "fetch_failed">>].end)
                          \subseteq 0 .. (today - 1)
  BY <1>2 DEF Days
<1>4. OpenGaps \subseteq Days
  BY DEF OpenGaps
<1>5. CASE bars = {}
  BY <1>1, <1>2, <1>5 DEF Planned
<1>6. CASE bars # {}
  <2>1. Watermark \in Days
    BY <1>6, NewestIs DEF Watermark, Typed, TypeOK
  <2>2. Watermark - Overlap \in Int
    BY <2>1 DEF Days
  <2>3. (IF Watermark - Overlap < Earliest THEN Earliest ELSE Watermark - Overlap) \in Nat
    BY <2>2, <1>1
  <2>4. Until(IF Watermark - Overlap < Earliest THEN Earliest ELSE Watermark - Overlap)
            \subseteq 0 .. (today - 1)
    BY <2>3, <1>2
  <2> QED BY <1>3, <1>4, <1>6, <2>4 DEF Planned
<1> QED BY <1>5, <1>6

\* What a sync run of the symbol may look like.
Runs == [at : {"idle", "fetched", "ready"}, bars : Payload, splits : SUBSET Splits]

\* The watermark is a day, or none.
LEMMA WatermarkIs == ASSUME TypeOK PROVE Watermark \in Days \cup {NoDay}
BY NewestIs DEF Watermark, TypeOK

LEMMA WindowsFinite == ASSUME NEW F \in SUBSET SUBSET Days PROVE Cardinality(F) \in Nat
<1>1. IsFiniteSet(Days)
  BY FS_Interval, ArchiveAssumption DEF Days
<1>2. IsFiniteSet(SUBSET Days)
  BY <1>1, FS_SUBSET
<1> QED BY <1>2, FS_Subset, FS_CardinalityType

\* A fetch hands over a well-typed payload: windows of the days asked for.
LEMMA FetchHandsOver ==
    ASSUME Typed, NEW D \in SUBSET (0 .. (today - 1)), NEW lost \in BOOLEAN,
           NEW open \in SUBSET Days, Fetch(D, lost, open)
    PROVE  /\ faults' \in 0 .. MaxFaults
           /\ run' \in Runs /\ run'.at = "fetched" /\ run'.splits = {}
           /\ \A w \in run'.bars.got \cup run'.bars.failed :
                  w # {} /\ w \subseteq 0 .. (today - 1)
           /\ run'.bars.some => run'.bars.at = effective
           /\ run'.bars.lost => lost
<1> USE ArchiveAssumption
<1>1. D \in SUBSET Days
  BY DEF Typed, TypeOK, Days
<1>a. PICK windows \in {Windows(D)} : \E errors \in SUBSET windows :
          LET empty == {w \in windows \ errors : w \subseteq Holidays}
              got == windows \ (errors \cup empty)
          IN  /\ faults + Cardinality(errors) <= MaxFaults
              /\ faults' = faults + Cardinality(errors)
              /\ run' = [at |-> "fetched", splits |-> {},
                         bars |-> IF got = {} /\ errors # {} THEN NoBars
                                  ELSE [some |-> TRUE, got |-> got,
                                        failed |-> errors \cup empty,
                                        lost |-> lost, watermark |-> Watermark,
                                        open |-> open, at |-> effective]]
  BY Zenon DEF Fetch
<1>b. windows = Windows(D)
  OBVIOUS
<1>2. PICK errors \in SUBSET Windows(D) :
          LET empty == {w \in Windows(D) \ errors : w \subseteq Holidays}
              got == Windows(D) \ (errors \cup empty)
          IN  /\ faults + Cardinality(errors) <= MaxFaults
              /\ faults' = faults + Cardinality(errors)
              /\ run' = [at |-> "fetched", splits |-> {},
                         bars |-> IF got = {} /\ errors # {} THEN NoBars
                                  ELSE [some |-> TRUE, got |-> got,
                                        failed |-> errors \cup empty,
                                        lost |-> lost, watermark |-> Watermark,
                                        open |-> open, at |-> effective]]
  BY <1>a, <1>b, Zenon
<1> DEFINE empty == {w \in Windows(D) \ errors : w \subseteq Holidays}
           got == Windows(D) \ (errors \cup empty)
           some == [some |-> TRUE, got |-> got, failed |-> errors \cup empty,
                    lost |-> lost, watermark |-> Watermark,
                    open |-> open, at |-> effective]
<1>3. \A w \in Windows(D) : w # {} /\ w \subseteq D
  BY <1>1, WindowsOf
<1>4. got \subseteq Windows(D) /\ errors \cup empty \subseteq Windows(D)
  OBVIOUS
<1>5. Windows(D) \subseteq SUBSET Days
  BY <1>1, <1>3
<1>6. Cardinality(errors) \in Nat
  BY <1>5, WindowsFinite
<1>7. faults' \in 0 .. MaxFaults
  BY <1>2, <1>6 DEF Typed, TypeOK
<1>8. NoBars \in Payload /\ NoBars.got \cup NoBars.failed = {} /\ ~NoBars.some /\ ~NoBars.lost
  BY DEF NoBars, Payload
<1>9. some \in Payload
  BY <1>4, <1>5, WatermarkIs DEF Payload, Typed, TypeOK
<1>10. run' = [at |-> "fetched", splits |-> {},
               bars |-> IF got = {} /\ errors # {} THEN NoBars ELSE some]
  BY <1>2
<1> HIDE DEF empty, got
<1>11. CASE got = {} /\ errors # {}
  BY <1>7, <1>8, <1>10, <1>11 DEF Runs
<1>12. CASE ~(got = {} /\ errors # {})
  <2>1. run'.bars = some
    BY <1>10, <1>12
  <2>2. \A w \in some.got \cup some.failed : w # {} /\ w \subseteq 0 .. (today - 1)
    BY <1>3, <1>4
  <2>3. some.at = effective /\ some.lost = lost
    OBVIOUS
  <2> QED BY <1>7, <1>9, <1>10, <2>1, <2>2, <2>3 DEF Runs
<1> QED BY <1>11, <1>12
-------------------------------------------------------------------------------
(* Types, whatever the operator does.                                      *)

\* A recorded row ends on a day, and no later than today.
LEMMA RecordedIs ==
    ASSUME Typed, NEW r \in Recorded(run.bars)
    PROVE  /\ r.end \in Days /\ r.end <= today
           /\ \/ r.end = Earliest /\ run.bars.lost
              \/ \E w \in run.bars.failed : \E d \in w : r.end = d + 1
<1> USE ArchiveAssumption
<1>1. today \in Int /\ today <= LastDay /\ Depth <= today
  BY DEF Typed, TypeOK, Calendar, Days
<1>2. CASE run.bars.lost /\ r.end = Earliest
  BY <1>1, <1>2 DEF Earliest, Days
<1>3. CASE \E w \in run.bars.failed : r.end = Newest(w) + 1
  <2>1. PICK w \in run.bars.failed : r.end = Newest(w) + 1
    BY <1>3
  <2>2. w # {} /\ w \subseteq 0 .. (today - 1)
    BY DEF Typed, Calendar
  <2>3. w \in SUBSET Days
    BY <1>1, <2>2 DEF Days
  <2>4. Newest(w) \in w
    BY <2>2, <2>3, NewestIs
  <2> HIDE DEF Newest
  <2>5. Newest(w) \in 0 .. (today - 1)
    BY <2>2, <2>4
  <2> QED BY <1>1, <2>1, <2>4, <2>5 DEF Days
<1> QED BY <1>2, <1>3 DEF Recorded

\* What the ledger looks like after a run: a row keeps its end, or is
\* recorded anew.
LEMMA GapsAfter ==
    ASSUME Typed, WriteGaps(run.bars)
    PROVE  /\ gaps' \in [Days \X Reasons ->
                           [end : Days \cup {NoDay}, state : {"none", "open", "closed"}]]
           /\ \A k \in DOMAIN gaps' :
                  \/ gaps'[k].end = gaps[k].end
                  \/ \E r \in Recorded(run.bars) : gaps'[k].end = r.end
<1> DEFINE Rows == [end : Days \cup {NoDay}, state : {"none", "open", "closed"}]
<1>1. gaps \in [Days \X Reasons -> Rows]
  BY DEF Typed, TypeOK
<1>2. gaps' = [k \in Days \X Reasons |->
        IF k \in Closed(run.bars) THEN [gaps[k] EXCEPT !.state = "closed"]
        ELSE IF \E r \in Recorded(run.bars) : r.key = k
        THEN [end |-> (CHOOSE r \in Recorded(run.bars) : r.key = k).end,
              state |-> IF gaps[k].state = "none" THEN "open" ELSE gaps[k].state]
        ELSE gaps[k]]
  BY <1>1 DEF WriteGaps
<1>3. ASSUME NEW k \in Days \X Reasons
      PROVE  /\ gaps'[k] \in Rows
             /\ \/ gaps'[k].end = gaps[k].end
                \/ \E r \in Recorded(run.bars) : gaps'[k].end = r.end
  <2>0. gaps[k] \in Rows
    BY <1>1
  <2>1. CASE k \in Closed(run.bars)
    <3>1. gaps'[k] = [gaps[k] EXCEPT !.state = "closed"]
      BY <1>2, <2>1
    <3> QED BY <2>0, <2>1, <3>1
  <2>2. CASE k \notin Closed(run.bars) /\ \E r \in Recorded(run.bars) : r.key = k
    <3> DEFINE r == CHOOSE r \in Recorded(run.bars) : r.key = k
    <3>1. r \in Recorded(run.bars)
      BY <2>2
    <3>2. r.end \in Days
      BY <3>1, RecordedIs
    <3> HIDE DEF r
    <3>3. gaps'[k] = [end |-> r.end,
                      state |-> IF gaps[k].state = "none" THEN "open" ELSE gaps[k].state]
      BY <1>2, <2>2 DEF r
    <3> QED BY <2>0, <3>1, <3>2, <3>3
  <2>3. CASE k \notin Closed(run.bars) /\ ~\E r \in Recorded(run.bars) : r.key = k
    <3>1. gaps'[k] = gaps[k]
      BY <1>2, <2>3
    <3> QED BY <2>0, <3>1
  <2> QED BY <2>1, <2>2, <2>3
<1> QED BY <1>2, <1>3

\* The days of a gap are days of the calendar.
LEMMA SpanIsDays ==
    ASSUME NEW k \in Days \X Reasons, gaps[k].end \in Days \cup {NoDay}
    PROVE  Span(k) \subseteq Days
BY ArchiveAssumption DEF Span, Days, NoDay

\* What one action does to the types has a lemma of its own where it is long.
LEMMA TypedPersist == Typed /\ Persist => Typed'
<1> SUFFICES ASSUME Typed, Persist PROVE Typed'
  OBVIOUS
<1> USE ArchiveAssumption
<1>1. /\ run' = IdleRun /\ today' = today /\ effective' = effective
      /\ faults' = faults /\ ranges' = ranges /\ splits' = splits \cup run.splits
  BY DEF Persist, yahooVars, boundVars
<1>2. IdleRun \in Runs /\ IdleRun.bars.got \cup IdleRun.bars.failed = {}
  BY DEF IdleRun, NoBars, Payload, Runs
<1>3. CASE ~run.bars.some
  <2>1. UNCHANGED <<bars, astray, since, scale, gaps, trimmed, applied>>
    BY <1>3 DEF Persist, archive
  <2>2. TypeOK'
    BY <1>1, <1>2, <2>1 DEF Runs, Typed, TypeOK
  <2>3. Calendar'
    BY <1>1, <1>2, <2>1 DEF Typed, Calendar
  <2> QED BY <2>2, <2>3 DEF Typed
<1>4. CASE run.bars.some
  <2>1. Scale(run.bars) /\ Stray(run.bars) /\ WriteBars(run.bars) /\ WriteGaps(run.bars)
        /\ applied' = applied \cup Pending
    BY <1>4 DEF Persist
  <2>2. \A w \in run.bars.got \cup run.bars.failed : w # {} /\ w \subseteq 0 .. (today - 1)
    BY DEF Typed, Calendar
  <2>3. 0 .. (today - 1) \subseteq Days
    BY DEF Typed, TypeOK, Days
  <2>4. Frame(run.bars) \subseteq 0 .. (today - 1)
    BY <2>2 DEF Frame
  <2>5. bars' \subseteq 0 .. (today - 1)
    BY <2>1, <2>4 DEF WriteBars, Typed, Calendar
  <2>6. astray' \subseteq bars' \X Splits
    <3>1. run.bars.at \subseteq Splits
      BY <1>4 DEF Typed, TypeOK, Payload
    <3>2. astray \subseteq bars \X Splits
      BY DEF Typed, TypeOK
    <3>3. bars' = bars \cup Frame(run.bars)
      BY <2>1 DEF WriteBars
    <3> QED BY <2>1, <3>1, <3>2, <3>3 DEF Stray
  <2>7. since' \in Days \cup {NoDay}
    <3>1. CASE bars = {} /\ Frame(run.bars) # {}
      <4>1. UNION (run.bars.got \cup run.bars.failed) \in SUBSET Days
        BY <2>2, <2>3
      <4>2. UNION (run.bars.got \cup run.bars.failed) # {}
        BY <3>1 DEF Frame
      <4>3. Oldest(UNION (run.bars.got \cup run.bars.failed)) \in Days
        BY <4>1, <4>2, OldestIs
      <4> QED BY <2>1, <3>1, <4>3 DEF WriteBars
    <3>2. CASE ~(bars = {} /\ Frame(run.bars) # {})
      BY <2>1, <3>2 DEF WriteBars, Typed, TypeOK
    <3> QED BY <3>1, <3>2
  <2>8. scale' \in [Days -> [Splits -> Nat]]
    <3>1. ASSUME NEW d \in Days PROVE Rescaled(d) \in [Splits -> Nat]
      <4>1. scale[d] \in [Splits -> Nat]
        BY DEF Typed, TypeOK
      <4> QED BY <4>1 DEF Rescaled
    <3>2. ASSUME NEW d \in Days PROVE Served(d, run.bars.at) \in [Splits -> Nat]
      BY DEF Served
    <3> QED BY <2>1, <3>1, <3>2 DEF Scale
  <2>9. gaps' \in [Days \X Reasons ->
                    [end : Days \cup {NoDay}, state : {"none", "open", "closed"}]]
    BY <2>1, GapsAfter
  <2>10. applied' \subseteq Splits /\ splits' \subseteq Splits
    BY <1>1, <2>1 DEF Pending, Typed, TypeOK
  <2>11. bars' \subseteq Days
    BY <2>3, <2>5
  <2>20. trimmed' \subseteq Days
    <3>1. \A k \in DOMAIN gaps : Span(k) \subseteq Days
      BY SpanIsDays DEF Typed, TypeOK
    <3>2. trimmed \subseteq Days
      BY DEF Typed, TypeOK
    <3> QED BY <2>1, <3>1, <3>2 DEF WriteGaps, Trim
  <2>12. TypeOK'
    BY <1>1, <1>2, <2>6, <2>7, <2>8, <2>9, <2>10, <2>11, <2>20
       DEF Runs, Typed, TypeOK
  <2>13. \A k \in DOMAIN gaps' : gaps'[k].end <= today
    <3>1. \A r \in Recorded(run.bars) : r.end <= today
      BY RecordedIs
    <3>2. DOMAIN gaps' = DOMAIN gaps
      BY <2>9 DEF Typed, TypeOK
    <3>3. \A k \in DOMAIN gaps : gaps[k].end <= today
      BY DEF Typed, Calendar
    <3> QED BY <2>1, <3>1, <3>2, <3>3, GapsAfter
  <2>14. Calendar'
    BY <1>1, <1>2, <2>5, <2>13 DEF Typed, Calendar
  <2> QED BY <2>12, <2>14 DEF Typed
<1> QED BY <1>3, <1>4


LEMMA TypedReconcile ==
    ASSUME Typed, NEW k \in DOMAIN gaps, Reconcile(k)
    PROVE  Typed'
<1> USE ArchiveAssumption
<1> DEFINE new == (Span(k) \cap TickDays) \ (bars \cup Holidays)
<1>1. /\ bars' = bars \cup new
      /\ astray' = astray \cup {p \in new \X applied : p[1] < p[2]}
      /\ scale' = [d \in Days |-> IF d \in new THEN Unscaled ELSE scale[d]]
      /\ gaps' = [gaps EXCEPT ![k].state = "closed"]
      /\ UNCHANGED <<yahooVars, since, trimmed, splits, applied, run, boundVars>>
  BY DEF Reconcile
<1>2. new \subseteq Days
  OBVIOUS
<1>3. gaps[k].end \in Days \cup {NoDay} /\ gaps[k].end <= today /\ today \in Days
  BY DEF Typed, TypeOK, Calendar
<1>4. \A d \in Span(k) : d < gaps[k].end
  BY <1>3 DEF Span, Days, NoDay, Typed, TypeOK
<1>5. \A d \in new : d \in 0 .. (today - 1)
  BY <1>2, <1>3, <1>4 DEF Days, NoDay
<1> HIDE DEF new
<1>6. Unscaled \in [Splits -> Nat]
  BY DEF Unscaled
<1>7. scale' \in [Days -> [Splits -> Nat]]
  BY <1>1, <1>6 DEF Typed, TypeOK
<1>8. /\ gaps' \in [Days \X Reasons ->
                      [end : Days \cup {NoDay}, state : {"none", "open", "closed"}]]
      /\ \A j \in DOMAIN gaps' : gaps'[j].end = gaps[j].end
  BY <1>1 DEF Typed, TypeOK
<1>11. astray' \subseteq bars' \X Splits
  BY <1>1 DEF Typed, TypeOK
<1>9. TypeOK'
  BY <1>1, <1>2, <1>7, <1>8, <1>11 DEF Typed, TypeOK, yahooVars, boundVars
<1>10. Calendar'
  BY <1>1, <1>5, <1>8 DEF Typed, TypeOK, Calendar, yahooVars, boundVars
<1> QED BY <1>9, <1>10 DEF Typed

\* Every fetch that hands over bars.
LEMMA TypedFetch ==
    ASSUME Typed, NEW D \in SUBSET (0 .. (today - 1)), NEW lost \in BOOLEAN,
           Fetch(D, lost, OpenGaps), UNCHANGED <<yahooVars, archive, ledgers>>,
           ranges' \in 0 .. HandRanges
    PROVE  Typed'
<1>1. OpenGaps \in SUBSET Days
  BY DEF OpenGaps
<1>2. /\ faults' \in 0 .. MaxFaults
      /\ run' \in Runs /\ run'.at = "fetched"
      /\ \A w \in run'.bars.got \cup run'.bars.failed :
            w # {} /\ w \subseteq 0 .. (today - 1)
  BY <1>1, FetchHandsOver
<1>3. TypeOK'
  BY <1>2 DEF Runs, Typed, TypeOK, yahooVars, archive, ledgers
<1>4. Calendar'
  BY <1>2 DEF Typed, Calendar, yahooVars, archive, ledgers
<1> QED BY <1>3, <1>4 DEF Typed

LEMMA RangeIsOver ==
    ASSUME Typed, NEW a \in Days, NEW b \in Days, Earliest <= a, b < today
    PROVE  a .. b \in SUBSET (0 .. (today - 1))
BY ArchiveAssumption DEF Typed, TypeOK, Days

\* The types and the calendar are inductive.
LEMMA TypedStep == Typed /\ [Next]_vars => Typed'
<1> SUFFICES ASSUME Typed, [Next]_vars PROVE Typed'
  OBVIOUS
<1> USE ArchiveAssumption
<1>1. CASE FetchBars
  BY <1>1, PlannedIsOver, TypedFetch DEF FetchBars, Lost, Typed, TypeOK
<1>2. CASE FetchRange
  <2>1. PICK a, b \in Days : Earliest <= a /\ a <= b /\ b < today
                             /\ Fetch(a .. b, FALSE, OpenGaps)
    BY <1>2 DEF FetchRange
  <2>2. ranges' \in 0 .. HandRanges
    BY <1>2 DEF FetchRange, Typed, TypeOK
  <2> QED BY <1>2, <2>1, <2>2, RangeIsOver, TypedFetch DEF FetchRange
<1>3. CASE FetchNoBars
  <2>1. run' = [at |-> "fetched", bars |-> NoBars, splits |-> {}]
    BY <1>3 DEF FetchNoBars, IdleRun
  <2>2. run' \in Runs /\ run'.bars.got \cup run'.bars.failed = {}
    BY <2>1 DEF NoBars, Payload, Runs
  <2> QED BY <1>3, <2>1, <2>2
          DEF FetchNoBars, Runs, Typed, TypeOK, Calendar, yahooVars, archive, ledgers, boundVars
<1>4. CASE FetchSplits
  <2>1. run' \in Runs /\ run'.at = "ready" /\ run'.bars = run.bars
    BY <1>4 DEF FetchSplits, Runs, Typed, TypeOK
  <2>2. faults' \in 0 .. MaxFaults
    BY <1>4 DEF FetchSplits, Typed, TypeOK
  <2> QED BY <1>4, <2>1, <2>2
          DEF FetchSplits, Runs, Typed, TypeOK, Calendar, yahooVars, archive, ledgers
<1>5. CASE Persist
  BY <1>5, TypedPersist
<1>6. CASE LoseRun
  <2>1. IdleRun \in Runs /\ IdleRun.bars.got \cup IdleRun.bars.failed = {}
    BY DEF IdleRun, NoBars, Payload, Runs
  <2> QED BY <1>6, <2>1
          DEF LoseRun, Runs, Typed, TypeOK, Calendar, yahooVars, archive, ledgers
<1>7. CASE \E s \in Splits : YahooSplits(s)
  BY <1>7 DEF YahooSplits, Typed, TypeOK, Calendar, archive, ledgers, boundVars
<1>8. CASE NextDay
  <2>1. run = IdleRun /\ IdleRun.bars.got \cup IdleRun.bars.failed = {}
    BY <1>8 DEF NextDay, Typed, Calendar, IdleRun, NoBars
  <2>2. today' = today + 1 /\ today \in Days /\ today' \in Days /\ today \in Int
    BY <1>8 DEF NextDay, Typed, TypeOK, Days
  <2>3. 0 .. (today - 1) \subseteq 0 .. (today' - 1)
    BY <2>2
  <2>4. TypeOK'
    BY <1>8, <2>2 DEF NextDay, Typed, TypeOK, archive, ledgers, boundVars
  <2>5. \A k \in DOMAIN gaps : gaps[k].end <= today'
    <3>1. \A k \in DOMAIN gaps : gaps[k].end <= today
      BY DEF Typed, Calendar
    <3>2. \A k \in DOMAIN gaps : gaps[k].end \in Int
      BY DEF Typed, TypeOK, Days, NoDay
    <3>3. QED
      BY <2>2, <3>1, <3>2
  <2>6. Calendar'
    BY <1>8, <2>1, <2>2, <2>3, <2>5
       DEF NextDay, Typed, Calendar, archive, ledgers, boundVars
  <2> QED BY <2>4, <2>6 DEF Typed
<1>9. CASE RescaleByHand
  <2>1. ASSUME NEW d \in Days PROVE Rescaled(d) \in [Splits -> Nat]
    <3>1. scale[d] \in [Splits -> Nat]
      BY DEF Typed, TypeOK
    <3> QED BY <3>1 DEF Rescaled
  <2> QED BY <1>9, <2>1
          DEF RescaleByHand, Pending, Typed, TypeOK, Calendar, yahooVars, boundVars
<1>10. CASE SeedBaseline
  <2>1. applied' = splits /\ UNCHANGED <<yahooVars, bars, scale, since, gaps, trimmed, splits, run, boundVars>>
    BY <1>10 DEF SeedBaseline
  <2>2. astray' \subseteq bars \X Splits
    BY <1>10 DEF SeedBaseline, Typed, TypeOK
  <2> QED BY <2>1, <2>2 DEF Typed, TypeOK, Calendar, yahooVars, boundVars
<1>11. CASE \E k \in DOMAIN gaps : Reconcile(k)
  BY <1>11, TypedReconcile
<1>12. CASE UNCHANGED vars
  BY <1>12 DEF vars, Typed, TypeOK, Calendar, yahooVars, archive, ledgers, boundVars
<1> QED BY <1>1, <1>2, <1>3, <1>4, <1>5, <1>6, <1>7, <1>8, <1>9, <1>10, <1>11, <1>12
        DEF Next, SyncStep

LEMMA TypedInit == Init => Typed
<1> SUFFICES ASSUME Init PROVE Typed
  OBVIOUS
<1> USE ArchiveAssumption
<1>1. IdleRun \in Runs /\ IdleRun.bars.got \cup IdleRun.bars.failed = {}
  BY DEF IdleRun, NoBars, Payload, Runs
<1>2. scale \in [Days -> [Splits -> Nat]]
  BY DEF Init, Unscaled
<1>3. gaps \in [Days \X Reasons ->
                  [end : Days \cup {NoDay}, state : {"none", "open", "closed"}]]
      /\ \A k \in DOMAIN gaps : gaps[k].end = NoDay
  BY DEF Init, NoRow
<1>4. today \in Days /\ Depth \in Nat /\ today = Depth /\ NoDay <= today
  BY DEF Init, Days, NoDay
<1>5. TypeOK
  BY <1>1, <1>2, <1>3, <1>4 DEF Init, Runs, TypeOK
<1>6. Calendar
  BY <1>1, <1>3, <1>4 DEF Init, Calendar, Days
<1> QED BY <1>5, <1>6 DEF Typed

\* The state of the archive is well typed: windows are days that are over, gaps
\* end no later than today, whatever fails, is fetched by hand or reconciled.
THEOREM BarTypeCorrect == Spec => []TypeOK
<1>1. Spec => []Typed
  BY TypedInit, TypedStep, PTL DEF Spec
<1>2. Typed => TypeOK
  BY DEF Typed
<1> QED BY <1>1, <1>2, PTL

-------------------------------------------------------------------------------
(* One scale.                                                              *)

Kept == Books /\ Divided /\ Later /\ OneScale

LEMMA LedgerInit == Init => Ledger
<1> SUFFICES ASSUME Init PROVE Ledger
  OBVIOUS
<1>1. Typed
  BY TypedInit
<1>2. bars = {} /\ applied = {} /\ splits = {} /\ astray = {} /\ run = IdleRun
  BY DEF Init
<1>3. ~IdleRun.bars.some /\ IdleRun.splits = {}
  BY DEF IdleRun, NoBars
<1>4. Books
  BY <1>2, <1>3 DEF Books
<1>5. Divided /\ Later /\ OneScale
  BY <1>2 DEF Divided, Later, OneScale
<1> QED BY <1>1, <1>4, <1>5 DEF Ledger

\* What Ledger says of a bar and a split, in one formula.
Right(d, s) ==
    /\ s \in applied => (scale[d][s] = (IF d < s THEN 1 ELSE 0) <=> <<d, s>> \notin astray)
    /\ s \notin applied => scale[d][s] = IF <<d, s>> \in astray THEN 1 ELSE 0
    /\ <<d, s>> \in astray => d < s
    /\ s <= d => scale[d][s] = 0

\* The parts of the invariant say that every bar and split are Right.
LEMMA RightIs ==
    ASSUME Typed
    PROVE  Divided /\ Later /\ OneScale <=> \A d \in bars, s \in Splits : Right(d, s)
<1>1. applied \subseteq Splits /\ astray \subseteq bars \X Splits
  BY DEF Typed, TypeOK
<1>2. ASSUME Divided, Later, OneScale, NEW d \in bars, NEW s \in Splits
      PROVE  Right(d, s)
  BY <1>2 DEF Divided, Later, OneScale, Right
<1>3. ASSUME \A d \in bars, s \in Splits : Right(d, s)
      PROVE  Divided /\ Later /\ OneScale
  <2>1. Divided
    BY <1>3 DEF Divided, Right
  <2>2. Later
    <3>1. ASSUME NEW p \in astray PROVE p[1] < p[2]
      <4>1. p[1] \in bars /\ p[2] \in Splits /\ p = <<p[1], p[2]>>
        BY <1>1
      <4> QED BY <1>3, <4>1 DEF Right
    <3> QED BY <1>3, <3>1 DEF Later, Right
  <2>3. OneScale
    BY <1>1, <1>3 DEF OneScale, Right
  <2> QED BY <2>1, <2>2, <2>3
<1> QED BY <1>2, <1>3

LEMMA LedgerFetch ==
    ASSUME Ledger,
           NEW D \in SUBSET (0 .. (today - 1)), NEW lost \in BOOLEAN,
           Fetch(D, lost, OpenGaps), UNCHANGED <<yahooVars, archive, ledgers>>
    PROVE  Kept'
<1>1. OpenGaps \in SUBSET Days
  BY DEF OpenGaps
<1>2. /\ run'.splits = {}
      /\ run'.bars.some => run'.bars.at = effective
  BY <1>1, FetchHandsOver DEF Ledger
<1>3. Books'
  BY <1>2 DEF Ledger, Books, yahooVars, archive, ledgers
<1>4. Divided' /\ Later' /\ OneScale'
  BY DEF Ledger, Divided, Later, OneScale, yahooVars, archive, ledgers
<1> QED BY <1>3, <1>4 DEF Kept

\* The rescale: a pending split divides every bar before it, once more.
LEMMA RescaleDivides ==
    ASSUME Ledger, NEW d \in bars, NEW s \in Splits
    PROVE  /\ s \in applied \cup Pending =>
                (Rescaled(d)[s] = (IF d < s THEN 1 ELSE 0) <=> <<d, s>> \notin astray)
           /\ s \notin applied \cup Pending =>
                Rescaled(d)[s] = IF <<d, s>> \in astray THEN 1 ELSE 0
           /\ s <= d => Rescaled(d)[s] = 0
<1>1. d \in Days /\ scale[d][s] \in Nat /\ s \in Int /\ d \in Int
  BY ArchiveAssumption DEF Ledger, Typed, TypeOK, Days
<1>2. Rescaled(d)[s] = scale[d][s] + IF s \in Pending /\ d < s THEN 1 ELSE 0
  BY DEF Rescaled
<1>3. Right(d, s)
  BY RightIs DEF Ledger
<1>4. s \in Pending => s \notin applied
  BY DEF Pending
<1> QED BY <1>1, <1>2, <1>3, <1>4 DEF Right

\* What Yahoo served is at the scale of the ledger after the run's rescale, but
\* for the splits the ledger does not have then.
LEMMA FrameIsAtScale ==
    ASSUME Ledger, run.bars.some, NEW d \in Frame(run.bars), NEW s \in Splits
    PROVE  /\ s \in applied \cup Pending
                  => Served(d, run.bars.at)[s] = IF d < s THEN 1 ELSE 0
           /\ s \notin applied \cup Pending
                  => Served(d, run.bars.at)[s] = IF s \in run.bars.at /\ d < s THEN 1 ELSE 0
<1>1. splits \subseteq run.bars.at /\ applied \subseteq splits /\ Pending \subseteq splits
  BY DEF Ledger, Books, Pending
<1> QED BY <1>1 DEF Served

LEMMA LedgerPersist ==
    ASSUME Ledger, Persist
    PROVE  Kept'
<1> USE ArchiveAssumption
<1>1. /\ run' = IdleRun /\ today' = today /\ effective' = effective
      /\ splits' = splits \cup run.splits
  BY DEF Persist, yahooVars
<1>2. ~IdleRun.bars.some /\ IdleRun.splits = {}
  BY DEF IdleRun, NoBars
<1>3. CASE ~run.bars.some
  <2>1. UNCHANGED <<archive, gaps, trimmed, applied>>
    BY <1>3 DEF Persist
  <2>2. Books'
    BY <1>1, <1>2, <2>1 DEF Ledger, Books
  <2>3. Divided' /\ Later' /\ OneScale'
    BY <1>1, <2>1 DEF Ledger, Divided, Later, OneScale, archive
  <2> QED BY <2>2, <2>3 DEF Kept
<1>4. CASE run.bars.some
  <2>1. Scale(run.bars) /\ Stray(run.bars) /\ WriteBars(run.bars)
        /\ applied' = applied \cup Pending
    BY <1>4 DEF Persist
  <2>2. bars' = bars \cup Frame(run.bars)
    BY <2>1 DEF WriteBars
  <2>3. Pending \subseteq splits /\ Pending \subseteq Splits /\ applied \subseteq Splits
        /\ run.bars.at \subseteq Splits /\ astray \subseteq bars \X Splits
    BY <1>4 DEF Pending, Ledger, Typed, TypeOK, Payload
  <2>4. Books'
    BY <1>1, <1>2, <2>1, <2>3 DEF Ledger, Books
  <2>5. Typed'
    BY TypedPersist DEF Ledger
  <2>6. ASSUME NEW d \in bars', NEW s \in Splits PROVE Right(d, s)'
    <3>1. d \in Days /\ d \in Int /\ s \in Int
      BY <2>5 DEF Typed, TypeOK, Days
    <3>2. CASE d \in Frame(run.bars)
      <4>1. scale'[d] = Served(d, run.bars.at)
        BY <2>1, <3>1, <3>2 DEF Scale
      <4>2. <<d, s>> \in astray' <=> s \in run.bars.at /\ s \notin applied' /\ d < s
        BY <2>1, <3>2 DEF Stray
      <4>3. s <= d => Served(d, run.bars.at)[s] = 0
        BY <3>1 DEF Served
      <4>4. /\ s \in applied' => scale'[d][s] = IF d < s THEN 1 ELSE 0
            /\ s \notin applied' =>
                  scale'[d][s] = IF s \in run.bars.at /\ d < s THEN 1 ELSE 0
        BY <1>4, <2>1, <3>2, <4>1, FrameIsAtScale
      <4> QED BY <3>1, <4>1, <4>2, <4>3, <4>4 DEF Right
    <3>3. CASE d \notin Frame(run.bars)
      <4>1. d \in bars
        BY <2>2, <3>3
      <4>2. scale'[d] = Rescaled(d)
        BY <2>1, <3>1, <3>3 DEF Scale
      <4>3. <<d, s>> \in astray' <=> <<d, s>> \in astray
        BY <2>1, <3>3 DEF Stray
      <4>4. <<d, s>> \in astray => d < s
        BY <4>1, RightIs DEF Ledger, Right
      <4> QED BY <2>1, <4>1, <4>2, <4>3, <4>4, RescaleDivides DEF Right
    <3> QED BY <3>2, <3>3
  <2>7. (Divided /\ Later /\ OneScale <=> \A d \in bars, s \in Splits : Right(d, s))'
    BY <2>5, RightIs, PTL
  <2> QED BY <2>4, <2>6, <2>7 DEF Kept
<1> QED BY <1>3, <1>4

LEMMA LedgerByHand ==
    ASSUME Ledger, RescaleByHand
    PROVE  Kept'
<1>1. /\ scale' = [d \in Days |-> Rescaled(d)] /\ applied' = applied \cup Pending
      /\ UNCHANGED <<yahooVars, bars, astray, since, gaps, splits, run, boundVars>>
  BY DEF RescaleByHand
<1>2. Pending \subseteq splits /\ bars \subseteq Days /\ applied \cup Pending \subseteq Splits
  BY DEF Pending, Ledger, Typed, TypeOK
<1>3. Books'
  BY <1>1, <1>2 DEF Ledger, Books, yahooVars
<1>4. ASSUME NEW d \in bars, NEW s \in Splits
      PROVE  /\ s \in applied' =>
                   (scale'[d][s] = (IF d < s THEN 1 ELSE 0) <=> <<d, s>> \notin astray')
             /\ s \notin applied' => scale'[d][s] = IF <<d, s>> \in astray' THEN 1 ELSE 0
             /\ s <= d => scale'[d][s] = 0
  <2>1. scale'[d] = Rescaled(d)
    BY <1>1, <1>2
  <2> QED BY <1>1, <2>1, RescaleDivides
<1>5. Divided'
  BY <1>1, <1>4 DEF Divided
<1>6. Later'
  BY <1>1, <1>4 DEF Ledger, Later
<1>7. OneScale'
  BY <1>1, <1>2, <1>4 DEF OneScale
<1> QED BY <1>3, <1>5, <1>6, <1>7 DEF Kept

\* The seed, at any time: which bars are astray with a split is turned round.
LEMMA LedgerSeed ==
    ASSUME Ledger, SeedBaseline
    PROVE  Kept'
<1> DEFINE older == {p \in bars \X (splits \ applied) : p[1] < p[2]}
<1>1. /\ astray' = (astray \ older) \cup (older \ astray) /\ applied' = splits
      /\ UNCHANGED <<yahooVars, bars, scale, since, gaps, trimmed, splits, run, boundVars>>
  BY DEF SeedBaseline
<1>2. splits \subseteq Splits /\ astray \subseteq bars \X Splits /\ applied \subseteq splits
  BY DEF Ledger, Books, Typed, TypeOK
<1>3. Books'
  BY <1>1 DEF Ledger, Books, yahooVars
<1>4. \A d \in bars, s \in Splits :
         <<d, s>> \in astray' <=>
             IF s \in splits \ applied /\ d < s THEN <<d, s>> \notin astray
             ELSE <<d, s>> \in astray
  BY <1>1
<1>5. \A p \in astray' : p[1] < p[2]
  BY <1>1 DEF Ledger, Later
<1> HIDE DEF older
<1>6. ASSUME NEW d \in bars, NEW s \in Splits PROVE Right(d, s)
  BY RightIs DEF Ledger
<1>7. Divided'
  BY <1>1, <1>2, <1>4, <1>6 DEF Divided, Right
<1>8. Later'
  BY <1>1, <1>5 DEF Ledger, Later
<1>9. ASSUME NEW s \in splits, NEW d \in bars
      PROVE  scale[d][s] = (IF d < s THEN 1 ELSE 0) <=> <<d, s>> \notin astray'
  <2>1. s \in Splits /\ s \in Int /\ d \in Int
    BY <1>2, ArchiveAssumption DEF Ledger, Typed, TypeOK, Days
  <2>2. Right(d, s)
    BY <1>6, <2>1
  <2>3. CASE s \in applied
    <3>1. <<d, s>> \in astray' <=> <<d, s>> \in astray
      BY <1>4, <2>1, <2>3
    <3> QED BY <2>2, <2>3, <3>1 DEF Right
  <2>4. CASE s \notin applied /\ d < s
    <3>1. <<d, s>> \in astray' <=> <<d, s>> \notin astray
      BY <1>4, <2>1, <2>4
    <3> QED BY <2>2, <2>4, <3>1 DEF Right
  <2>5. CASE s \notin applied /\ ~(d < s)
    <3>1. <<d, s>> \in astray' <=> <<d, s>> \in astray
      BY <1>4, <2>1, <2>5
    <3> QED BY <2>1, <2>2, <2>5, <3>1 DEF Right
  <2> QED BY <2>3, <2>4, <2>5
<1>10. OneScale'
  BY <1>1, <1>9 DEF OneScale
<1> QED BY <1>3, <1>7, <1>8, <1>10 DEF Kept

LEMMA LedgerReconcile ==
    ASSUME Ledger, NEW k \in DOMAIN gaps, Reconcile(k)
    PROVE  Kept'
<1> USE ArchiveAssumption
<1> DEFINE new == (Span(k) \cap TickDays) \ (bars \cup Holidays)
<1>1. /\ bars' = bars \cup new
      /\ astray' = astray \cup {p \in new \X applied : p[1] < p[2]}
      /\ scale' = [d \in Days |-> IF d \in new THEN Unscaled ELSE scale[d]]
      /\ UNCHANGED <<yahooVars, since, trimmed, splits, applied, run, boundVars>>
  BY DEF Reconcile
<1>2. new \subseteq Days /\ new \cap bars = {}
  OBVIOUS
<1> HIDE DEF new
<1>3. Books'
  BY <1>1 DEF Ledger, Books, yahooVars
<1>4. Typed'
  BY TypedReconcile DEF Ledger
<1>5. ASSUME NEW d \in bars', NEW s \in Splits PROVE Right(d, s)'
  <2>1. d \in Days /\ d \in Int /\ s \in Int
    BY <1>4 DEF Typed, TypeOK, Days
  <2>2. CASE d \in new
    <3>1. scale'[d][s] = 0
      BY <1>1, <2>1, <2>2 DEF Unscaled
    <3>2. <<d, s>> \in astray' <=> s \in applied /\ d < s
      <4>1. astray \subseteq bars \X Splits
        BY DEF Ledger, Typed, TypeOK
      <4>2. <<d, s>> \notin astray
        BY <1>2, <2>2, <4>1
      <4> QED BY <1>1, <2>2, <4>2
    <3> QED BY <1>1, <2>1, <3>1, <3>2 DEF Right
  <2>3. CASE d \notin new
    <3>1. d \in bars /\ scale'[d] = scale[d]
      BY <1>1, <2>1, <2>3
    <3>2. <<d, s>> \in astray' <=> <<d, s>> \in astray
      BY <1>1, <2>3
    <3>3. Right(d, s)
      BY <3>1, RightIs DEF Ledger
    <3> QED BY <1>1, <3>1, <3>2, <3>3 DEF Right
  <2> QED BY <2>2, <2>3
<1>6. (Divided /\ Later /\ OneScale <=> \A d \in bars, s \in Splits : Right(d, s))'
  BY <1>4, RightIs, PTL
<1> QED BY <1>3, <1>5, <1>6 DEF Kept

\* The archive and its ledgers stay as they are, and Yahoo takes no split back.
LEMMA LedgerStays ==
    ASSUME Ledger, UNCHANGED <<archive, ledgers>>, effective \subseteq effective', Books'
    PROVE  Kept'
<1>1. Divided' /\ Later' /\ OneScale'
  BY DEF Ledger, Divided, Later, OneScale, archive, ledgers
<1> QED BY <1>1 DEF Kept

\* Every step keeps the scale's invariant.
LEMMA LedgerStep ==
    ASSUME Ledger, [Next]_vars
    PROVE  Ledger'
<1> USE ArchiveAssumption
<1>0. Typed'
  BY TypedStep DEF Ledger
<1> SUFFICES Kept'
  BY <1>0 DEF Ledger, Kept
<1>1. CASE FetchBars
  <2>1. Lost \in BOOLEAN
    BY DEF Lost
  <2>2. Planned \in SUBSET (0 .. (today - 1))
    BY PlannedIsOver DEF Ledger
  <2> QED BY <1>1, <2>1, <2>2, LedgerFetch DEF FetchBars
<1>2. CASE FetchRange
  <2>1. PICK a, b \in Days : Earliest <= a /\ a <= b /\ b < today
                             /\ Fetch(a .. b, FALSE, OpenGaps)
    BY <1>2 DEF FetchRange
  <2>2. a .. b \in SUBSET (0 .. (today - 1))
    BY <2>1, RangeIsOver DEF Ledger
  <2> QED BY <1>2, <2>1, <2>2, LedgerFetch DEF FetchRange
<1>3. CASE FetchNoBars
  <2>1. ~run'.bars.some /\ run'.splits = {}
    BY <1>3 DEF FetchNoBars, IdleRun, NoBars
  <2>2. Books'
    BY <1>3, <2>1 DEF FetchNoBars, Ledger, Books, yahooVars, ledgers
  <2> QED BY <1>3, <2>2, LedgerStays DEF FetchNoBars, yahooVars
<1>4. CASE FetchSplits
  <2>1. run'.bars = run.bars /\ run'.splits \subseteq effective
    BY <1>4 DEF FetchSplits, Ledger, Typed, TypeOK, Books
  <2>2. Books'
    BY <1>4, <2>1 DEF FetchSplits, Ledger, Books, yahooVars, ledgers
  <2> QED BY <1>4, <2>2, LedgerStays DEF FetchSplits, yahooVars
<1>5. CASE Persist
  BY <1>5, LedgerPersist
<1>6. CASE LoseRun
  <2>1. Books'
    BY <1>6 DEF LoseRun, IdleRun, NoBars, Ledger, Books, yahooVars, ledgers
  <2> QED BY <1>6, <2>1, LedgerStays DEF LoseRun, yahooVars
<1>7. ASSUME NEW s \in Splits, YahooSplits(s) PROVE Kept'
  <2>1. Books'
    BY <1>7 DEF YahooSplits, Ledger, Books, ledgers
  <2> QED BY <1>7, <2>1, LedgerStays DEF YahooSplits
<1>8. CASE NextDay
  <2>1. Books'
    BY <1>8 DEF NextDay, Ledger, Books, ledgers
  <2> QED BY <1>8, <2>1, LedgerStays DEF NextDay
<1>9. CASE RescaleByHand
  BY <1>9, LedgerByHand
<1>10. CASE SeedBaseline
  BY <1>10, LedgerSeed
<1>11. CASE \E k \in DOMAIN gaps : Reconcile(k)
  BY <1>11, LedgerReconcile
<1>12. CASE UNCHANGED vars
  <2>1. Books'
    BY <1>12 DEF vars, Ledger, Books, yahooVars, ledgers
  <2> QED BY <1>12, <2>1, LedgerStays DEF vars, yahooVars
<1> QED BY <1>1, <1>2, <1>3, <1>4, <1>5, <1>6, <1>7, <1>8, <1>9, <1>10, <1>11, <1>12
        DEF Next, SyncStep

\* Whatever the operator does, and in whatever order splits and bars come in: a
\* bar before a split of the ledger has been divided by it exactly once, by
\* Yahoo or by rescale_before_bars, and no other bar has, unless it went astray
\* with that split by a step of its own; and then it is wrong.
THEOREM ArchiveHasOneScale == Spec => []OneScale
<1>1. Ledger /\ [Next]_vars => Ledger'
  BY LedgerStep
<1>2. Ledger => OneScale
  BY DEF Ledger
<1> QED BY LedgerInit, <1>1, <1>2, PTL DEF Spec

-------------------------------------------------------------------------------
(* Every hole is a row of the ledger.                                      *)

\* Multiples of p that differ, differ by p at least.
LEMMA Aligned ==
    ASSUME NEW p \in Nat \ {0}, NEW x \in Int, NEW y \in Int,
           x % p = 0, y % p = 0, x < y
    PROVE  x + p <= y
<1>1. PICK a \in Int : x = p * a
  OBVIOUS
<1>2. PICK b \in Int : y = p * b
  OBVIOUS
<1>3. a < b
  BY <1>1, <1>2
<1>4. p * (a + 1) <= p * b
  BY <1>3
<1> QED BY <1>1, <1>2, <1>4

\* A number exceeds a multiple of p by less than p.
LEMMA Remainder ==
    ASSUME NEW p \in Nat \ {0}, NEW m \in Nat
    PROVE  \E r \in Nat : r < p /\ r <= m /\ (m - r) % p = 0
<1>0. p \in Int /\ p > 0 /\ m \in Int
  OBVIOUS
<1>1. PICK q \in Int : m = (p * q) + (m % p)
  BY <1>0
<1>2. m % p \in Int /\ 0 <= m % p /\ m % p < p
  OBVIOUS
<1>3. PICK r \in Int : r = m % p
  BY <1>2
<1>4. m - r = p * q /\ 0 <= r /\ r < p
  BY <1>1, <1>2, <1>3
<1>5. r <= m
  <2>1. q >= 0
    <3>1. q <= -1 => p * q <= -p
      OBVIOUS
    <3> QED BY <1>4, <3>1
  <2>2. p * q >= 0
    BY <2>1
  <2> QED BY <1>4, <2>2
<1>6. PICK x \in Int : x = m - r
  OBVIOUS
<1>7. x % p = 0
  BY <1>4, <1>6
<1>8. r \in Nat /\ (m - r) % p = 0
  BY <1>4, <1>6, <1>7
<1> QED BY <1>4, <1>5, <1>8

\* The windows of a plan hold every day that was asked for.
LEMMA WindowsCover ==
    ASSUME NEW D \in SUBSET Days, NEW d \in D
    PROVE  \E w \in Windows(D) : d \in w
<1> USE ArchiveAssumption
<1>1. D \subseteq Nat /\ d \in Nat
  BY DEF Days
<1> DEFINE back == {x \in D : x <= d /\ x .. d \subseteq D}
<1>2. back \in SUBSET Nat /\ back # {}
  <2>1. d \in back
    BY <1>1
  <2> QED BY <1>1, <2>1
<1>3. PICK a \in back : \A x \in back : a <= x
  BY <1>2, LeastExists
<1>4. a \in D /\ a \in Nat /\ a <= d /\ a .. d \subseteq D
  BY <1>1
<1>5. (a - 1) \notin D
  <2> SUFFICES ASSUME (a - 1) \in D PROVE FALSE
    OBVIOUS
  <2>1. (a - 1) .. d \subseteq {a - 1} \cup a .. d
    BY <1>1, <1>4
  <2>2. a - 1 \in back
    BY <1>1, <1>4, <2>1
  <2> QED BY <1>3, <1>4, <2>2
<1> HIDE DEF back
<1>6. PICK m \in Nat : m = d - a
  BY <1>1, <1>4
<1>7. PICK r \in Nat : r < PerRequest /\ r <= m /\ (m - r) % PerRequest = 0
  BY Remainder
<1>8. PICK c \in Nat : c = d - r
  BY <1>1, <1>4, <1>6, <1>7
<1>9. a <= c /\ c <= d /\ d < c + PerRequest /\ c - a = m - r
  BY <1>1, <1>4, <1>6, <1>7, <1>8
<1>10. (c - a) % PerRequest = 0
  BY <1>7, <1>9
<1>11. c \in D /\ a .. c \subseteq a .. d
  BY <1>1, <1>4, <1>9
<1>12. c \in Stretch(D, a) /\ d \in Stretch(D, a)
  BY <1>4, <1>9, <1>11 DEF Stretch
<1>13. {x \in Stretch(D, a) : c <= x /\ x < c + PerRequest} \in Slices(Stretch(D, a), a)
  BY <1>10, <1>12 DEF Slices
<1>14. {x \in Stretch(D, a) : c <= x /\ x < c + PerRequest} \in Windows(D)
  BY <1>4, <1>5, <1>13 DEF Windows
<1> QED BY <1>9, <1>12, <1>14

\* Two windows of a plan share no day.
LEMMA WindowsDisjoint ==
    ASSUME NEW D \in SUBSET Days, NEW v \in Windows(D), NEW w \in Windows(D),
           NEW d \in v \cap w
    PROVE  v = w
<1> USE ArchiveAssumption
<1>1. PICK a \in D : (a - 1) \notin D /\ v \in Slices(Stretch(D, a), a)
  BY DEF Windows
<1>2. PICK b \in D : (b - 1) \notin D /\ w \in Slices(Stretch(D, b), b)
  BY DEF Windows
<1>3. a .. d \subseteq D /\ b .. d \subseteq D /\ a <= d /\ b <= d
  BY <1>1, <1>2 DEF Slices, Stretch
<1>4. a \in Int /\ b \in Int /\ d \in Int
  <2>1. a \in Days /\ b \in Days /\ d \in Days
    BY <1>1, <1>2, WindowsOf
  <2> QED BY <2>1 DEF Days
<1>5. a = b
  <2>1. a < b => b - 1 \in a .. d
    BY <1>3, <1>4
  <2>2. b < a => a - 1 \in b .. d
    BY <1>3, <1>4
  <2> QED BY <1>1, <1>2, <1>3, <1>4, <2>1, <2>2
<1>6. PICK c \in Stretch(D, a) :
          (c - a) % PerRequest = 0
          /\ v = {x \in Stretch(D, a) : c <= x /\ x < c + PerRequest}
  BY <1>1 DEF Slices
<1>7. PICK e \in Stretch(D, a) :
          (e - a) % PerRequest = 0
          /\ w = {x \in Stretch(D, a) : e <= x /\ x < e + PerRequest}
  BY <1>2, <1>5 DEF Slices
<1>8. c \in Int /\ e \in Int /\ c - a \in Int /\ e - a \in Int
  BY <1>4 DEF Stretch, Days
<1>9. c <= d /\ d < c + PerRequest /\ e <= d /\ d < e + PerRequest
  BY <1>6, <1>7
<1>10. PICK x \in Int : x = c - a /\ x % PerRequest = 0
  BY <1>6, <1>8
<1>11. PICK y \in Int : y = e - a /\ y % PerRequest = 0
  BY <1>7, <1>8
<1>12. ~(x < y)
  <2>1. x < y => x + PerRequest <= y
    BY <1>10, <1>11, Aligned
  <2> QED BY <2>1, <1>4, <1>8, <1>9, <1>10, <1>11
<1>13. ~(y < x)
  <2>1. y < x => y + PerRequest <= x
    BY <1>10, <1>11, Aligned
  <2> QED BY <2>1, <1>4, <1>8, <1>9, <1>10, <1>11
<1>14. c = e
  BY <1>4, <1>8, <1>12, <1>13, <1>10, <1>11
<1> QED BY <1>6, <1>7, <1>14

\* A window has every day between its oldest and its newest.
LEMMA WindowIsSpan ==
    ASSUME NEW D \in SUBSET Days, NEW w \in Windows(D)
    PROVE  w = Oldest(w) .. Newest(w) /\ Oldest(w) \in w
<1> USE ArchiveAssumption
<1>1. PICK a \in D : w \in Slices(Stretch(D, a), a)
  BY DEF Windows
<1>2. PICK c \in Stretch(D, a) :
          w = {x \in Stretch(D, a) : c <= x /\ x < c + PerRequest}
  BY <1>1 DEF Slices
<1>3. w \in SUBSET Days /\ w # {}
  BY WindowsOf
<1>4. PICK o \in w : o = Oldest(w) /\ \A d \in w : o <= d
  BY <1>3, OldestIs
<1>5. PICK n \in w : n = Newest(w) /\ \A d \in w : d <= n
  BY <1>3, NewestIs
<1>6. a \in Int /\ c \in Int /\ o \in Int /\ n \in Int /\ \A d \in w : d \in Int
  BY <1>2, <1>3 DEF Stretch, Days
<1>7. a .. n \subseteq D /\ a <= o /\ c <= o /\ n < c + PerRequest /\ o <= n
  BY <1>2, <1>4, <1>5 DEF Stretch
<1>8. ASSUME NEW d \in o .. n PROVE d \in w
  <2>1. d \in a .. n /\ a .. d \subseteq a .. n /\ c <= d /\ d < c + PerRequest /\ a <= d
    BY <1>6, <1>7
  <2> QED BY <1>2, <1>7, <2>1 DEF Stretch
<1>9. \A d \in w : d \in o .. n
  BY <1>4, <1>5, <1>6
<1> QED BY <1>4, <1>5, <1>8, <1>9

\* Nothing is asked for that Yahoo has dropped, and all of an open gap is, and
\* of the days since the watermark, that Yahoo still serves.
LEMMA PlannedFromEarliest ==
    ASSUME Typed, NEW p \in Planned
    PROVE  p >= Earliest
<1> USE ArchiveAssumption
<1>1. today \in Int /\ Earliest \in Nat /\ p \in Int
  BY PlannedIsOver DEF Typed, TypeOK, Calendar, Earliest, Days
<1>2. Watermark \in Int /\ \A d \in OpenGaps : d \in Int
  BY WatermarkIs DEF Typed, TypeOK, Days, NoDay, OpenGaps
<1>3. \A a \in Int : a >= Earliest /\ p \in Until(a) => p >= Earliest
  BY <1>1 DEF Until
<1>4. CASE bars = {}
  BY <1>1, <1>3, <1>4 DEF Planned
<1>5. CASE bars # {}
  <2>1. PICK a \in Int : a >= Earliest /\ p \in Until(a)
    <3>1. CASE p \in Until(IF Watermark - Overlap < Earliest THEN Earliest ELSE Watermark - Overlap)
      <4>1. (IF Watermark - Overlap < Earliest THEN Earliest ELSE Watermark - Overlap) \in Int
        BY <1>1, <1>2
      <4>2. (IF Watermark - Overlap < Earliest THEN Earliest ELSE Watermark - Overlap) >= Earliest
        BY <1>1, <1>2
      <4> QED BY <3>1, <4>1, <4>2
    <3>2. CASE \E g \in {o \in OpenGaps : o >= Earliest} : p \in Until(g)
      BY <1>2, <3>2
    <3> QED BY <1>5, <3>1, <3>2 DEF Planned
  <2> QED BY <1>3, <2>1
<1> QED BY <1>4, <1>5

LEMMA OpenIsPlanned ==
    ASSUME Typed, NEW g \in OpenGaps, g >= Earliest,
           NEW d \in Until(g) \cap (g .. gaps[<<g, "fetch_failed">>].end)
    PROVE  d \in Planned
<1> USE ArchiveAssumption
<1>1. today \in Int /\ Earliest \in Nat /\ g \in Int
  BY DEF Typed, TypeOK, Calendar, Earliest, Days, OpenGaps
<1>2. CASE bars = {}
  BY <1>1, <1>2 DEF Planned, Until
<1>3. CASE bars # {}
  BY <1>3 DEF Planned
<1> QED BY <1>2, <1>3

LEMMA LaterIsPlanned ==
    ASSUME Typed, NEW d \in Days, d < today, Earliest <= d,
           bars # {} => Watermark - Overlap <= d
    PROVE  d \in Planned
<1> USE ArchiveAssumption
<1>1. today \in Int /\ Earliest \in Nat /\ d \in Int
  BY DEF Typed, TypeOK, Calendar, Earliest, Days
<1>2. Watermark \in Int
  BY WatermarkIs DEF Typed, TypeOK, Days, NoDay
<1> QED BY <1>1, <1>2 DEF Planned, Until

\* Day d lies in a row of the ledger; the archive or a row has got past day x.
Recalled(d) == \E k \in DOMAIN gaps : gaps[k].state # "none" /\ d \in Span(k)
Passed(x) == \/ \E d \in bars : x < d
             \/ \E k \in DOMAIN gaps : gaps[k].state # "none" /\ x < gaps[k].end

\* A day that was passed without bars is in a row, even within the overlap.
Covered ==
    bars # {} => \A x \in Days \ (bars \cup Holidays \cup trimmed) :
                     since <= x /\ Passed(x) => Recalled(x)

\* Rows that are older than the first bar are of holidays.
OnlyHolidays ==
    bars = {} => \A k \in DOMAIN gaps : gaps[k].state # "none" => Span(k) \subseteq Holidays

\* A retention gap ends with the days that Yahoo has dropped.
Dropped ==
    \A k \in DOMAIN gaps :
        k[2] = "retention_expired" /\ gaps[k].state # "none" => gaps[k].end <= Earliest

\* What a scheduled run hands over accounts for all that it asked for.
Accounted ==
    LET b == run.bars
    IN  b.some => /\ b.got \cup b.failed = Windows(Planned) /\ b.got \cap b.failed = {}
                  /\ \A w \in b.got : ~(w \subseteq Holidays)
                  /\ b.got = {} => \A w \in b.failed : w \subseteq Holidays
                  /\ b.lost = Lost /\ b.watermark = Watermark /\ b.open = OpenGaps

Recall == Typed /\ (ranges = 0 => Covered /\ OnlyHolidays /\ Dropped /\ Accounted)

\* What a scheduled fetch hands over.
LEMMA FetchAccounts ==
    ASSUME Typed, FetchBars
    PROVE  Accounted'
<1>1. Fetch(Planned, Lost, OpenGaps) /\ UNCHANGED <<yahooVars, archive, ledgers, ranges>>
  BY DEF FetchBars
<1>2. UNCHANGED <<Planned, Lost, Watermark, OpenGaps>>
  BY <1>1 DEF Planned, Lost, Watermark, OpenGaps, Earliest, Until, yahooVars, archive, ledgers
<1>3. PICK windows \in {Windows(Planned)} : \E errors \in SUBSET windows :
          LET empty == {w \in windows \ errors : w \subseteq Holidays}
              got == windows \ (errors \cup empty)
          IN  /\ faults + Cardinality(errors) <= MaxFaults
              /\ faults' = faults + Cardinality(errors)
              /\ run' = [at |-> "fetched", splits |-> {},
                         bars |-> IF got = {} /\ errors # {} THEN NoBars
                                  ELSE [some |-> TRUE, got |-> got,
                                        failed |-> errors \cup empty,
                                        lost |-> Lost, watermark |-> Watermark,
                                        open |-> OpenGaps, at |-> effective]]
  BY <1>1, Zenon DEF Fetch
<1>4. PICK errors \in SUBSET windows, empty \in SUBSET windows, got \in SUBSET windows :
          /\ empty = {w \in windows \ errors : w \subseteq Holidays}
          /\ got = windows \ (errors \cup empty)
          /\ run' = [at |-> "fetched", splits |-> {},
                     bars |-> IF got = {} /\ errors # {} THEN NoBars
                              ELSE [some |-> TRUE, got |-> got,
                                    failed |-> errors \cup empty,
                                    lost |-> Lost, watermark |-> Watermark,
                                    open |-> OpenGaps, at |-> effective]]
  BY ZenonT(60), <1>3
<1>5. windows = Windows(Planned) /\ Windows(Planned)' = Windows(Planned)
  BY <1>2 DEF Windows, Slices, Stretch
<1>6. CASE got = {} /\ errors # {}
  BY <1>4, <1>6 DEF Accounted, NoBars
<1>7. CASE ~(got = {} /\ errors # {})
  <2>1. /\ run'.bars.got = got /\ run'.bars.failed = errors \cup empty
        /\ run'.bars.lost = Lost /\ run'.bars.watermark = Watermark
        /\ run'.bars.open = OpenGaps
    BY <1>4, <1>7
  <2>2. got \cup (errors \cup empty) = windows /\ got \cap (errors \cup empty) = {}
    BY <1>4
  <2>3. \A w \in got : ~(w \subseteq Holidays)
    BY <1>4
  <2>4. got = {} => \A w \in errors \cup empty : w \subseteq Holidays
    BY <1>4, <1>7
  <2> QED BY <1>2, <1>5, <2>1, <2>2, <2>3, <2>4 DEF Accounted
<1> QED BY <1>6, <1>7

\* What becomes of the rows when a scheduled run is written.
LEMMA RowsAfter ==
    ASSUME Recall, ranges = 0, run.at = "ready", run.bars.some,
           WriteGaps(run.bars), bars \subseteq bars', today' = today
    PROVE  /\ \A w \in run.bars.failed : \A d \in w : Recalled(d)'
           /\ run.bars.lost => \A d \in Days : Watermark < d /\ d < Earliest => Recalled(d)'
           /\ \A d \in Days : Recalled(d) => Recalled(d)' \/ d \in trimmed' \/ d \in Planned
           /\ Dropped'
           /\ \A k \in DOMAIN gaps' : gaps'[k].state # "none" =>
                  \/ gaps[k].state # "none" /\ Span(k)' = Span(k)
                  \/ \E w \in run.bars.failed : Span(k)' = w
                  \/ run.bars.lost
<1> USE ArchiveAssumption
<1> DEFINE b == run.bars
<1>1. /\ Typed /\ b.got \cup b.failed = Windows(Planned) /\ b.got \cap b.failed = {}
      /\ b.lost = Lost /\ b.watermark = Watermark /\ b.open = OpenGaps /\ Dropped
  BY DEF Recall, Accounted
<1>2. Planned \in SUBSET Days
  BY <1>1, PlannedIsOver DEF Typed, TypeOK, Days
<1>3. gaps \in [Days \X Reasons -> [end : Days \cup {NoDay}, state : {"none", "open", "closed"}]]
  BY <1>1 DEF Typed, TypeOK
<1>4. gaps' = [k \in Days \X Reasons |->
        IF k \in Closed(b) THEN [gaps[k] EXCEPT !.state = "closed"]
        ELSE IF \E r \in Recorded(b) : r.key = k
        THEN [end |-> (CHOOSE r \in Recorded(b) : r.key = k).end,
              state |-> IF gaps[k].state = "none" THEN "open" ELSE gaps[k].state]
        ELSE gaps[k]]
  BY <1>3 DEF WriteGaps
<1>5. DOMAIN gaps' = Days \X Reasons /\ DOMAIN gaps = Days \X Reasons
  BY <1>3, <1>4
\* A failed window has a row of its own.
<1>6. ASSUME NEW w \in b.failed
      PROVE  LET k == <<Oldest(w), "fetch_failed">>
             IN  k \in DOMAIN gaps' /\ gaps'[k].state # "none" /\ gaps'[k].end = Newest(w) + 1
  <2>1. w \in Windows(Planned) /\ Oldest(w) \in w /\ Oldest(w) \in Days
    BY <1>1, <1>2, WindowIsSpan, WindowsOf
  <2>2. PICK k \in Days \X Reasons : k = <<Oldest(w), "fetch_failed">>
    BY <2>1 DEF Reasons
  <2>3. k \notin Closed(b)
    <3> SUFFICES ASSUME k \in Closed(b) PROVE FALSE
      OBVIOUS
    <3>1. PICK v \in b.got : Oldest(w) \in v
      BY <2>2 DEF Closed
    <3>2. v = w
      BY <1>1, <1>2, <2>1, <3>1, WindowsDisjoint
    <3> QED BY <1>1, <3>1, <3>2
  <2>4. \E r \in Recorded(b) : r.key = k
    <3>1. [key |-> <<Oldest(w), "fetch_failed">>, end |-> Newest(w) + 1] \in Recorded(b)
      BY DEF Recorded
    <3> QED BY <2>2, <3>1
  <2>5. ASSUME NEW r \in Recorded(b), r.key = k PROVE r.end = Newest(w) + 1
    <3>1. PICK v \in b.failed : r.key = <<Oldest(v), "fetch_failed">> /\ r.end = Newest(v) + 1
      BY <2>2, <2>5 DEF Recorded
    <3>2. Oldest(v) = Oldest(w)
      BY <2>2, <2>5, <3>1
    <3>3. v \in Windows(Planned) /\ Oldest(v) \in v
      BY <1>1, <1>2, WindowIsSpan
    <3>4. v = w
      BY <1>2, <2>1, <3>2, <3>3, WindowsDisjoint
    <3> QED BY <3>1, <3>4
  <2>6. PICK r \in Recorded(b) : r = CHOOSE q \in Recorded(b) : q.key = k
    BY <2>4
  <2>7. r.key = k
    BY <2>4, <2>6
  <2>8. gaps'[k] = [end |-> r.end, state |-> IF gaps[k].state = "none" THEN "open" ELSE gaps[k].state]
    BY <1>4, <2>3, <2>4, <2>6
  <2>9. gaps'[k].state # "none" /\ gaps'[k].end = Newest(w) + 1
    BY <2>5, <2>7, <2>8
  <2> QED BY <1>5, <2>2, <2>9
<1>7. ASSUME NEW w \in b.failed
      PROVE  Span(<<Oldest(w), "fetch_failed">>)' = w
  <2>1. w \in Windows(Planned) /\ w \in SUBSET Days
    BY <1>1, <1>2, WindowsOf
  <2>2. w = Oldest(w) .. Newest(w) /\ w # {}
    BY <1>2, <2>1, WindowIsSpan, WindowsOf
  <2>3. Newest(w) \in Int
    <3>1. Newest(w) \in Days
      BY <1>2, <2>1, WindowsOf, NewestIs
    <3> QED BY <3>1 DEF Days
  <2> QED BY <1>6, <2>2, <2>3 DEF Span
\* The retention gap has a row, which ends with what Yahoo serves.
<1>8. ASSUME b.lost
      PROVE  LET k == <<Watermark, "retention_expired">>
             IN  k \in DOMAIN gaps' /\ gaps'[k].state # "none" /\ gaps'[k].end = Earliest
  <2>1. Watermark \in Days
    BY <1>1, <1>8, NewestIs DEF Lost, Watermark, Typed, TypeOK
  <2>2. PICK k \in Days \X Reasons : k = <<Watermark, "retention_expired">>
    BY <2>1 DEF Reasons
  <2>3. k \notin Closed(b)
    BY <2>2 DEF Closed
  <2>4. \E r \in Recorded(b) : r.key = k
    <3>1. [key |-> <<b.watermark, "retention_expired">>, end |-> Earliest] \in Recorded(b)
      BY <1>8 DEF Recorded
    <3> QED BY <1>1, <2>2, <3>1
  <2>5. ASSUME NEW r \in Recorded(b), r.key = k PROVE r.end = Earliest
    BY <2>2, <2>5 DEF Recorded
  <2>6. PICK r \in Recorded(b) : r = CHOOSE q \in Recorded(b) : q.key = k
    BY <2>4
  <2>7. r.key = k
    BY <2>4, <2>6
  <2>8. gaps'[k] = [end |-> r.end, state |-> IF gaps[k].state = "none" THEN "open" ELSE gaps[k].state]
    BY <1>4, <2>3, <2>4, <2>6
  <2>9. gaps'[k].state # "none" /\ gaps'[k].end = Earliest
    BY <2>5, <2>7, <2>8
  <2> QED BY <1>5, <2>2, <2>9
\* A row is recorded anew, or keeps its days.
<1>9. ASSUME NEW k \in DOMAIN gaps
      PROVE  \/ gaps'[k].end = gaps[k].end /\ (gaps'[k].state # "none" <=> gaps[k].state # "none")
             \/ \E w \in b.failed : k = <<Oldest(w), "fetch_failed">>
             \/ b.lost /\ k = <<Watermark, "retention_expired">>
  <2>1. CASE k \in Closed(b)
    <3>1. gaps'[k] = [gaps[k] EXCEPT !.state = "closed"]
      BY <1>4, <1>5, <2>1
    <3>2. gaps[k].state = "open"
      BY <1>1, <2>1 DEF Closed, OpenGaps
    <3>3. gaps[k] \in [end : Days \cup {NoDay}, state : {"none", "open", "closed"}]
      BY <1>3, <1>5
    <3>4. gaps'[k].end = gaps[k].end /\ gaps'[k].state = "closed"
      BY <3>1, <3>3
    <3> QED BY <3>2, <3>4
  <2>2. CASE k \notin Closed(b) /\ \E r \in Recorded(b) : r.key = k
    <3>1. PICK r \in Recorded(b) : r.key = k
      BY <2>2
    <3> QED BY <1>1, <3>1 DEF Recorded
  <2>3. CASE k \notin Closed(b) /\ ~\E r \in Recorded(b) : r.key = k
    <3>1. gaps'[k] = gaps[k]
      BY <1>4, <1>5, <2>3
    <3> QED BY <3>1
  <2> QED BY <2>1, <2>2, <2>3
<1> HIDE DEF b
<1>10. \A w \in b.failed : \A d \in w : Recalled(d)'
  <2> SUFFICES ASSUME NEW w \in b.failed, NEW d \in w PROVE Recalled(d)'
    OBVIOUS
  <2>1. PICK k \in DOMAIN gaps' : k = <<Oldest(w), "fetch_failed">> /\ gaps'[k].state # "none"
    BY <1>6
  <2>2. d \in Span(k)'
    BY <1>7, <2>1
  <2> QED BY <2>1, <2>2 DEF Recalled
<1>11. ASSUME b.lost, NEW d \in Days, Watermark < d, d < Earliest PROVE Recalled(d)'
  <2>1. PICK k \in DOMAIN gaps' : k = <<Watermark, "retention_expired">>
                                  /\ gaps'[k].state # "none" /\ gaps'[k].end = Earliest
    BY <1>8, <1>11
  <2>2. Watermark \in Days /\ Earliest \in Int
    <3>1. Watermark \in Days
      BY <1>1, <1>11, NewestIs DEF Lost, Watermark, Typed, TypeOK
    <3> QED BY <1>1, <3>1 DEF Earliest, Typed, TypeOK, Days
  <2>3. Span(k)' = (Watermark + 1) .. (Earliest - 1)
    BY <2>1 DEF Span
  <2>4. d \in Span(k)'
    BY <2>2, <2>3, <1>11 DEF Days
  <2> QED BY <2>1, <2>4 DEF Recalled
<1>12. ASSUME NEW d \in Days, Recalled(d)
       PROVE  Recalled(d)' \/ d \in trimmed' \/ d \in Planned
  <2>1. PICK k \in DOMAIN gaps : gaps[k].state # "none" /\ d \in Span(k)
    BY <1>12 DEF Recalled
  <2>2. CASE gaps'[k].end = gaps[k].end /\ gaps'[k].state # "none"
    <3>1. d \in Span(k)'
      BY <2>1, <2>2 DEF Span
    <3> QED BY <1>5, <2>1, <2>2, <3>1 DEF Recalled
  <2>3. CASE \E w \in b.failed : k = <<Oldest(w), "fetch_failed">>
    <3>1. PICK w \in b.failed : k = <<Oldest(w), "fetch_failed">>
      BY <2>3
    <3>2. Oldest(w) \in Planned
      BY <1>1, <1>2, WindowIsSpan, WindowsOf
    <3>3. k[1] = Oldest(w) /\ k[2] = "fetch_failed" /\ k[1] \in Days /\ k[1] >= Earliest
      <4>1. k[1] = Oldest(w) /\ k[2] = "fetch_failed"
        BY <3>1
      <4>2. ASSUME NEW p \in Planned PROVE p >= Earliest
        BY <1>1, PlannedFromEarliest
      <4> QED BY <1>2, <3>2, <4>1, <4>2
    <3>4. CASE gaps[k].state = "closed"
      <4>1. d \in Span(k)' \/ d \in trimmed'
        BY <2>1, <3>4 DEF WriteGaps, Trim
      <4>2. gaps'[k].state # "none"
        BY <1>6, <3>1
      <4> QED BY <1>5, <2>1, <4>1, <4>2 DEF Recalled
    <3>5. CASE gaps[k].state = "open"
      <4>1. k[1] \in OpenGaps /\ k = <<k[1], "fetch_failed">>
        <5>1. k = <<k[1], "fetch_failed">>
          BY <3>1
        <5> QED BY <3>3, <3>5, <5>1 DEF OpenGaps
      <4>2. d \in k[1] .. (gaps[k].end - 1)
        BY <2>1, <3>3 DEF Span
      <4>3. gaps[k].end <= today /\ gaps[k].end \in Int /\ today \in Int /\ k[1] \in Int
        BY <1>1, <1>3, <1>5, <3>3 DEF Typed, Calendar, TypeOK, Days, NoDay
      <4>4. d \in Until(k[1]) \cap (k[1] .. gaps[k].end)
        BY <4>2, <4>3 DEF Until
      <4> QED BY <1>1, <1>2, <3>3, <4>1, <4>4, OpenIsPlanned
    <3> QED BY <1>3, <1>5, <2>1, <3>4, <3>5
  <2>4. CASE b.lost /\ k = <<Watermark, "retention_expired">>
    <3>1. gaps'[k].end = Earliest /\ gaps'[k].state # "none"
      BY <1>8, <2>4
    <3>2. k[1] \in Days /\ gaps[k].end <= Earliest /\ gaps[k].end \in Int /\ Earliest \in Int
      BY <1>1, <1>3, <1>5, <2>1, <2>4 DEF Dropped, Earliest, Typed, TypeOK, Days, NoDay
    <3>3. d \in (k[1] + 1) .. (gaps[k].end - 1)
      BY <2>1, <2>4 DEF Span
    <3>4. d \in (k[1] + 1) .. (Earliest - 1)
      BY <3>2, <3>3 DEF Days
    <3>5. d \in Span(k)'
      BY <2>4, <3>1, <3>4 DEF Span
    <3> QED BY <1>5, <2>1, <3>1, <3>5 DEF Recalled
  <2> QED BY <1>9, <2>1, <2>2, <2>3, <2>4
<1>13. Dropped'
  <2> SUFFICES ASSUME NEW k \in DOMAIN gaps', k[2] = "retention_expired", gaps'[k].state # "none"
               PROVE  gaps'[k].end <= Earliest
    BY DEF Dropped, Earliest
  <2>1. ~\E w \in b.failed : k = <<Oldest(w), "fetch_failed">>
    OBVIOUS
  <2>2. CASE gaps'[k].end = gaps[k].end /\ gaps[k].state # "none"
    BY <1>1, <1>5, <2>2 DEF Dropped
  <2>3. CASE b.lost /\ k = <<Watermark, "retention_expired">>
    <3>1. gaps'[k].end = Earliest /\ Earliest \in Int
      BY <1>1, <1>8, <2>3 DEF Earliest, Typed, TypeOK, Days
    <3> QED BY <3>1
  <2> QED BY <1>5, <1>9, <2>1, <2>2, <2>3
<1>14. ASSUME NEW k \in DOMAIN gaps', gaps'[k].state # "none"
       PROVE  \/ gaps[k].state # "none" /\ Span(k)' = Span(k)
              \/ \E w \in b.failed : Span(k)' = w
              \/ b.lost
  <2>1. CASE gaps'[k].end = gaps[k].end /\ gaps[k].state # "none"
    BY <2>1 DEF Span
  <2>2. CASE \E w \in b.failed : k = <<Oldest(w), "fetch_failed">>
    BY <1>7, <2>2
  <2> QED BY <1>5, <1>9, <1>14, <2>1, <2>2
<1> QED BY <1>10, <1>11, <1>12, <1>13, <1>14 DEF b

\* The days of one window of a payload, and all of them.
LEMMA PlanIsShared ==
    ASSUME Recall, ranges = 0, run.bars.some
    PROVE  /\ Planned = UNION (run.bars.got \cup run.bars.failed)
           /\ Planned \in SUBSET Days
<1>1. Planned \in SUBSET Days
  <2>1. Planned \in SUBSET (0 .. (today - 1)) /\ today \in Days
    BY PlannedIsOver DEF Recall, Typed, TypeOK
  <2> QED BY <2>1, ArchiveAssumption DEF Days
<1>2. run.bars.got \cup run.bars.failed = Windows(Planned)
  BY DEF Recall, Accounted
<1> QED BY <1>1, <1>2, WindowsCover, WindowsOf

LEMMA RecallPersist ==
    ASSUME Recall, Persist, run.bars.some, ranges = 0, Typed'
    PROVE  Covered' /\ OnlyHolidays' /\ Dropped' /\ Accounted'
<1> USE ArchiveAssumption
<1> DEFINE b == run.bars
<1>1. /\ WriteBars(b) /\ WriteGaps(b) /\ run.at = "ready"
      /\ run' = IdleRun /\ today' = today /\ bars' = bars \cup Frame(b)
  BY DEF Persist, yahooVars, WriteBars
<1>2. /\ Typed /\ Covered /\ OnlyHolidays /\ Accounted
  BY DEF Recall
<1>3. /\ \A w \in b.failed : \A d \in w : Recalled(d)'
      /\ b.lost => \A d \in Days : Watermark < d /\ d < Earliest => Recalled(d)'
      /\ \A d \in Days : Recalled(d) => Recalled(d)' \/ d \in trimmed' \/ d \in Planned
      /\ Dropped'
      /\ \A k \in DOMAIN gaps' : gaps'[k].state # "none" =>
             \/ gaps[k].state # "none" /\ Span(k)' = Span(k)
             \/ \E w \in b.failed : Span(k)' = w
             \/ b.lost
  BY <1>1, RowsAfter
<1>4. Accounted'
  BY <1>1 DEF Accounted, IdleRun, NoBars
<1>5. trimmed \subseteq trimmed'
  BY <1>1 DEF WriteGaps, Trim
<1>6. Planned = UNION (b.got \cup b.failed) /\ Planned \in SUBSET Days
  BY PlanIsShared
<1>7. ASSUME NEW d \in Planned, d \notin bars' \cup Holidays
      PROVE  Recalled(d)'
  <2>1. d \notin UNION b.got
    <3>1. d \notin Frame(b) /\ d \notin Holidays
      BY <1>1, <1>7
    <3> QED BY <3>1 DEF Frame, b
  <2> QED BY <1>3, <1>6, <2>1
<1> HIDE DEF b
<1>8. Covered'
  <2> SUFFICES ASSUME bars' # {}, NEW x \in Days, x \notin bars', x \notin Holidays,
                      x \notin trimmed', since' <= x, Passed(x)'
               PROVE  Recalled(x)'
    BY DEF Covered
  <2>1. today \in Int /\ x \in Int /\ Earliest \in Nat
    BY <1>2 DEF Typed, TypeOK, Calendar, Earliest, Days
  <2>2. x < today
    <3>1. CASE \E d \in bars' : x < d
      <4>1. \A d \in bars' : d \in Int /\ d < today
        <5>1. bars' \subseteq 0 .. (today' - 1)
          BY DEF Typed, Calendar
        <5>2. today' = today
          BY <1>1
        <5> QED BY <2>1, <5>1, <5>2
      <4> QED BY <2>1, <3>1, <4>1
    <3>2. CASE \E k \in DOMAIN gaps' : x < gaps'[k].end
      <4>1. PICK k \in DOMAIN gaps' : x < gaps'[k].end
        BY <3>2
      <4>2. gaps'[k].end <= today /\ gaps'[k].end \in Int
        BY <1>1 DEF Typed, TypeOK, Calendar, Days, NoDay
      <4> QED BY <2>1, <4>1, <4>2
    <3> QED BY <3>1, <3>2 DEF Passed
  <2>3. CASE bars = {}
    <3>1. Frame(b) # {} /\ since' = Oldest(UNION (b.got \cup b.failed))
      BY <1>1, <2>3 DEF WriteBars
    <3>2. Planned # {} /\ since' \in Planned
      <4>1. Planned # {}
        BY <1>6, <3>1 DEF Frame
      <4>2. Oldest(Planned) \in Planned
        BY <1>6, <4>1, OldestIs
      <4> QED BY <1>6, <3>1, <4>1, <4>2
    <3>3. since' >= Earliest /\ since' \in Int
      BY <1>2, <1>6, <3>2, PlannedFromEarliest DEF Days
    <3>4. Earliest <= x
      BY <2>1, <3>3
    <3>5. x \in Planned
      BY <1>2, <2>2, <2>3, <3>4, LaterIsPlanned
    <3> QED BY <1>7, <3>5
  <2>4. CASE bars # {}
    <3>1. since' = since /\ Watermark \in bars /\ Watermark \in Int
      <4>1. since' = since
        BY <1>1, <2>4 DEF WriteBars
      <4>2. Watermark \in bars
        BY <1>2, <2>4, NewestIs DEF Watermark, Typed, TypeOK
      <4> QED BY <1>2, <4>1, <4>2 DEF Typed, TypeOK, Days
    <3>2. CASE x < Watermark
      <4>1. Passed(x)
        BY <3>1, <3>2 DEF Passed
      <4>2. Recalled(x)
        BY <1>1, <1>2, <1>5, <2>4, <3>1, <4>1 DEF Covered
      <4> QED BY <1>3, <1>7, <4>2
    <3>3. CASE x > Watermark
      <4>1. Watermark - Overlap <= x /\ Watermark - Overlap \in Int /\ Watermark - Overlap <= Watermark
        BY <2>1, <3>1, <3>3
      <4>2. CASE Earliest <= x
        <5>1. x \in Planned
          BY <1>2, <2>2, <4>1, <4>2, LaterIsPlanned
        <5> QED BY <1>7, <5>1
      <4>3. CASE x < Earliest
        <5>1. Lost
          BY <2>1, <2>4, <3>1, <3>3, <4>1, <4>3 DEF Lost
        <5>2. b.lost
          BY <1>2, <5>1 DEF Accounted, b
        <5> QED BY <1>3, <3>3, <4>3, <5>2
      <4> QED BY <2>1, <4>2, <4>3
    <3>4. x # Watermark
      BY <1>1, <3>1
    <3> QED BY <2>1, <3>1, <3>2, <3>3, <3>4
  <2> QED BY <2>3, <2>4
<1>9. OnlyHolidays'
  <2> SUFFICES ASSUME bars' = {}, NEW k \in DOMAIN gaps', gaps'[k].state # "none"
               PROVE  Span(k)' \subseteq Holidays
    BY DEF OnlyHolidays
  <2>1. bars = {} /\ Frame(b) = {}
    BY <1>1
  <2>2. \A w \in b.failed : w \subseteq Holidays
    <3>1. \A w \in b.got : ~(w \subseteq Holidays)
      BY <1>2 DEF Accounted, b
    <3>2. ASSUME NEW w \in b.got PROVE FALSE
      <4>1. PICK d \in w : d \notin Holidays
        BY <3>1
      <4>2. d \in Frame(b)
        BY <4>1 DEF Frame
      <4> QED BY <2>1, <4>2
    <3>3. b.got = {}
      BY <3>2
    <3> QED BY <1>2, <3>3 DEF Accounted, b
  <2>3. ~b.lost
    BY <1>2, <2>1 DEF Accounted, Lost, b
  <2>4. DOMAIN gaps' = DOMAIN gaps
    BY <1>1, <1>2 DEF WriteGaps, Typed, TypeOK
  <2> QED BY <1>2, <1>3, <2>1, <2>2, <2>3, <2>4 DEF OnlyHolidays
<1> QED BY <1>3, <1>4, <1>8, <1>9

\* Ticks fill days of a row, which stays in the ledger.
LEMMA RecallReconcile ==
    ASSUME Recall, ranges = 0, NEW k \in DOMAIN gaps, Reconcile(k)
    PROVE  Covered' /\ OnlyHolidays' /\ Dropped' /\ Accounted'
<1> USE ArchiveAssumption
<1>1. /\ Typed /\ Covered /\ OnlyHolidays /\ Dropped
      /\ run.at = "idle" /\ gaps[k].state = "open"
      /\ gaps' = [gaps EXCEPT ![k].state = "closed"]
      /\ UNCHANGED <<yahooVars, since, trimmed, run>>
  BY DEF Recall, Reconcile
<1>2. PICK new \in SUBSET Days :
          /\ new = (Span(k) \cap TickDays) \ (bars \cup Holidays)
          /\ new # {} /\ bars' = bars \cup new
  BY DEF Reconcile
<1>3. gaps \in [Days \X Reasons -> [end : Days \cup {NoDay}, state : {"none", "open", "closed"}]]
  BY <1>1 DEF Typed, TypeOK
<1>4. /\ DOMAIN gaps' = DOMAIN gaps
      /\ \A j \in DOMAIN gaps : gaps'[j].end = gaps[j].end
                                /\ (gaps'[j].state # "none" <=> gaps[j].state # "none")
  BY <1>1, <1>3
<1>5. \A j \in DOMAIN gaps : Span(j)' = Span(j)
  BY <1>4 DEF Span
<1>6. \A d \in Days : Recalled(d) => Recalled(d)'
  BY <1>4, <1>5 DEF Recalled
<1>7. bars # {}
  BY <1>1, <1>2 DEF OnlyHolidays
<1>8. ASSUME NEW d \in new PROVE d < gaps[k].end /\ d \in Int /\ gaps[k].end \in Int
  <2>1. k \in Days \X Reasons /\ gaps[k].end \in Days \cup {NoDay}
    BY <1>3
  <2>2. d \in Span(k) /\ d \in Days
    BY <1>2
  <2> QED BY <2>1, <2>2 DEF Span, Days, NoDay
<1>9. ASSUME NEW x \in Days, Passed(x)' PROVE Passed(x)
  <2>1. CASE \E d \in new : x < d
    <3>1. PICK d \in new : x < d
      BY <2>1
    <3>2. x \in Int /\ d < gaps[k].end /\ d \in Int /\ gaps[k].end \in Int
      <4>1. x \in Int
        BY DEF Days
      <4> QED BY <1>8, <4>1
    <3>3. x < gaps[k].end
      BY <3>1, <3>2
    <3> QED BY <1>1, <3>3 DEF Passed
  <2>2. CASE \E d \in bars : x < d
    BY <2>2 DEF Passed
  <2>3. CASE \E j \in DOMAIN gaps : gaps'[j].state # "none" /\ x < gaps'[j].end
    BY <1>4, <2>3 DEF Passed
  <2> QED BY <1>2, <1>4, <1>9, <2>1, <2>2, <2>3 DEF Passed
<1>10. Covered'
  BY <1>1, <1>2, <1>6, <1>7, <1>9 DEF Covered
<1>11. OnlyHolidays'
  BY <1>2 DEF OnlyHolidays
<1>12. Dropped'
  BY <1>1, <1>4 DEF Dropped, Earliest, yahooVars
<1>13. Accounted'
  BY <1>1 DEF Accounted, Typed, Calendar, IdleRun, NoBars
<1> QED BY <1>10, <1>11, <1>12, <1>13

\* Steps that leave bars, gaps and, while a payload is in flight, the day alone.
LEMMA RecallKept ==
    ASSUME Recall, ranges = 0, UNCHANGED <<bars, since, gaps, trimmed>>,
           today' >= today, today' \in Int,
           \/ run'.bars = run.bars /\ today' = today
           \/ ~run'.bars.some
    PROVE  Covered' /\ OnlyHolidays' /\ Dropped' /\ Accounted'
<1> USE ArchiveAssumption
<1>1. Typed /\ Covered /\ OnlyHolidays /\ Dropped /\ Accounted
  BY DEF Recall
<1>2. Covered'
  BY <1>1 DEF Covered, Passed, Recalled, Span
<1>3. OnlyHolidays'
  BY <1>1 DEF OnlyHolidays, Span
<1>4. Dropped'
  <2>1. Earliest' >= Earliest /\ Earliest \in Int /\ Earliest' \in Int
    <3>1. today \in Int /\ Depth \in Int /\ today' \in Int /\ today' >= today
      BY <1>1 DEF Typed, TypeOK, Days
    <3>2. \A a, b, c \in Int : b >= a => b - c >= a - c /\ a - c \in Int /\ b - c \in Int
      OBVIOUS
    <3>3. today' - Depth >= today - Depth /\ today - Depth \in Int /\ today' - Depth \in Int
      BY <3>1, <3>2
    <3> QED BY <3>3 DEF Earliest
  <2>2. \A k \in DOMAIN gaps : gaps[k].end \in Int
    <3>1. \A k \in DOMAIN gaps : gaps[k].end \in Days \cup {NoDay}
      BY <1>1 DEF Typed, TypeOK
    <3>2. Days \cup {NoDay} \subseteq Int
      BY DEF Days, NoDay
    <3> QED BY <3>1, <3>2
  <2>3. ASSUME NEW k \in DOMAIN gaps, k[2] = "retention_expired", gaps[k].state # "none"
        PROVE  gaps[k].end <= Earliest'
    <3>1. gaps[k].end <= Earliest
      BY <1>1, <2>3 DEF Dropped
    <3> QED BY <2>1, <2>2, <3>1
  <2> QED BY <2>3 DEF Dropped
<1>5. Accounted'
  <2>1. CASE ~run'.bars.some
    BY <2>1 DEF Accounted
  <2>2. CASE run'.bars = run.bars /\ today' = today
    <3>1. UNCHANGED <<Planned, Lost, Watermark, OpenGaps>>
      BY <2>2 DEF Planned, Lost, Watermark, OpenGaps, Earliest, Until
    <3>2. Windows(Planned)' = Windows(Planned)
      BY <3>1 DEF Windows, Slices, Stretch
    <3> QED BY <1>1, <2>2, <3>1, <3>2 DEF Accounted
  <2> QED BY <2>1, <2>2
<1> QED BY <1>2, <1>3, <1>4, <1>5

LEMMA RecallStep == Recall /\ [Next]_vars => Recall'
<1> SUFFICES ASSUME Recall, [Next]_vars PROVE Recall'
  OBVIOUS
<1> USE ArchiveAssumption
<1>0. Typed /\ Typed'
  BY TypedStep DEF Recall
<1> SUFFICES ASSUME ranges' = 0 PROVE Covered' /\ OnlyHolidays' /\ Dropped' /\ Accounted'
  BY <1>0 DEF Recall
<1>a. today \in Int /\ today >= today
  BY <1>0 DEF Typed, TypeOK, Days
<1>1. CASE FetchBars
  <2>1. UNCHANGED <<bars, since, gaps, trimmed, today, ranges>>
    BY <1>1 DEF FetchBars, yahooVars, archive, ledgers
  <2>2. Covered' /\ OnlyHolidays' /\ Dropped'
    BY <2>1 DEF Recall, Covered, OnlyHolidays, Dropped, Passed, Recalled, Span, Earliest
  <2> QED BY <1>0, <1>1, <2>2, FetchAccounts
<1>2. CASE FetchRange
  BY <1>0, <1>2 DEF FetchRange, Typed, TypeOK
<1>3. CASE FetchNoBars
  <2>1. UNCHANGED <<bars, since, gaps, trimmed, today, ranges>> /\ ~run'.bars.some
    BY <1>3 DEF FetchNoBars, yahooVars, archive, ledgers, boundVars, IdleRun, NoBars
  <2> QED BY <1>a, <2>1, RecallKept
<1>4. CASE FetchSplits
  <2>1. UNCHANGED <<bars, since, gaps, trimmed, today, ranges>> /\ run'.bars = run.bars
    BY <1>0, <1>4 DEF FetchSplits, yahooVars, archive, ledgers, Typed, TypeOK
  <2> QED BY <1>a, <2>1, RecallKept
<1>5. CASE Persist
  <2>1. ranges = 0 /\ today' = today /\ ~run'.bars.some
    BY <1>5 DEF Persist, yahooVars, boundVars, IdleRun, NoBars
  <2>2. CASE run.bars.some
    BY <1>0, <1>5, <2>1, <2>2, RecallPersist
  <2>3. CASE ~run.bars.some
    <3>1. UNCHANGED <<bars, since, gaps, trimmed>>
      BY <1>5, <2>3 DEF Persist, archive
    <3> QED BY <1>a, <2>1, <3>1, RecallKept
  <2> QED BY <2>2, <2>3
<1>6. CASE LoseRun
  <2>1. UNCHANGED <<bars, since, gaps, trimmed, today, ranges>> /\ ~run'.bars.some
    BY <1>6 DEF LoseRun, yahooVars, archive, ledgers, IdleRun, NoBars
  <2> QED BY <1>a, <2>1, RecallKept
<1>7. CASE \E s \in Splits : YahooSplits(s)
  <2>1. UNCHANGED <<bars, since, gaps, trimmed, today, ranges, run>>
    BY <1>7 DEF YahooSplits, archive, ledgers, boundVars
  <2> QED BY <1>a, <2>1, RecallKept
<1>8. CASE NextDay
  <2>1. UNCHANGED <<bars, since, gaps, trimmed, ranges, run>> /\ today' = today + 1 /\ run.at = "idle"
    BY <1>8 DEF NextDay, archive, ledgers, boundVars
  <2>2. ~run'.bars.some
    BY <1>0, <2>1 DEF Typed, Calendar, IdleRun, NoBars
  <2>3. today' >= today /\ today' \in Int
    BY <1>a, <2>1
  <2> QED BY <2>1, <2>2, <2>3, RecallKept
<1>9. CASE RescaleByHand
  <2>1. UNCHANGED <<bars, since, gaps, trimmed, today, ranges, run>>
    BY <1>9 DEF RescaleByHand, yahooVars, boundVars
  <2> QED BY <1>a, <2>1, RecallKept
<1>10. CASE SeedBaseline
  <2>1. UNCHANGED <<bars, since, gaps, trimmed, today, ranges, run>>
    BY <1>10 DEF SeedBaseline, yahooVars, boundVars
  <2> QED BY <1>a, <2>1, RecallKept
<1>11. CASE \E k \in DOMAIN gaps : Reconcile(k)
  <2>1. ranges = 0
    BY <1>11 DEF Reconcile, boundVars
  <2> QED BY <1>11, <2>1, RecallReconcile
<1>12. CASE UNCHANGED vars
  <2>1. UNCHANGED <<bars, since, gaps, trimmed, today, ranges, run>>
    BY <1>12 DEF vars, yahooVars, archive, ledgers, boundVars
  <2> QED BY <1>a, <2>1, RecallKept
<1> QED BY <1>1, <1>2, <1>3, <1>4, <1>5, <1>6, <1>7, <1>8, <1>9, <1>10, <1>11, <1>12
        DEF Next, SyncStep

LEMMA RecallInit == Init => Recall
<1> SUFFICES ASSUME Init PROVE Recall
  OBVIOUS
<1>1. Typed
  BY TypedInit
<1>2. bars = {} /\ \A k \in DOMAIN gaps : gaps[k].state = "none"
  BY DEF Init, NoRow
<1>3. ~run.bars.some
  BY DEF Init, IdleRun, NoBars
<1> QED BY <1>1, <1>2, <1>3 DEF Recall, Covered, OnlyHolidays, Dropped, Accounted

\* In an archive that scheduled runs alone have filled, every day that was passed
\* without bars is in a row of the ledger, whatever requests and runs fail and
\* whatever ticks fill, for any calendar; unless a resolved row that was recorded
\* anew has been cut short before it.
THEOREM HolesAreRecorded == Spec => []LedgerHolds
<1>1. Recall => LedgerHolds
  <2> SUFFICES ASSUME Recall PROVE LedgerHolds
    OBVIOUS
  <2> USE ArchiveAssumption
  <2>1. Typed
    BY DEF Recall
  <2>2. ASSUME ranges = 0, NEW d \in Holes \ trimmed
        PROVE  \E k \in DOMAIN gaps : gaps[k].state # "none" /\ d \in Span(k)
    <3>1. d \in Days /\ d \notin Holidays /\ bars # {} /\ since <= d /\ d \notin bars
          /\ d < Watermark - Overlap
      BY <2>2 DEF Holes
    <3>2. Watermark \in bars /\ Watermark \in Int /\ d \in Int
      <4>1. Watermark \in bars
        BY <2>1, <3>1, NewestIs DEF Watermark, Typed, TypeOK
      <4> QED BY <2>1, <3>1, <4>1 DEF Typed, TypeOK, Days
    <3>3. d < Watermark
      BY <3>1, <3>2
    <3>4. Passed(d)
      BY <3>2, <3>3 DEF Passed
    <3> QED BY <2>2, <3>1, <3>4 DEF Recall, Covered, Recalled
  <2> QED BY <2>1, <2>2 DEF Typed, LedgerHolds, HolesOnLedger
<1> QED BY RecallInit, RecallStep, <1>1, PTL DEF Spec
===============================================================================

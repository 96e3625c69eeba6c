------------------------------- MODULE ApiProofs -------------------------------
(***************************************************************************)
(* What the read API promises, for every size of its plans, its windows    *)
(* and its bounds: its counters keep to their limits (LimitsHeld), what    *)
(* was charged is what was used (UsageHonest), no token outlives what it   *)
(* was minted from (RevocationHolds), and a collection whose sort key is   *)
(* its primary key is paged exactly once (PagedOnce).                      *)
(*                                                                         *)
(* Three inductive invariants, one a side of the API: what a request has   *)
(* done to each counter, what is known of each command and token, and      *)
(* where the cursor of a walk stands among the rows.                       *)
(***************************************************************************)
EXTENDS Api, FiniteSetTheorems, WellFoundedInduction, TLAPS

--------------------------------------------------------------------------------
(* The invariant of the metering. *)

Request ==
    [pc : {"new", "consume", "acquire", "handler", "full", "release", "decr",
           "account", "giveback", "record", "done"},
     stamp : 0..MaxNow,
     status : {"none", "refused", "full", "billed", "error", "raised", "cancelled", "died"},
     holds : BOOLEAN, since : {None} \cup 0..MaxNow,
     unit : {None} \cup Periods, back : {None} \cup Periods, day : {None} \cup Periods,
     clean : BOOLEAN, next : {"done", "account"}]

Flush == [pc : {"idle", "read", "delete"}, days : SUBSET Periods, counts : Nat]
Written == [by : {None} \cup Flushers, n : Nat]

MeterTyped ==
    /\ now \in 0..MaxNow
    /\ req \in [Requests -> Request]
    /\ bucket \in [tokens : 0..Burst, ts : 0..MaxNow, until : Nat]
    /\ quota \in [Periods -> Int]
    /\ slots \in [n : Int, until : Nat]
    /\ buffer \in [Periods -> Nat] /\ table \in [Periods -> Nat]
    /\ expires \in [Periods -> Nat] /\ written \in [Periods -> Written]
    /\ flush \in [Flushers -> Flush]
    /\ setback \in Nat
    /\ late \subseteq Requests /\ met \subseteq Requests

\* A request whose call to the bucket is under way read the clock a tick ago at most.
Clocked ==
    /\ bucket.ts <= now
    /\ \A r \in Requests :
          /\ req[r].since <= now
          /\ req[r].pc = "consume" => req[r].stamp \in {now - 1, now}
          /\ req[r].day <= PeriodOf(now)

\* What a request has been told, by where it is.
Told(q) ==
    /\ q.pc \in {"new", "consume", "acquire", "handler"} => q.status = "none"
    /\ q.pc = "full" => q.status = "full"
    /\ q.pc = "release" => q.status \in {"billed", "error", "raised", "cancelled"}
    /\ q.pc = "account" => q.status \in {"billed", "error", "raised"}
    /\ q.pc = "giveback" => q.status \in {"error", "raised"}
    /\ q.pc = "record" => q.status = "billed"
    /\ q.pc = "decr" => /\ q.status \in {"full", "billed", "error", "raised", "cancelled"}
                        /\ q.next = IF q.status = "full" THEN "done" ELSE After("release", q.status)
    /\ q.pc = "done" => q.status # "none"

\* It has not been accounted for yet.
Due(q) ==
    \/ q.pc \in {"new", "consume", "acquire", "handler", "full", "account"}
    \/ q.pc = "release" /\ q.status # "raised"
    \/ q.pc = "decr" /\ q.next = "account"

\* What it took and gave back, by where it is and what it was told.
Settled(q) ==
    /\ Due(q) => q.back = None /\ q.day = None
    /\ q.pc = "record" => q.day # None
    /\ q.pc = "giveback" => q.back # None
    /\ q.status \in {"none", "refused", "full", "cancelled", "error", "raised"} => q.day = None
    /\ q.status \in {"none", "refused", "full", "cancelled", "billed"} => q.back = None
    /\ q.pc \in {"new", "consume"} => q.unit = None
    /\ q.clean => /\ q.unit = None <=> q.pc \in {"new", "consume"} \/ q.status = "refused"
                  /\ q.status # "died"
                  /\ q.status = "billed" /\ q.pc = "done" => q.day # None

Slotted(q) ==
    /\ q.pc \in {"new", "consume", "acquire"} => q.since = None
    /\ q.pc \in {"full", "decr"} => q.since # None
    /\ q.holds => q.since # None /\ q.pc \notin {"new", "consume", "acquire", "full", "decr"}

Courses == \A r \in Requests : Told(req[r]) /\ Settled(req[r]) /\ Slotted(req[r])

\* The requests the count of the slots includes.
Counted == {r \in Requests : Gives(r)}
Running == {r \in Requests : req[r].holds /\ req[r].pc # "done"}

\* The count misses no more of them than have outlived their slots, and lives as long
\* as the slot of any other.
SlotsCount ==
    /\ Held >= Cardinality(Counted) - Cardinality(late)
    /\ Cardinality(Running) <= MaxConcurrency + Cardinality(late)
    /\ \A r \in Counted \ late : now < req[r].since + SlotTtl /\ req[r].since + SlotTtl <= slots.until

\* A unit granted is a token of the burst, or one that time, or the clock set back,
\* refilled; the key is gone when it would have been full.
BucketCount ==
    /\ Cardinality({r \in Requests : req[r].unit # None}) + bucket.tokens <= Burst + bucket.ts + setback
    /\ IF bucket.until = 0 THEN \A r \in Requests : req[r].unit = None
       ELSE bucket.ts + Burst + 1 <= bucket.until

QuotaCount ==
    \A p \in Periods : /\ quota[p] = Cardinality(Units(p)) - Cardinality(Backs(p))
                       /\ quota[p] <= QuotaLimit

\* A counter covers the refunds that have read it, but for those that overlapped.
RefundCount ==
    \A p \in Periods :
        LET waiting == Cardinality(Refunding(p)) IN
            quota[p] >= waiting \/ waiting - quota[p] < Cardinality(Met(p))

Spoilt(d) == \E why \in {"failed", "today", "late", "expired"} : <<d, why>> \in spoiled
Overlapped(d) == <<d, "overlap">> \in spoiled
Recorded(d) == {r \in Requests : req[r].day = d /\ req[r].pc # "record"}

\* What a flush has read of a day is what is in the buffer, but for what comes later;
\* and no two read a day at once that is not said to overlap.
ReadsHold(f) ==
    flush[f].pc = "delete" =>
        /\ flush[f].days # {}
        /\ flush[f].counts < buffer[Day(f)] \/ Day(f) = PeriodOf(now) => Spoilt(Day(f))
Flushing ==
    /\ \A d \in Periods : buffer[d] > 0 => d <= PeriodOf(now)
    /\ \A f \in Flushers : \A d \in flush[f].days : d <= PeriodOf(now)
    /\ \A f \in Flushers : ReadsHold(f)
    /\ \A d \in Periods, f \in Flushers, g \in Flushers :
          f # g /\ Reading(f, d) /\ Reading(g, d) => Overlapped(d)

InRows(d) == table[d] + written[d].n
DayHolds(d) ==
    /\ InRows(d) + buffer[d] < Cardinality(Recorded(d)) => Spoilt(d)
    /\ ~Overlapped(d) =>
          /\ InRows(d) + buffer[d] <= Cardinality(Recorded(d))
          /\ \A f \in Flushers : Reading(f, d) => InRows(d) + flush[f].counts <= Cardinality(Recorded(d))
DayCount == \A d \in Periods : DayHolds(d)

MeterInv == MeterTyped /\ Clocked /\ Courses /\ SlotsCount /\ BucketCount /\ QuotaCount
            /\ RefundCount /\ Flushing /\ DayCount

--------------------------------------------------------------------------------
(* Facts the proofs keep needing. *)

\* What the constants are.
LEMMA Sizes ==
    /\ TokenTtl \in Nat /\ Leeway \in Nat /\ MaxLive \in Nat \ {0} /\ FallbackLimit \in Nat
    /\ DefaultSize \in Nat /\ MaxNow \in Nat
    /\ Grace \in Nat \ {0} /\ FailureLimit \in Nat \ {0} /\ FailureBlock \in Nat \ {0}
    /\ MaxSecrets \in Nat \ {0}
    /\ Burst \in Nat \ {0} /\ QuotaLimit \in Nat \ {0} /\ MaxConcurrency \in Nat \ {0}
    /\ SlotTtl \in Nat \ {0} /\ UsageTtl \in Nat \ {0} /\ Period \in Nat \ {0}
    /\ IsFiniteSet(Operators) /\ IsFiniteSet(Attempts) /\ IsFiniteSet(Requests)
<1>1. {TokenTtl, Leeway, FallbackLimit, DefaultSize, MaxNow} \subseteq Nat
  BY ApiAssumption DEF ApiAssumption
<1>2. {MaxLive, Grace, FailureLimit, FailureBlock, MaxSecrets} \subseteq Nat \ {0}
  BY ApiAssumption DEF ApiAssumption
<1>3. {Burst, QuotaLimit, MaxConcurrency, SlotTtl, UsageTtl, Period} \subseteq Nat \ {0}
  BY ApiAssumption DEF ApiAssumption
<1>4. IsFiniteSet(Operators) /\ IsFiniteSet(Attempts) /\ IsFiniteSet(Requests)
  BY ApiAssumption DEF ApiAssumption
<1> QED BY <1>1, <1>2, <1>3, <1>4

\* Time passes from period to period.
LEMMA PeriodsGrow ==
    ASSUME NEW s \in 0..MaxNow, NEW t \in 0..MaxNow, s <= t
    PROVE  /\ PeriodOf(s) \in Periods /\ PeriodOf(t) \in Periods
           /\ PeriodOf(s) <= PeriodOf(t)
<1>1. Period \in Nat \ {0} /\ MaxNow \in Nat
  BY Sizes
<1>2. ASSUME NEW u \in Nat, NEW v \in Nat, u <= v
      PROVE  u \div Period \in Nat /\ v \div Period \in Nat /\ u \div Period <= v \div Period
  <2> DEFINE d == u \div Period
             e == v \div Period
  <2>1. /\ d \in Int /\ Period * d <= u /\ u < Period * d + Period
        /\ e \in Int /\ Period * e <= v /\ v < Period * e + Period
    BY <1>1, <1>2
  <2> HIDE DEF d, e
  <2>2. d >= 0 /\ e >= 0
    BY <2>1, <1>1, <1>2
  <2>3. d <= e
    BY <2>1, <1>1, <1>2
  <2> QED BY <2>1, <2>2, <2>3 DEF d, e
<1>3. s \div Period \in 0..(MaxNow \div Period) /\ t \div Period \in 0..(MaxNow \div Period)
  BY <1>1, <1>2
<1> QED BY <1>1, <1>2, <1>3 DEF PeriodOf, Periods

\* A set of requests one larger, or one smaller.
LEMMA OneMore ==
    ASSUME NEW A, NEW B, NEW r \in Requests, A \subseteq Requests, r \notin A, B = A \cup {r}
    PROVE  Cardinality(A) \in Nat /\ Cardinality(B) = Cardinality(A) + 1
<1>1. IsFiniteSet(A)
  BY Sizes, FS_Subset
<1> QED BY <1>1, FS_AddElement, FS_CardinalityType

\* A set of requests has a number of elements.
LEMMA NoMore ==
    ASSUME NEW A, NEW B, A \subseteq B, B \subseteq Requests
    PROVE  Cardinality(A) \in Nat /\ Cardinality(B) \in Nat /\ Cardinality(A) <= Cardinality(B)
<1>1. IsFiniteSet(B)
  BY Sizes, FS_Subset
<1> QED BY <1>1, FS_Subset, FS_CardinalityType

\* Of a set of numbers that is not empty, one is the smallest.
LEMMA Smallest ==
    ASSUME NEW S, S \subseteq Int, NEW b \in Int, \A x \in S : b <= x, S # {}
    PROVE  Min(S) \in S /\ \A x \in S : Min(S) <= x
<1>1. \E m \in S : \A x \in S : m <= x
  <2> DEFINE T == {n \in Nat : n + b \in S}
             Less == {ss \in Nat \X Nat : ss[1] < ss[2]}
  <2>1. \A x \in S : x - b \in T
    <3> SUFFICES ASSUME NEW x \in S PROVE x - b \in Nat /\ (x - b) + b = x
      OBVIOUS
    <3> QED OBVIOUS
  <2>2. IsWellFoundedOn(Less, Nat)
    BY NatLessThanWellFounded DEF OpToRel
  <2>3. \E m \in T : \A y \in T : ~(<<y, m>> \in Less)
    <3>1. T \subseteq Nat /\ T # {}
      BY <2>1
    <3> HIDE DEF T, Less
    <3> QED BY <2>2, <3>1, WFMin
  <2>4. PICK m \in T : \A y \in T : ~(<<y, m>> \in Less)
    BY <2>3
  <2>5. \A y \in T : m <= y
    <3> TAKE y \in T
    <3>1. ~ (y < m)
      BY <2>4
    <3> QED BY <3>1
  <2>6. \A x \in S : m + b <= x
    <3> TAKE x \in S
    <3>1. m <= x - b
      BY <2>1, <2>5
    <3>2. m \in Nat /\ x \in Int
      OBVIOUS
    <3> QED BY <3>1, <3>2
  <2> QED BY <2>6
<1> QED BY <1>1 DEF Min

\* The smaller and the larger of two numbers.
LEMMA OfTwo ==
    ASSUME NEW a \in Int, NEW b \in Int
    PROVE  /\ Min({a, b}) = IF a <= b THEN a ELSE b
           /\ Max({a, b}) = IF a >= b THEN a ELSE b
<1>1. \E m \in {a, b} : \A x \in {a, b} : m <= x
  OBVIOUS
<1>2. \E m \in {a, b} : \A x \in {a, b} : m >= x
  OBVIOUS
<1>3. Min({a, b}) \in {a, b} /\ \A x \in {a, b} : Min({a, b}) <= x
  BY <1>1 DEF Min
<1>4. Max({a, b}) \in {a, b} /\ \A x \in {a, b} : Max({a, b}) >= x
  BY <1>2, SMTT(30) DEF Max
<1> QED BY <1>3, <1>4

--------------------------------------------------------------------------------
(* The steps of the metering. *)

\* What the rest of the API does leaves the counters and the requests alone.
MeterNext ==
    \/ \E r \in Requests : Arrive(r) \/ RequestStep(r)
    \/ FlushStep \/ QuotaTick
    \/ UNCHANGED <<now, metering>>

\* Commands and attempts take no time.
LEMMA AuthStepKeepsTime == AuthStep => UNCHANGED now
BY DEF AuthStep, Begin, Commit, Publish, PublishFails, Ask, AskDegraded, Deny, Mint

\* A step of the API is one of the metering, or leaves the metering alone.
LEMMA MeterSteps == [Next]_vars => MeterNext
<1>1. CASE AuthStep /\ UNCHANGED <<metering, reading>>
  BY <1>1, AuthStepKeepsTime DEF metering, MeterNext
<1>2. CASE \E r \in Requests : (Serve(r) \/ (RequestStep(r) /\ UNCHANGED client_side)) /\ UNCHANGED reading
  BY <1>2 DEF Serve, MeterNext
<1>3. CASE FlushStep /\ UNCHANGED <<client_side, reading>>
  BY <1>3 DEF MeterNext
<1>4. CASE AuthTick /\ QuotaTick /\ UNCHANGED reading
  BY <1>4 DEF MeterNext
<1>5. CASE ReadStep /\ UNCHANGED <<now, client_side, metering>>
  BY <1>5 DEF metering, MeterNext
<1>6. CASE UNCHANGED vars
  BY <1>6, SMTT(30) DEF vars, metering, MeterNext
<1> QED BY <1>1, <1>2, <1>3, <1>4, <1>5, <1>6 DEF Next

\* Only these touch the counters.
LEMMA WritesCounters ==
    ASSUME NEW r \in Requests, Arrive(r) \/ RequestStep(r)
    PROVE  /\ UNCHANGED <<now, table, written, flush, late>>
           /\ (bucket' # bucket \/ setback' # setback) => Consume(r) \/ ConsumeFails(r)
           /\ quota' # quota => Consume(r) \/ ConsumeFails(r) \/ GiveBack(r)
           /\ slots' # slots => Acquire(r) \/ AcquireFails(r) \/ SlotDecr(r)
           /\ met' # met => Account(r)
           /\ (buffer' # buffer \/ expires' # expires \/ spoiled' # spoiled) => Record(r)
BY DEF RequestStep, Arrive, Consume, ConsumeFails, Acquire, AcquireFails, End, Release, Withdraw,
       SlotDecr, Account, GiveBack, Record, CallLost, Die

\* A flush leaves the requests and their counters alone.
LEMMA WritesFlush ==
    FlushStep => /\ UNCHANGED <<now, req, bucket, quota, slots, expires, setback, late, met>>
                 /\ spoiled \subseteq spoiled'
BY DEF FlushStep, FlushBegin, FlushRead, FlushDelete, FlushCommit, FlushFails

\* What a refill may come to.
LEMMA Refills ==
    ASSUME MeterTyped, NEW r \in Requests
    PROVE  /\ Refilled(r) \in 0..Burst
           /\ now < bucket.until =>
                 \/ Refilled(r) <= bucket.tokens
                 \/ bucket.ts <= req[r].stamp /\ Refilled(r) <= bucket.tokens + req[r].stamp - bucket.ts
<1>1. /\ Burst \in Nat /\ bucket.tokens \in 0..Burst /\ bucket.ts \in Nat /\ req[r].stamp \in Nat
      /\ bucket.until \in Nat /\ now \in Nat
  BY Sizes DEF MeterTyped, Request
<1> DEFINE e == Max({0, req[r].stamp - bucket.ts})
<1>2. e \in Nat /\ (e = 0 \/ (e = req[r].stamp - bucket.ts /\ bucket.ts <= req[r].stamp))
  <2>1. 0 \in Int /\ req[r].stamp - bucket.ts \in Int
    BY <1>1
  <2>2. e = IF 0 >= req[r].stamp - bucket.ts THEN 0 ELSE req[r].stamp - bucket.ts
    BY <2>1, OfTwo
  <2> HIDE DEF e
  <2> QED BY <1>1, <2>2
<1>3. Refilled(r) = IF bucket.until <= now THEN Burst ELSE Min({Burst, bucket.tokens + e})
  BY DEF Refilled
<1> HIDE DEF e
<1>4. Min({Burst, bucket.tokens + e}) = IF Burst <= bucket.tokens + e THEN Burst ELSE bucket.tokens + e
  <2>1. Burst \in Int /\ bucket.tokens + e \in Int
    BY <1>1, <1>2
  <2> QED BY <2>1, OfTwo
<1> QED BY <1>1, <1>2, <1>3, <1>4

--------------------------------------------------------------------------------
(* The course of a request. *)

\* A step is one request's.
LEMMA OthersStay ==
    ASSUME MeterTyped, NEW r \in Requests, Arrive(r) \/ RequestStep(r)
    PROVE  /\ req' = [req EXCEPT ![r] = req'[r]]
           /\ \A x \in Requests : x # r => req'[x] = req[x]
<1>1. req \in [Requests -> Request]
  BY DEF MeterTyped
<1>2. \E q : req' = [req EXCEPT ![r] = q]
  BY <1>1 DEF RequestStep, Arrive, Consume, ConsumeFails, Acquire, AcquireFails, End, Release, Withdraw,
       SlotDecr, Account, GiveBack, Record, CallLost, Die, Go
<1> QED BY <1>1, <1>2

\* Where a request goes next.
LEMMA Nexts ==
    \A how \in {"full", "billed", "error", "raised", "cancelled"} :
        /\ After("release", how) = IF how \in {"raised", "cancelled"} THEN "done" ELSE "account"
        /\ After("account", how) = CASE how = "cancelled" -> "done" [] how = "raised" -> "release" [] OTHER -> "done"
BY DEF After

\* Whatever it goes through, it is told one thing, is accounted for once, and holds a
\* slot only where it took one.
LEMMA CourseKept ==
    ASSUME MeterTyped, Courses, NEW r \in Requests, Arrive(r) \/ RequestStep(r)
    PROVE  req'[r] \in Request /\ Told(req'[r]) /\ Settled(req'[r]) /\ Slotted(req'[r])
<1> DEFINE q == req[r]
           n == req'[r]
<1>1. req \in [Requests -> Request] /\ q \in Request /\ now \in 0..MaxNow
  BY DEF MeterTyped
<1>2. Told(q) /\ Settled(q) /\ Slotted(q)
  BY DEF Courses
<1>3. PeriodOf(now) \in Periods /\ PeriodOf(q.stamp) \in Periods
  <2>1. q.stamp \in 0..MaxNow
    BY <1>1 DEF Request
  <2> QED BY <1>1, <2>1, PeriodsGrow
<1>4. Periods \subseteq Nat /\ None \notin Periods /\ MaxNow \in Nat
  BY Sizes DEF Periods, None
<1> SUFFICES n \in Request /\ Told(n) /\ Settled(n) /\ Slotted(n)
  OBVIOUS
<1> USE Nexts
<1>5. CASE Arrive(r)
  <2>1. n \in Request
    BY <1>5, <1>1, <1>2, <1>3 DEF Arrive, Request, Told
  <2>2. Told(n)
    BY <1>5, <1>1, <1>2, <1>3 DEF Arrive, Request, Told
  <2>3. Settled(n)
    BY <1>5, <1>1, <1>2, <1>3, <1>4 DEF Arrive, Request, Told, Settled, Due
  <2>4. Slotted(n)
    BY <1>5, <1>1, <1>2, <1>3, <1>4 DEF Arrive, Request, Told, Slotted
  <2> QED BY <2>1, <2>2, <2>3, <2>4
<1>6. CASE Consume(r)
  <2>1. n \in Request
    BY <1>6, <1>1, <1>2, <1>3 DEF Consume, Request, Told
  <2>2. Told(n)
    BY <1>6, <1>1, <1>2, <1>3 DEF Consume, Request, Told
  <2>3. Settled(n)
    BY <1>6, <1>1, <1>2, <1>3, <1>4 DEF Consume, Request, Told, Settled, Due
  <2>4. Slotted(n)
    BY <1>6, <1>1, <1>2, <1>3, <1>4 DEF Consume, Request, Told, Slotted
  <2> QED BY <2>1, <2>2, <2>3, <2>4
<1>7. CASE ConsumeFails(r)
  <2>1. n \in Request
    <3>1. PICK unit \in {None} \cup Periods :
             n = [q EXCEPT !.pc = "acquire", !.clean = FALSE, !.unit = unit]
      BY <1>7, <1>1, <1>3 DEF ConsumeFails
    <3> QED BY <3>1, <1>1 DEF Request
  <2>2. Told(n)
    BY <1>7, <1>1, <1>2, <1>3 DEF ConsumeFails, Request, Told
  <2>3. Settled(n)
    BY <1>7, <1>1, <1>2, <1>3, <1>4 DEF ConsumeFails, Request, Told, Settled, Due
  <2>4. Slotted(n)
    BY <1>7, <1>1, <1>2, <1>3, <1>4 DEF ConsumeFails, Request, Told, Slotted
  <2> QED BY <2>1, <2>2, <2>3, <2>4
<1>8. CASE Acquire(r)
  <2>1. n \in Request
    BY <1>8, <1>1, <1>2, <1>3 DEF Acquire, Request, Told
  <2>2. Told(n)
    BY <1>8, <1>1, <1>2, <1>3 DEF Acquire, Request, Told
  <2>3. Settled(n)
    BY <1>8, <1>1, <1>2, <1>3, <1>4 DEF Acquire, Request, Told, Settled, Due
  <2>4. Slotted(n)
    BY <1>8, <1>1, <1>2, <1>3, <1>4 DEF Acquire, Request, Told, Slotted
  <2> QED BY <2>1, <2>2, <2>3, <2>4
<1>9. CASE AcquireFails(r)
  <2>1. n \in Request
    BY <1>9, <1>1, <1>2, <1>3 DEF AcquireFails, Go, Request, Told
  <2>2. Told(n)
    BY <1>9, <1>1, <1>2, <1>3 DEF AcquireFails, Go, Request, Told
  <2>3. Settled(n)
    BY <1>9, <1>1, <1>2, <1>3, <1>4 DEF AcquireFails, Go, Request, Told, Settled, Due
  <2>4. Slotted(n)
    BY <1>9, <1>1, <1>2, <1>3, <1>4 DEF AcquireFails, Go, Request, Told, Slotted
  <2> QED BY <2>1, <2>2, <2>3, <2>4
<1>10. CASE \E how \in {"billed", "error", "raised", "cancelled"} : End(r, how)
  <2>1. n \in Request
    BY <1>10, <1>1, <1>2, <1>3 DEF End, First, Request, Told
  <2>2. Told(n)
    BY <1>10, <1>1, <1>2, <1>3 DEF End, First, Request, Told
  <2>3. Settled(n)
    BY <1>10, <1>1, <1>2, <1>3, <1>4 DEF End, First, Request, Told, Settled, Due
  <2>4. Slotted(n)
    BY <1>10, <1>1, <1>2, <1>3, <1>4 DEF End, First, Request, Told, Slotted
  <2> QED BY <2>1, <2>2, <2>3, <2>4
<1>11. CASE Release(r)
  <2>1. n \in Request
    <3>1. q.status \in {"billed", "error", "raised", "cancelled"}
      BY <1>11, <1>2 DEF Release, Told
    <3>2. After("release", q.status) \in {"done", "account"}
      BY <3>1
    <3>3. /\ q.holds /\ Held > 0 => n = [[q EXCEPT !.pc = "decr", !.next = After("release", q.status)] EXCEPT !.holds = FALSE]
          /\ q.holds /\ ~(Held > 0) => n = [[q EXCEPT !.pc = After("release", q.status)] EXCEPT !.holds = FALSE]
          /\ ~q.holds => n = [q EXCEPT !.pc = After("release", q.status)]
      BY <1>11, <1>1 DEF Release, Lower
    <3>4. CASE q.holds /\ Held > 0
      <4>1. PICK m : m = [q EXCEPT !.pc = "decr", !.next = After("release", q.status)]
        OBVIOUS
      <4>2. m \in Request
        BY <4>1, <3>2, <1>1 DEF Request
      <4>3. n = [m EXCEPT !.holds = FALSE]
        BY <3>3, <3>4, <4>1
      <4> QED BY <4>2, <4>3 DEF Request
    <3>5. CASE q.holds /\ ~(Held > 0)
      <4>1. PICK m : m = [q EXCEPT !.pc = After("release", q.status)]
        OBVIOUS
      <4>2. m \in Request
        BY <4>1, <3>2, <1>1 DEF Request
      <4>3. n = [m EXCEPT !.holds = FALSE]
        BY <3>3, <3>5, <4>1
      <4> QED BY <4>2, <4>3 DEF Request
    <3>6. CASE ~q.holds
      BY <3>2, <3>3, <3>6, <1>1 DEF Request
    <3>7. q.holds \in BOOLEAN
      BY <1>1 DEF Request
    <3> QED BY <3>4, <3>5, <3>6, <3>7
  <2>2. Told(n)
    BY <1>11, <1>1, <1>2, <1>3 DEF Release, Lower, Request, Told
  <2>3. Settled(n)
    BY <1>11, <1>1, <1>2, <1>3, <1>4 DEF Release, Lower, Request, Told, Settled, Due
  <2>4. Slotted(n)
    BY <1>11, <1>1, <1>2, <1>3, <1>4 DEF Release, Lower, Request, Told, Slotted
  <2> QED BY <2>1, <2>2, <2>3, <2>4
<1>12. CASE Withdraw(r)
  <2>1. n \in Request
    BY <1>12, <1>1, <1>2, <1>3 DEF Withdraw, Lower, Request, Told
  <2>2. Told(n)
    BY <1>12, <1>1, <1>2, <1>3 DEF Withdraw, Lower, Request, Told
  <2>3. Settled(n)
    BY <1>12, <1>1, <1>2, <1>3, <1>4 DEF Withdraw, Lower, Request, Told, Settled, Due
  <2>4. Slotted(n)
    BY <1>12, <1>1, <1>2, <1>3, <1>4 DEF Withdraw, Lower, Request, Told, Slotted
  <2> QED BY <2>1, <2>2, <2>3, <2>4
<1>13. CASE SlotDecr(r)
  <2>1. n \in Request
    BY <1>13, <1>1, <1>2, <1>3 DEF SlotDecr, Go, Request, Told
  <2>2. Told(n)
    BY <1>13, <1>1, <1>2, <1>3 DEF SlotDecr, Go, Request, Told
  <2>3. Settled(n)
    BY <1>13, <1>1, <1>2, <1>3, <1>4 DEF SlotDecr, Go, Request, Told, Settled, Due
  <2>4. Slotted(n)
    BY <1>13, <1>1, <1>2, <1>3, <1>4 DEF SlotDecr, Go, Request, Told, Slotted
  <2> QED BY <2>1, <2>2, <2>3, <2>4
<1>14. CASE Account(r)
  <2>1. n \in Request
    <3>1. q.status \in {"billed", "error", "raised"}
      BY <1>14, <1>2 DEF Account, Told
    <3>2. After("account", q.status) \in {"done", "release"}
      BY <3>1
    <3>3. \/ n = [q EXCEPT !.pc = "record", !.day = PeriodOf(now)]
          \/ n = [q EXCEPT !.pc = "giveback", !.back = PeriodOf(now)]
          \/ n = [q EXCEPT !.pc = After("account", q.status)]
      BY <1>14, <1>1 DEF Account
    <3>4. PeriodOf(now) \in {None} \cup Periods
      BY <1>3
    <3>5. CASE n = [q EXCEPT !.pc = "record", !.day = PeriodOf(now)]
      BY <3>4, <3>5, <1>1 DEF Request
    <3>6. CASE n = [q EXCEPT !.pc = "giveback", !.back = PeriodOf(now)]
      BY <3>4, <3>6, <1>1 DEF Request
    <3>7. CASE n = [q EXCEPT !.pc = After("account", q.status)]
      BY <3>2, <3>7, <1>1 DEF Request
    <3> QED BY <3>3, <3>5, <3>6, <3>7
  <2>2. Told(n)
    BY <1>14, <1>1, <1>2, <1>3 DEF Account, Refunded, Request, Told
  <2>3. Settled(n)
    BY <1>14, <1>1, <1>2, <1>3, <1>4 DEF Account, Refunded, Request, Told, Settled, Due
  <2>4. Slotted(n)
    BY <1>14, <1>1, <1>2, <1>3, <1>4 DEF Account, Refunded, Request, Told, Slotted
  <2> QED BY <2>1, <2>2, <2>3, <2>4
<1>15. CASE GiveBack(r)
  <2>1. n \in Request
    BY <1>15, <1>1, <1>2, <1>3 DEF GiveBack, Go, Request, Told
  <2>2. Told(n)
    BY <1>15, <1>1, <1>2, <1>3 DEF GiveBack, Go, Request, Told
  <2>3. Settled(n)
    BY <1>15, <1>1, <1>2, <1>3, <1>4 DEF GiveBack, Go, Request, Told, Settled, Due
  <2>4. Slotted(n)
    BY <1>15, <1>1, <1>2, <1>3, <1>4 DEF GiveBack, Go, Request, Told, Slotted
  <2> QED BY <2>1, <2>2, <2>3, <2>4
<1>16. CASE Record(r)
  <2>1. n \in Request
    BY <1>16, <1>1, <1>2, <1>3 DEF Record, Go, Request, Told
  <2>2. Told(n)
    BY <1>16, <1>1, <1>2, <1>3 DEF Record, Go, Request, Told
  <2>3. Settled(n)
    BY <1>16, <1>1, <1>2, <1>3, <1>4 DEF Record, Go, Request, Told, Settled, Due
  <2>4. Slotted(n)
    BY <1>16, <1>1, <1>2, <1>3, <1>4 DEF Record, Go, Request, Told, Slotted
  <2> QED BY <2>1, <2>2, <2>3, <2>4
<1>17. CASE CallLost(r)
  <2>1. CASE q.pc = "full"
    <3>1. n = [q EXCEPT !.clean = FALSE, !.back = q.back, !.day = q.day, !.pc = "done"]
      BY <1>17, <1>1, <2>1 DEF CallLost, Owes
    <3> QED BY <2>1, <3>1, <1>1, <1>2, <1>4, ZenonT(60) DEF Request, Told, Settled, Due, Slotted
  <2>2. CASE q.pc = "decr"
    <3>1. n = [q EXCEPT !.clean = FALSE, !.back = q.back, !.day = q.day, !.pc = q.next]
      BY <1>17, <1>1, <2>2 DEF CallLost, Owes
    <3>2. n \in Request
      BY <2>2, <3>1, <1>1 DEF Request
    <3>3. Told(n) /\ Slotted(n)
      BY <2>2, <3>1, <1>1, <1>2, <1>4 DEF Request, Told, Slotted
    <3>4. Settled(n)
      BY <2>2, <3>1, <1>1, <1>2, <1>4 DEF Request, Told, Settled, Due
    <3> QED BY <3>2, <3>3, <3>4
  <2>3. CASE q.pc \in {"account", "giveback", "record"}
    <3>1. q.status \in {"billed", "error", "raised"}
      BY <2>3, <1>2 DEF Told
    <3>2. After("account", q.status) = IF q.status = "raised" THEN "release" ELSE "done"
      BY <3>1
    <3>9. PICK back \in {None, q.back}, day \in {None, q.day} :
             /\ n = [q EXCEPT !.clean = FALSE, !.back = back, !.day = day, !.pc = After("account", q.status)]
             /\ q.pc \in {"giveback", "record"} => back = None /\ day = None
             /\ q.pc = "account" => back = q.back /\ day = q.day
      <4>1. n = [q EXCEPT !.clean = FALSE, !.back = IF Owes(r) THEN None ELSE q.back,
                          !.day = IF Owes(r) THEN None ELSE q.day, !.pc = After("account", q.status)]
        BY <1>17, <1>1, <2>3 DEF CallLost
      <4>2. Owes(r) <=> q.pc \in {"giveback", "record"}
        BY DEF Owes
      <4> QED BY <4>1, <4>2, <2>3
    <3>3. n \in Request
      BY <3>2, <3>9, <1>1, ZenonT(60) DEF Request
    <3>4. Told(n) /\ Slotted(n)
      BY <2>3, <3>1, <3>2, <3>9, <1>1, <1>2, <1>4 DEF Request, Told, Slotted
    <3>5. Settled(n)
      BY <2>3, <3>1, <3>2, <3>9, <1>1, <1>2, <1>4 DEF Request, Told, Settled, Due
    <3> QED BY <3>3, <3>4, <3>5
  <2> QED BY <1>17, <2>1, <2>2, <2>3 DEF CallLost
<1>18. CASE Die(r)
  <2>1. n \in Request
    BY <1>18, <1>1, <1>2, <1>3 DEF Die, Owes, Request, Told
  <2>2. Told(n)
    BY <1>18, <1>1, <1>2, <1>3 DEF Die, Owes, Request, Told
  <2>3. Settled(n)
    BY <1>18, <1>1, <1>2, <1>3, <1>4 DEF Die, Owes, Request, Told, Settled, Due
  <2>4. Slotted(n)
    BY <1>18, <1>1, <1>2, <1>3, <1>4 DEF Die, Owes, Request, Told, Slotted
  <2> QED BY <2>1, <2>2, <2>3, <2>4
<1> QED BY <1>5, <1>6, <1>7, <1>8, <1>9, <1>10, <1>11, <1>12, <1>13, <1>14, <1>15, <1>16, <1>17, <1>18 DEF RequestStep

\* What a step may change of its request.
LEMMA WritesRequest ==
    ASSUME MeterTyped, Courses, NEW r \in Requests, Arrive(r) \/ RequestStep(r)
    PROVE  /\ req[r].pc # "done" /\ (req[r].pc = "new" => req'[r].pc = "consume")
           /\ req'[r].since \in {req[r].since, now} /\ (req'[r].since # req[r].since => Acquire(r))
           /\ req'[r].day \in {req[r].day, None, PeriodOf(now)}
           /\ req'[r].pc = "consume" => req'[r].stamp = now
           /\ req'[r].holds => req[r].holds \/ Acquire(r)
           /\ req'[r].pc \in {"full", "decr"} => req[r].holds \/ req[r].pc = "full" \/ Acquire(r)
<1> DEFINE q == req[r]
           n == req'[r]
           Goal == /\ q.pc # "done" /\ (q.pc = "new" => n.pc = "consume")
                   /\ n.since \in {q.since, now} /\ (n.since # q.since => Acquire(r))
                   /\ n.day \in {q.day, None, PeriodOf(now)}
                   /\ n.pc = "consume" => n.stamp = now
                   /\ n.holds => q.holds \/ Acquire(r)
                   /\ n.pc \in {"full", "decr"} => q.holds \/ q.pc = "full" \/ Acquire(r)
<1>1. req \in [Requests -> Request] /\ q \in Request
  BY DEF MeterTyped
<1>2. Told(q)
  BY DEF Courses
<1> SUFFICES Goal
  OBVIOUS
<1> USE Nexts
<1>3. CASE Arrive(r)
  BY <1>3, <1>1, <1>2 DEF Arrive, Request, Told
<1>4. CASE Consume(r)
  BY <1>4, <1>1, <1>2 DEF Consume, Request, Told
<1>5. CASE ConsumeFails(r)
  BY <1>5, <1>1, <1>2 DEF ConsumeFails, Request, Told
<1>6. CASE Acquire(r)
  BY <1>6, <1>1, <1>2 DEF Acquire, Request, Told
<1>7. CASE AcquireFails(r)
  BY <1>7, <1>1, <1>2 DEF AcquireFails, Go, Request, Told
<1>8. CASE \E how \in {"billed", "error", "raised", "cancelled"} : End(r, how)
  BY <1>8, <1>1, <1>2 DEF End, First, Request, Told
<1>9. CASE Release(r)
  BY <1>9, <1>1, <1>2 DEF Release, Lower, Request, Told
<1>10. CASE Withdraw(r)
  BY <1>10, <1>1, <1>2 DEF Withdraw, Lower, Request, Told
<1>11. CASE SlotDecr(r)
  BY <1>11, <1>1, <1>2 DEF SlotDecr, Go, Request, Told
<1>12. CASE Account(r)
  BY <1>12, <1>1, <1>2 DEF Account, Refunded, Request, Told
<1>13. CASE GiveBack(r)
  BY <1>13, <1>1, <1>2 DEF GiveBack, Go, Request, Told
<1>14. CASE Record(r)
  BY <1>14, <1>1, <1>2 DEF Record, Go, Request, Told
<1>15. CASE CallLost(r)
  BY <1>15, <1>1, <1>2 DEF CallLost, Refunded, Owes, Request, Told
<1>16. CASE Die(r)
  BY <1>16, <1>1, <1>2 DEF Die, Owes, Request, Told
<1> QED BY <1>3, <1>4, <1>5, <1>6, <1>7, <1>8, <1>9, <1>10, <1>11, <1>12, <1>13, <1>14, <1>15, <1>16 DEF RequestStep

\* The script keeps the shape of its keys; what it grants, it takes from both.
LEMMA ScriptShape ==
    ASSUME MeterTyped, NEW r \in Requests, Script(r)
    PROVE  /\ bucket' \in [tokens : 0..Burst, ts : 0..MaxNow, until : Nat]
           /\ quota' \in [Periods -> Int] /\ setback' \in Nat
           /\ bucket'.ts \in {bucket.ts, req[r].stamp}
           /\ quota' = IF Granted(r) THEN [quota EXCEPT ![PeriodOf(req[r].stamp)] = @ + 1] ELSE quota
<1>1. /\ Refilled(r) \in 0..Burst /\ Burst \in Nat /\ MaxNow \in Nat /\ now \in Nat
      /\ req[r].stamp \in 0..MaxNow /\ bucket.ts \in 0..MaxNow
      /\ PeriodOf(req[r].stamp) \in Periods
  <2>1. req[r].stamp \in 0..MaxNow /\ bucket.ts \in 0..MaxNow /\ now \in 0..MaxNow
    BY DEF MeterTyped, Request
  <2>2. PeriodOf(req[r].stamp) \in Periods
    BY <2>1, PeriodsGrow
  <2> QED BY <2>1, <2>2, Refills, Sizes
<1>2. bucket' = IF QuotaLeft(r)
                THEN [tokens |-> IF Granted(r) THEN Refilled(r) - 1 ELSE Refilled(r), ts |-> req[r].stamp,
                      until |-> now + Burst + 1]
                ELSE bucket
  BY DEF Script, Granted
<1>3. Granted(r) => Refilled(r) >= 1
  BY DEF Granted
<1>4. bucket' \in [tokens : 0..Burst, ts : 0..MaxNow, until : Nat] /\ bucket'.ts \in {bucket.ts, req[r].stamp}
  BY <1>1, <1>2, <1>3 DEF MeterTyped
<1>5. quota' = IF Granted(r) THEN [quota EXCEPT ![PeriodOf(req[r].stamp)] = @ + 1] ELSE quota
  BY DEF Script, Granted
<1>6. quota' \in [Periods -> Int]
  <2>1. quota \in [Periods -> Int]
    BY DEF MeterTyped
  <2>2. quota[PeriodOf(req[r].stamp)] + 1 \in Int
    BY <2>1, <1>1
  <2> QED BY <1>1, <1>5, <2>1, <2>2
<1>7. setback' \in Nat
  <2>1. setback \in Nat
    BY DEF MeterTyped
  <2>2. 0 \in Int /\ bucket.ts - req[r].stamp \in Int
    BY <1>1
  <2>3. Max({0, bucket.ts - req[r].stamp}) = IF 0 >= bucket.ts - req[r].stamp THEN 0 ELSE bucket.ts - req[r].stamp
    BY <2>2, OfTwo
  <2>4. setback' \in {setback, setback + Max({0, bucket.ts - req[r].stamp})}
    BY DEF Script
  <2> QED BY <2>1, <2>2, <2>3, <2>4
<1> QED BY <1>4, <1>5, <1>6, <1>7

\* What the key of the slots holds is a number.
LEMMA SlotsShape ==
    ASSUME MeterTyped
    PROVE  /\ Held \in Int /\ Taken \in [n : Int, until : Nat]
           /\ \A r \in Requests : Lowered(r) \in [n : Int, until : Nat]
<1>1. slots \in [n : Int, until : Nat] /\ now \in Nat /\ SlotTtl \in Nat /\ MaxNow \in Nat
  BY Sizes DEF MeterTyped
<1>2. Held \in Int
  BY <1>1 DEF Held
<1>3. Taken \in [n : Int, until : Nat]
  BY <1>1, <1>2 DEF Taken
<1>4. \A r \in Requests : Lowered(r) \in [n : Int, until : Nat]
  BY <1>1 DEF Lowered
<1> QED BY <1>2, <1>3, <1>4

\* A request step keeps the types.
LEMMA RequestTyped ==
    ASSUME MeterTyped, Courses, NEW r \in Requests, Arrive(r) \/ RequestStep(r)
    PROVE  MeterTyped'
<1>1. req' \in [Requests -> Request]
  <2>1. req' = [req EXCEPT ![r] = req'[r]] /\ req'[r] \in Request
    BY OthersStay, CourseKept
  <2>2. req \in [Requests -> Request]
    BY DEF MeterTyped
  <2> QED BY <2>1, <2>2
<1>2. ASSUME Consume(r) \/ ConsumeFails(r)
      PROVE  Script(r) \/ UNCHANGED <<bucket, quota, setback>>
  BY <1>2 DEF Consume, ConsumeFails
<1>3. bucket' \in [tokens : 0..Burst, ts : 0..MaxNow, until : Nat] /\ setback' \in Nat
  BY <1>2, ScriptShape, WritesCounters DEF MeterTyped
<1>4. quota' \in [Periods -> Int]
  <2>1. CASE GiveBack(r)
    <3>1. req[r].back \in Periods
      BY <2>1 DEF GiveBack, Courses, Settled, MeterTyped, Request
    <3>2. quota \in [Periods -> Int] /\ quota' = [quota EXCEPT ![req[r].back] = @ - 1]
      BY <2>1 DEF GiveBack, MeterTyped
    <3> QED BY <3>1, <3>2
  <2> QED BY <2>1, <1>2, ScriptShape, WritesCounters DEF MeterTyped
<1>5. slots' \in [n : Int, until : Nat]
  <2>1. slots' \in {slots, Taken, Lowered(r)}
    BY WritesCounters DEF Acquire, AcquireFails, SlotDecr
  <2> QED BY <2>1, SlotsShape, SMTT(30) DEF MeterTyped
<1>6. buffer' \in [Periods -> Nat]
  <2>1. CASE Record(r)
    <3>1. req[r].day \in Periods
      BY <2>1 DEF Record, Courses, Settled, MeterTyped, Request
    <3>2. buffer \in [Periods -> Nat] /\ buffer' = [buffer EXCEPT ![req[r].day] = @ + 1]
      BY <2>1 DEF Record, MeterTyped
    <3> QED BY <3>1, <3>2
  <2> QED BY <2>1, WritesCounters DEF MeterTyped
<1>7. UNCHANGED <<now, table, written, flush, late>>
  BY WritesCounters
<1>8. expires' \in [Periods -> Nat]
  <2>1. CASE Record(r)
    <3>1. expires \in [Periods -> Nat] /\ expires' = [expires EXCEPT ![req[r].day] = now + UsageTtl]
      BY <2>1 DEF Record, MeterTyped
    <3>2. now + UsageTtl \in Nat
      BY Sizes DEF MeterTyped
    <3> QED BY <3>1, <3>2
  <2> QED BY <2>1, WritesCounters DEF MeterTyped
<1>9. met' \subseteq Requests
  <2>1. CASE Account(r)
    BY <2>1 DEF Account, Refunding, MeterTyped
  <2> QED BY <2>1, WritesCounters DEF MeterTyped
<1> QED BY <1>1, <1>3, <1>4, <1>5, <1>6, <1>7, <1>8, <1>9 DEF MeterTyped

\* The day a flush is at.
LEMMA FlushAt ==
    ASSUME MeterTyped, NEW f \in Flushers, flush[f].days # {}
    PROVE  /\ flush[f].days \subseteq Periods
           /\ Day(f) \in flush[f].days /\ Day(f) \in Periods
<1>1. flush[f].days \subseteq Int /\ \A d \in flush[f].days : 0 <= d
  BY DEF MeterTyped, Flush, Periods
<1>2. Min(flush[f].days) \in flush[f].days
  BY <1>1, Smallest
<1> QED BY <1>2 DEF MeterTyped, Flush, Day

\* A step of a flush is one flusher's.
LEMMA FlushShape ==
    ASSUME MeterTyped, Flushing, NEW f \in Flushers,
           \/ \E today \in BOOLEAN : FlushBegin(f, today)
           \/ FlushRead(f) \/ FlushDelete(f) \/ FlushCommit(f) \/ FlushFails(f)
    PROVE  /\ flush' = [flush EXCEPT ![f] = flush'[f]] /\ flush'[f] \in Flush
           /\ \A g \in Flushers : g # f => flush'[g] = flush[g]
<1>1. flush \in [Flushers -> Flush] /\ flush[f] \in Flush /\ buffer \in [Periods -> Nat]
  BY DEF MeterTyped
<1>2. Resting \in Flush
  BY DEF Resting, Flush
<1>3. CASE \E today \in BOOLEAN : FlushBegin(f, today)
  <2>1. PICK days \in SUBSET Periods :
           flush' = [flush EXCEPT ![f].pc = "read", ![f].days = days]
    BY <1>3 DEF FlushBegin
  <2> QED BY <1>1, <2>1 DEF Flush
<1>4. CASE FlushRead(f)
  <2>1. flush' = [flush EXCEPT ![f].pc = "delete", ![f].counts = buffer[Day(f)]]
    BY <1>4 DEF FlushRead
  <2>2. buffer[Day(f)] \in Nat
    BY <1>1, <1>4, FlushAt DEF FlushRead
  <2> QED BY <1>1, <2>1, <2>2 DEF Flush
<1>5. CASE FlushDelete(f)
  <2>1. flush' = [flush EXCEPT ![f].pc = "read", ![f].days = @ \ {Day(f)}]
    BY <1>5 DEF FlushDelete
  <2> QED BY <1>1, <2>1 DEF Flush
<1>6. CASE FlushCommit(f) \/ FlushFails(f)
  <2>1. flush' = [flush EXCEPT ![f] = Resting]
    BY <1>6 DEF FlushCommit, FlushFails
  <2> QED BY <1>1, <1>2, <2>1
<1> QED BY <1>3, <1>4, <1>5, <1>6

\* So does a step of a flush, and a tick.
LEMMA FlushTyped ==
    ASSUME MeterTyped, Flushing, FlushStep
    PROVE  MeterTyped'
<1>1. /\ flush \in [Flushers -> Flush] /\ buffer \in [Periods -> Nat] /\ table \in [Periods -> Nat]
      /\ written \in [Periods -> Written]
  BY DEF MeterTyped
<1>2. PICK f \in Flushers :
         \/ \E today \in BOOLEAN : FlushBegin(f, today)
         \/ FlushRead(f) \/ FlushDelete(f) \/ FlushCommit(f) \/ FlushFails(f)
  BY DEF FlushStep
<1>3. flush' \in [Flushers -> Flush]
  <2>1. flush' = [flush EXCEPT ![f] = flush'[f]] /\ flush'[f] \in Flush
    BY <1>2, FlushShape
  <2> QED BY <1>1, <2>1
<1>4. UNCHANGED <<now, req, bucket, quota, slots, expires, setback, late, met>>
  BY WritesFlush
<1>5. \A d \in Periods : Released(f)[d] \in Written /\ Added(d, f) \in Nat
  BY <1>1 DEF Released, Added, Unlocked, Written
<1>6. Released(f) \in [Periods -> Written]
  BY <1>5 DEF Released
<1>7. CASE (\E today \in BOOLEAN : FlushBegin(f, today)) \/ FlushRead(f)
  <2>1. UNCHANGED <<buffer, table, written>>
    BY <1>7 DEF FlushBegin, FlushRead
  <2> QED BY <1>3, <1>4, <2>1 DEF MeterTyped
<1>8. CASE FlushDelete(f)
  <2>1. Day(f) \in Periods
    BY <1>8, FlushAt DEF FlushDelete, Flushing, ReadsHold
  <2>2. buffer' \in [Periods -> Nat] /\ UNCHANGED table
    BY <1>1, <2>1, <1>8 DEF FlushDelete, Deleted
  <2>3. flush[f].counts \in Nat
    BY <1>1 DEF Flush
  <2>4. [by |-> f, n |-> flush[f].counts] \in Written
    BY <2>3 DEF Written
  <2>5. written' \in {written, [written EXCEPT ![Day(f)] = [by |-> f, n |-> flush[f].counts]]}
    BY <1>8 DEF FlushDelete
  <2>6. written' \in [Periods -> Written]
    BY <1>1, <2>4, <2>5
  <2> QED BY <1>3, <1>4, <2>2, <2>6 DEF MeterTyped
<1>9. CASE FlushCommit(f)
  <2>1. table' \in [Periods -> Nat] /\ written' \in [Periods -> Written] /\ UNCHANGED buffer
    BY <1>5, <1>6, <1>9 DEF FlushCommit
  <2> QED BY <1>3, <1>4, <2>1 DEF MeterTyped
<1>10. CASE FlushFails(f)
  <2>1. written' \in [Periods -> Written] /\ UNCHANGED <<buffer, table>>
    BY <1>6, <1>10 DEF FlushFails
  <2> QED BY <1>3, <1>4, <2>1 DEF MeterTyped
<1> QED BY <1>2, <1>7, <1>8, <1>9, <1>10

\* The types of the metering are kept.
LEMMA MeterTypedKept == MeterTyped /\ Courses /\ Flushing /\ MeterNext => MeterTyped'
<1> SUFFICES ASSUME MeterTyped, Courses, Flushing, MeterNext PROVE MeterTyped'
  OBVIOUS
<1>1. CASE QuotaTick
  <2>1. now' \in 0..MaxNow
    BY <1>1, Sizes DEF QuotaTick, MeterTyped
  <2>2. late' \subseteq Requests
    BY <1>1 DEF QuotaTick, Overdue, MeterTyped
  <2>3. buffer' \in [Periods -> Nat]
    BY <1>1 DEF QuotaTick, MeterTyped
  <2> QED BY <1>1, <2>1, <2>2, <2>3 DEF QuotaTick, MeterTyped
<1>2. CASE UNCHANGED <<now, metering>>
  BY <1>2 DEF MeterTyped, metering
<1> QED BY <1>1, <1>2, RequestTyped, FlushTyped DEF MeterNext

\* A request stays on its course.
LEMMA CoursesKept == MeterTyped /\ Courses /\ MeterNext => Courses'
<1> SUFFICES ASSUME MeterTyped, Courses, MeterNext PROVE Courses'
  OBVIOUS
<1>1. ASSUME NEW r \in Requests, Arrive(r) \/ RequestStep(r)
      PROVE  Courses'
  BY <1>1, OthersStay, CourseKept DEF Courses
<1>2. ASSUME req' = req PROVE Courses'
  BY <1>2 DEF Courses
<1> QED BY <1>1, <1>2, WritesFlush DEF MeterNext, QuotaTick, metering

\* Nothing is stamped later than now.
LEMMA ClockedKept ==
    MeterTyped /\ Courses /\ Flushing /\ Clocked /\ MeterNext => Clocked'
<1> SUFFICES ASSUME MeterTyped, Courses, Flushing, Clocked, MeterNext PROVE Clocked'
  OBVIOUS
<1>1. now \in 0..MaxNow /\ MaxNow \in Nat
  BY Sizes DEF MeterTyped
<1>2. ASSUME NEW r \in Requests, Arrive(r) \/ RequestStep(r)
      PROVE  Clocked'
  <2>1. now' = now
    BY <1>2, WritesCounters
  <2>2. bucket'.ts <= now
    <3>1. CASE Consume(r) \/ ConsumeFails(r)
      <4>1. Script(r) \/ bucket' = bucket
        BY <3>1 DEF Consume, ConsumeFails
      <4>2. req[r].stamp \in {now - 1, now}
        BY <3>1 DEF Consume, ConsumeFails, Clocked
      <4> QED BY <4>1, <4>2, <1>1, ScriptShape DEF Clocked
    <3> QED BY <3>1, <1>2, WritesCounters DEF Clocked
  <2>3. /\ req'[r].since \in {req[r].since, now}
        /\ req'[r].day \in {req[r].day, None, PeriodOf(now)}
        /\ req'[r].pc = "consume" => req'[r].stamp = now
    BY <1>2, WritesRequest
  <2>4. None <= PeriodOf(now) /\ PeriodOf(now) \in Int
    BY <1>1, PeriodsGrow DEF None, Periods
  <2>5. \A x \in Requests :
          /\ req'[x].since <= now
          /\ req'[x].pc = "consume" => req'[x].stamp \in {now - 1, now}
          /\ req'[x].day <= PeriodOf(now)
    <3> TAKE x \in Requests
    <3>1. CASE x = r
      BY <3>1, <2>3, <2>4, <1>1 DEF Clocked
    <3>2. CASE x # r
      BY <3>2, <1>2, OthersStay DEF Clocked
    <3> QED BY <3>1, <3>2
  <2> QED BY <2>1, <2>2, <2>5 DEF Clocked, PeriodOf
<1>3. CASE QuotaTick
  <2>1. now' = now + 1 /\ now < MaxNow /\ req' = req /\ bucket' = bucket
    BY <1>3 DEF QuotaTick
  <2>2. PeriodOf(now) <= PeriodOf(now + 1) /\ PeriodOf(now) \in Int /\ PeriodOf(now + 1) \in Int
    <3>1. now + 1 \in 0..MaxNow /\ now <= now + 1
      BY <1>1, <2>1
    <3> QED BY <1>1, <3>1, PeriodsGrow DEF Periods
  <2>3. \A x \in Requests : req[x].pc = "consume" => req[x].stamp = now
    BY <1>3 DEF QuotaTick
  <2>4. PeriodOf(now)' = PeriodOf(now + 1)
    BY <2>1 DEF PeriodOf
  <2>5. \A x \in Requests : req[x].since \in Int /\ req[x].day \in Int
    BY <1>1 DEF MeterTyped, Request, None, Periods
  <2>6. \A x \in Requests : req[x].since <= now + 1 /\ req[x].day <= PeriodOf(now + 1)
    BY <2>2, <2>5, <1>1 DEF Clocked
  <2>7. bucket.ts <= now + 1
    BY <1>1 DEF Clocked, MeterTyped
  <2> QED BY <2>1, <2>3, <2>4, <2>6, <2>7, <1>1 DEF Clocked
<1>4. CASE FlushStep \/ UNCHANGED <<now, metering>>
  <2>1. UNCHANGED <<now, req, bucket>>
    BY <1>4, WritesFlush DEF metering
  <2> QED BY <2>1 DEF Clocked, PeriodOf
<1> QED BY <1>2, <1>3, <1>4 DEF MeterNext

--------------------------------------------------------------------------------
(* The slots. *)

\* The requests that run are among those that are counted.
LEMMA CountedIsBounded ==
    ASSUME MeterTyped, Courses
    PROVE  /\ Counted \subseteq Requests /\ Running \subseteq Counted
           /\ Cardinality(Counted) \in Nat /\ Cardinality(Running) \in Nat
           /\ Cardinality(Running) <= Cardinality(Counted)
BY NoMore DEF Counted, Running, Gives

\* The slots taken stay counted.
LEMMA SlotsCountKept ==
    MeterTyped /\ Courses /\ Clocked /\ SlotsCount /\ MeterNext => SlotsCount'
<1> SUFFICES ASSUME MeterTyped, Courses, Clocked, SlotsCount, MeterNext PROVE SlotsCount'
  OBVIOUS
<1>1. /\ now \in Nat /\ MaxNow \in Nat /\ SlotTtl \in Nat \ {0} /\ MaxConcurrency \in Nat
      /\ slots \in [n : Int, until : Nat] /\ Held \in Int
      /\ req \in [Requests -> Request]
      /\ \A x \in Requests : req[x].since \in Int /\ req[x].since <= now
      /\ late \subseteq Requests
  BY Sizes, SlotsShape DEF MeterTyped, Request, None, Clocked
<1>0. Cardinality(late) \in Nat
  BY <1>1, NoMore
<1>2. /\ Counted \subseteq Requests /\ Running \subseteq Counted
      /\ Cardinality(Counted) \in Nat /\ Cardinality(Running) \in Nat
      /\ Cardinality(Running) <= Cardinality(Counted)
  BY CountedIsBounded
\* What the count includes has not expired, but for those that outlived their slots.
<1>3. \A x \in Counted \ late : now < slots.until
  <2> TAKE x \in Counted \ late
  <2>1. now < req[x].since + SlotTtl /\ req[x].since + SlotTtl <= slots.until /\ x \in Requests
    BY <1>2 DEF SlotsCount
  <2> QED BY <2>1, <1>1
<1>4. ASSUME NEW r \in Requests, Arrive(r) \/ RequestStep(r)
      PROVE  SlotsCount'
  <2>1. now' = now /\ late' = late
    BY <1>4, WritesCounters
  <2>2. \A x \in Requests : x # r => req'[x] = req[x]
    BY <1>4, OthersStay
  <2>3. req'[r] \in Request /\ Slotted(req'[r])
    BY <1>4, CourseKept
  <2>4. \A x \in Requests : x # r => (x \in Counted' <=> x \in Counted) /\ (x \in Running' <=> x \in Running)
    BY <2>2 DEF Counted, Running, Gives
  <2>5. Counted' \subseteq Requests /\ Running' \subseteq Requests
    BY DEF Counted, Running, Gives
  <2>6. CASE Acquire(r) /\ HasRoom
    <3>1. req'[r].pc = "handler" /\ req'[r].holds /\ req'[r].since = now /\ slots' = Taken
      BY <2>6, <1>1 DEF Acquire
    <3>2. r \notin Counted /\ r \notin Running
      BY <2>6 DEF Acquire, Counted, Running, Gives, Courses, Slotted
    <3>3. r \in Counted' /\ r \in Running'
      BY <3>1 DEF Counted, Running, Gives
    <3>4. Counted' = Counted \cup {r} /\ Running' = Running \cup {r}
      BY <2>4, <2>5, <3>3, <1>2
    <3>5. Cardinality(Counted') = Cardinality(Counted) + 1 /\ Cardinality(Running') = Cardinality(Running) + 1
      BY <3>2, <3>4, <1>2, OneMore
    <3>6. Held' = Held + 1
      BY <3>1, <2>1, <1>1 DEF Held, Taken
    <3>7. slots'.until = now + SlotTtl
      BY <3>1 DEF Taken
    <3>8. Held + 1 <= MaxConcurrency
      BY <2>6 DEF HasRoom
    <3>9. Held' >= Cardinality(Counted') - Cardinality(late) /\ Cardinality(Running') <= MaxConcurrency + Cardinality(late)
      BY <3>5, <3>6, <3>8, <1>0, <1>1, <1>2 DEF SlotsCount
    <3>11. ASSUME NEW x \in Counted' \ late
           PROVE  now < req'[x].since + SlotTtl /\ req'[x].since + SlotTtl <= slots'.until
      <4>1. CASE x = r
        BY <4>1, <3>1, <3>7, <1>1
      <4>2. CASE x # r
        <5>1. x \in Counted \ late /\ x \in Requests /\ req'[x] = req[x]
          BY <4>2, <3>4, <3>11, <2>2, <1>2
        <5> QED BY <5>1, <3>7, <1>1 DEF SlotsCount
      <4> QED BY <4>1, <4>2
    <3> QED BY <2>1, <3>9, <3>11 DEF SlotsCount
  <2>7. CASE Acquire(r) /\ ~HasRoom
    <3>1. req'[r].pc = "full" /\ req'[r].since = now /\ slots' = Taken /\ req'[r].holds = req[r].holds
      BY <2>7, <1>1 DEF Acquire, Request
    <3>2. r \notin Counted /\ r \notin Running /\ ~req[r].holds
      BY <2>7 DEF Acquire, Counted, Running, Gives, Courses, Slotted
    <3>3. r \in Counted' /\ r \notin Running'
      BY <3>1, <3>2 DEF Counted, Running, Gives
    <3>4. Counted' = Counted \cup {r} /\ Running' = Running
      BY <2>4, <2>5, <3>2, <3>3, <1>2
    <3>5. Cardinality(Counted') = Cardinality(Counted) + 1
      BY <3>2, <3>4, <1>2, OneMore
    <3>6. Held' = Held + 1
      BY <3>1, <2>1, <1>1 DEF Held, Taken
    <3>7. slots'.until = now + SlotTtl
      BY <3>1 DEF Taken
    <3>9. Held' >= Cardinality(Counted') - Cardinality(late) /\ Cardinality(Running') <= MaxConcurrency + Cardinality(late)
      BY <3>4, <3>5, <3>6, <1>0, <1>1, <1>2 DEF SlotsCount
    <3>11. ASSUME NEW x \in Counted' \ late
           PROVE  now < req'[x].since + SlotTtl /\ req'[x].since + SlotTtl <= slots'.until
      <4>1. CASE x = r
        BY <4>1, <3>1, <3>7, <1>1
      <4>2. CASE x # r
        <5>1. x \in Counted \ late /\ x \in Requests /\ req'[x] = req[x]
          BY <4>2, <3>4, <3>11, <2>2, <1>2
        <5> QED BY <5>1, <3>7, <1>1 DEF SlotsCount
      <4> QED BY <4>1, <4>2
    <3> QED BY <2>1, <3>9, <3>11 DEF SlotsCount
  <2>8. CASE AcquireFails(r)
    <3>1. req'[r].pc = "handler" /\ req'[r].since = req[r].since /\ slots' \in {slots, Taken} /\ req'[r].holds = req[r].holds
      BY <2>8, <1>1 DEF AcquireFails, Go, Request
    <3>2. r \notin Counted /\ r \notin Running /\ ~req[r].holds /\ req[r].since = None
      BY <2>8 DEF AcquireFails, Counted, Running, Gives, Courses, Slotted
    <3>3. r \notin Counted' /\ r \notin Running'
      BY <3>1, <3>2 DEF Counted, Running, Gives
    <3>4. Counted' = Counted /\ Running' = Running
      BY <2>4, <2>5, <3>2, <3>3, <1>2
    <3>6. Held' >= Held
      BY <3>1, <2>1, <1>1 DEF Held, Taken
    <3>7. slots'.until \in {slots.until, now + SlotTtl} /\ Held' \in Int
      BY <3>1, <1>1, <2>1 DEF Taken, Held
    <3>9. Held' >= Cardinality(Counted') - Cardinality(late) /\ Cardinality(Running') <= MaxConcurrency + Cardinality(late)
      BY <3>4, <3>6, <3>7, <1>0, <1>1, <1>2 DEF SlotsCount
    <3>11. ASSUME NEW x \in Counted' \ late
           PROVE  now < req'[x].since + SlotTtl /\ req'[x].since + SlotTtl <= slots'.until
      <4>1. x \in Counted \ late /\ req'[x].since = req[x].since /\ x \in Requests
        BY <3>3, <3>4, <3>11, <2>2, <2>5
      <4> QED BY <4>1, <3>7, <1>1 DEF SlotsCount
    <3> QED BY <2>1, <3>9, <3>11 DEF SlotsCount
  <2>9. CASE SlotDecr(r)
    <3>1. req'[r].pc \in {"done", "account"} /\ req'[r].since = req[r].since /\ req'[r].holds = req[r].holds
      BY <2>9, <1>1 DEF SlotDecr, Go, Request
    <3>2. r \in Counted /\ r \notin Running /\ ~req[r].holds
      BY <2>9 DEF SlotDecr, Counted, Running, Gives, Courses, Slotted
    <3>3. r \notin Counted' /\ r \notin Running'
      BY <3>1, <3>2 DEF Counted, Running, Gives
    <3>4. Counted = Counted' \cup {r} /\ Running' = Running
      BY <2>4, <2>5, <3>2, <3>3, <1>2
    <3>5. Cardinality(Counted) = Cardinality(Counted') + 1 /\ Cardinality(Counted') \in Nat
      BY <3>3, <3>4, <2>5, OneMore
    <3>6. slots' = IF slots.until > now THEN [slots EXCEPT !.n = @ - 1] ELSE [n |-> -1, until |-> MaxNow + 1]
      BY <2>9 DEF SlotDecr, Lowered
    <3>7. Held' = Held - 1 /\ (slots.until > now => slots'.until = slots.until)
      <4>1. CASE slots.until > now
        BY <4>1, <3>6, <2>1, <1>1 DEF Held
      <4>2. CASE ~(slots.until > now)
        <5>1. Held = 0 /\ slots'.n = -1 /\ slots'.until = MaxNow + 1
          BY <4>2, <3>6 DEF Held
        <5>2. MaxNow + 1 > now
          BY <1>1 DEF MeterTyped
        <5> QED BY <5>1, <5>2, <4>2, <2>1 DEF Held
      <4> QED BY <4>1, <4>2
    <3>9. Held' >= Cardinality(Counted') - Cardinality(late) /\ Cardinality(Running') <= MaxConcurrency + Cardinality(late)
      BY <3>4, <3>5, <3>7, <1>0, <1>1, <1>2 DEF SlotsCount
    <3>11. ASSUME NEW x \in Counted' \ late
           PROVE  now < req'[x].since + SlotTtl /\ req'[x].since + SlotTtl <= slots'.until
      <4>1. x \in Counted \ late /\ x \in Requests /\ req'[x] = req[x]
        BY <3>3, <3>4, <3>11, <2>2, <2>5
      <4>2. slots'.until = slots.until
        BY <4>1, <3>7, <1>3, <1>1
      <4> QED BY <4>1, <4>2 DEF SlotsCount
    <3> QED BY <2>1, <3>9, <3>11 DEF SlotsCount
  \* Any other step counts no request more.
  <2>10. CASE slots' = slots /\ ~Acquire(r)
    <3>1. req'[r].since = req[r].since
      BY <1>4, <2>10, WritesRequest
    <3>2. req[r].pc \in {"new", "done"} => req'[r].since = None \/ req'[r].pc = "done"
      BY <1>4, WritesRequest, <2>3 DEF Slotted
    <3>3. /\ r \in Counted' => r \in Counted
          /\ r \in Running' => r \in Running
      BY <1>4, <2>10, WritesRequest DEF Counted, Running, Gives
    <3>4. Counted' \subseteq Counted /\ Running' \subseteq Running
      BY <3>3, <2>4, <2>5
    <3>5. Cardinality(Counted') \in Nat /\ Cardinality(Counted') <= Cardinality(Counted)
      BY <3>4, <1>2, NoMore
    <3>6. Cardinality(Running') \in Nat /\ Cardinality(Running') <= Cardinality(Running)
      BY <3>4, <1>2, NoMore
    <3>7. Held' = Held
      BY <2>1, <2>10 DEF Held
    <3>9. Held' >= Cardinality(Counted') - Cardinality(late) /\ Cardinality(Running') <= MaxConcurrency + Cardinality(late)
      BY <3>5, <3>6, <3>7, <1>0, <1>1, <1>2 DEF SlotsCount
    <3>11. ASSUME NEW x \in Counted' \ late
           PROVE  now < req'[x].since + SlotTtl /\ req'[x].since + SlotTtl <= slots.until
      <4>1. x \in Counted \ late /\ x \in Requests /\ req'[x].since = req[x].since
        BY <3>4, <3>11, <2>2, <2>5, <3>1
      <4> QED BY <4>1 DEF SlotsCount
    <3> QED BY <2>1, <2>10, <3>9, <3>11 DEF SlotsCount
  <2> QED BY <1>4, <2>6, <2>7, <2>8, <2>9, <2>10, WritesCounters
<1>5. CASE QuotaTick
  <2>1. now' = now + 1 /\ req' = req /\ slots' = slots /\ late' = late \cup Overdue
    BY <1>5 DEF QuotaTick
  <2>2. Counted' = Counted /\ Running' = Running
    BY <2>1 DEF Counted, Running, Gives
  <2>3. late' \subseteq Requests /\ Cardinality(late') \in Nat /\ Cardinality(late) <= Cardinality(late')
    <3>1. late' \subseteq Requests /\ late \subseteq late'
      BY <2>1, <1>1 DEF Overdue
    <3> QED BY <3>1, NoMore
  <2>4. ASSUME NEW x \in Counted \ late'
        PROVE  now + 1 < req[x].since + SlotTtl
    <3>1. x \in Requests /\ Gives(x) /\ x \notin Overdue
      BY <2>1, <2>4 DEF Counted
    <3>2. req[x].since # None
      BY <3>1 DEF Gives, Courses, Slotted
    <3> QED BY <3>1, <3>2, <1>1 DEF Overdue
  <2>5. \A x \in Counted \ late' : req[x].since + SlotTtl <= slots.until
    BY <2>1 DEF SlotsCount
  <2>6. Held' >= Cardinality(Counted) - Cardinality(late')
    <3>1. CASE slots.until > now + 1
      <4>1. Held' = Held
        BY <3>1, <2>1, <1>1 DEF Held
      <4> QED BY <4>1, <2>3, <1>0, <1>1, <1>2 DEF SlotsCount
    <3>2. CASE ~(slots.until > now + 1)
      <4>1. Held' = 0
        BY <3>2, <2>1, <1>1 DEF Held
      <4>2. Counted \subseteq late'
        <5> SUFFICES ASSUME NEW x \in Counted, x \notin late' PROVE FALSE
          OBVIOUS
        <5>1. now + 1 < req[x].since + SlotTtl /\ req[x].since + SlotTtl <= slots.until /\ x \in Requests
          BY <2>4, <2>5, <1>2
        <5> QED BY <5>1, <3>2, <1>1
      <4>3. Cardinality(Counted) <= Cardinality(late')
        BY <4>2, <2>3, NoMore
      <4> QED BY <4>1, <4>3, <2>3, <1>2
    <3> QED BY <3>1, <3>2
  <2>7. Cardinality(Running) <= MaxConcurrency + Cardinality(late')
    BY <2>3, <1>0, <1>1, <1>2 DEF SlotsCount
  <2> QED BY <2>1, <2>2, <2>4, <2>5, <2>6, <2>7 DEF SlotsCount
<1>6. CASE FlushStep \/ UNCHANGED <<now, metering>>
  <2>1. UNCHANGED <<now, req, slots, late>>
    BY <1>6, WritesFlush DEF metering
  <2> QED BY <2>1 DEF SlotsCount, Held, Counted, Running, Gives
<1> QED BY <1>4, <1>5, <1>6 DEF MeterNext

--------------------------------------------------------------------------------
(* The bucket and the quota. *)

\* A step gives a request a unit when the script grants it one, and gives one back
\* into the counter it was read from.
LEMMA WritesUnits ==
    ASSUME MeterTyped, Courses, NEW r \in Requests, Arrive(r) \/ RequestStep(r)
    PROVE  \/ /\ Script(r) /\ req[r].pc = "consume"
              /\ Consume(r) \/ ConsumeFails(r)
              /\ req'[r].unit = IF Granted(r) THEN PeriodOf(req[r].stamp) ELSE None
              /\ req'[r].back = req[r].back /\ req'[r].pc # "giveback"
           \/ /\ UNCHANGED <<bucket, setback>>
              /\ req'[r].unit = req[r].unit
              /\ \/ /\ quota' = quota
                    /\ req'[r].back = req[r].back /\ (req'[r].pc = "giveback" <=> req[r].pc = "giveback")
                 \/ /\ quota' = quota
                    /\ req'[r].back = None /\ (req[r].back = None \/ req[r].pc = "giveback")
                 \/ /\ quota' = quota
                    /\ req[r].back = None /\ req'[r].pc = "giveback"
                 \/ /\ quota' = [quota EXCEPT ![req[r].back] = @ - 1]
                    /\ req[r].pc = "giveback" /\ req'[r].pc # "giveback"
                    /\ req'[r].back = req[r].back
<1> DEFINE q == req[r]
           n == req'[r]
<1>1. req \in [Requests -> Request] /\ q \in Request
  BY DEF MeterTyped
<1>2. Told(q) /\ Settled(q)
  BY DEF Courses
<1> USE Nexts
<1>3. CASE Arrive(r)
  BY <1>3, <1>1, <1>2 DEF Arrive, Request, Told, Settled, Due
<1>4. CASE Consume(r)
  BY <1>4, <1>1, <1>2 DEF Consume, Request, Told, Settled, Due
<1>5. CASE ConsumeFails(r)
  <2>1. PICK ran \in BOOLEAN :
             /\ IF ran THEN Script(r) ELSE UNCHANGED <<bucket, quota, setback>>
             /\ req' = [req EXCEPT ![r].pc = "acquire", ![r].clean = FALSE,
                                   ![r].unit = IF ran /\ Granted(r) THEN PeriodOf(req[r].stamp) ELSE None]
    BY <1>5 DEF ConsumeFails
  <2>2. q.pc = "consume" /\ q.unit = None
    BY <1>5, <1>2 DEF ConsumeFails, Settled
  <2>3. /\ n.pc = "acquire" /\ n.back = q.back
        /\ n.unit = IF ran /\ Granted(r) THEN PeriodOf(req[r].stamp) ELSE None
    BY <2>1, <1>1 DEF Request
  <2>4. CASE ran
    BY <1>5, <2>1, <2>2, <2>3, <2>4
  <2>5. CASE ~ran
    BY <2>1, <2>2, <2>3, <2>5
  <2> QED BY <2>4, <2>5
<1>6. CASE Acquire(r)
  BY <1>6, <1>1, <1>2 DEF Acquire, Request, Told, Settled, Due
<1>7. CASE AcquireFails(r)
  BY <1>7, <1>1, <1>2 DEF AcquireFails, Go, Request, Told, Settled, Due
<1>8. CASE \E how \in {"billed", "error", "raised", "cancelled"} : End(r, how)
  BY <1>8, <1>1, <1>2 DEF End, First, Request, Told, Settled, Due
<1>9. CASE Release(r)
  BY <1>9, <1>1, <1>2 DEF Release, Lower, Request, Told, Settled, Due
<1>10. CASE Withdraw(r)
  BY <1>10, <1>1, <1>2 DEF Withdraw, Lower, Request, Told, Settled, Due
<1>11. CASE SlotDecr(r)
  BY <1>11, <1>1, <1>2 DEF SlotDecr, Go, Request, Told, Settled, Due
<1>12. CASE Account(r)
  BY <1>12, <1>1, <1>2 DEF Account, Refunded, Request, Told, Settled, Due
<1>13. CASE GiveBack(r)
  BY <1>13, <1>1, <1>2 DEF GiveBack, Go, Request, Told, Settled, Due
<1>14. CASE Record(r)
  BY <1>14, <1>1, <1>2 DEF Record, Go, Request, Told, Settled, Due
<1>15. CASE CallLost(r)
  BY <1>15, <1>1, <1>2 DEF CallLost, Refunded, Owes, Request, Told, Settled, Due
<1>16. CASE Die(r)
  BY <1>16, <1>1, <1>2 DEF Die, Owes, Request, Told, Settled, Due
<1> QED BY <1>3, <1>4, <1>5, <1>6, <1>7, <1>8, <1>9, <1>10, <1>11, <1>12, <1>13, <1>14, <1>15, <1>16 DEF RequestStep

\* What is in the bucket and what it granted come to no more than the burst and what
\* time, or a clock set back, refilled.
LEMMA BucketCountKept ==
    MeterTyped /\ Courses /\ Clocked /\ BucketCount /\ MeterNext => BucketCount'
<1> SUFFICES ASSUME MeterTyped, Courses, Clocked, BucketCount, MeterNext PROVE BucketCount'
  OBVIOUS
<1> DEFINE G == {x \in Requests : req[x].unit # None}
<1>1. /\ now \in Nat /\ Burst \in Nat \ {0} /\ setback \in Nat
      /\ bucket \in [tokens : 0..Burst, ts : 0..MaxNow, until : Nat]
      /\ bucket.ts \in Nat /\ bucket.tokens \in 0..Burst
  BY Sizes DEF MeterTyped
<1>2. G \subseteq Requests /\ Cardinality(G) \in Nat
  BY NoMore
<1>3. ASSUME NEW r \in Requests, Arrive(r) \/ RequestStep(r)
      PROVE  BucketCount'
  <2>1. \A x \in Requests : x # r => req'[x] = req[x]
    BY <1>3, OthersStay
  <2>2. CASE /\ Script(r) /\ req[r].pc = "consume"
             /\ req'[r].unit = IF Granted(r) THEN PeriodOf(req[r].stamp) ELSE None
    <3> DEFINE k == IF Granted(r) THEN 1 ELSE 0
    <3>1. req[r].unit = None /\ req[r].stamp \in {now - 1, now} /\ req[r].stamp \in 0..MaxNow
      BY <2>2 DEF Courses, Settled, Clocked, MeterTyped, Request
    <3>2. PeriodOf(req[r].stamp) # None
      <4>1. PeriodOf(req[r].stamp) \in Periods
        BY <3>1, PeriodsGrow
      <4> QED BY <4>1 DEF Periods, None
    <3>3. Cardinality(G') = Cardinality(G) + k
      <4>1. CASE Granted(r)
        <5>1. G' = G \cup {r} /\ r \notin G
          BY <2>1, <2>2, <3>1, <3>2, <4>1
        <5> QED BY <4>1, <5>1, <1>2, OneMore
      <4>2. CASE ~Granted(r)
        <5>1. G' = G
          BY <2>1, <2>2, <3>1, <4>2
        <5>2. Cardinality(G') = Cardinality(G)
          BY <5>1
        <5>3. k = 0
          BY <4>2
        <5> HIDE DEF G, k
        <5> QED BY <5>2, <5>3, <1>2
      <4> QED BY <4>1, <4>2
    <3>4. CASE ~QuotaLeft(r)
      <4>1. ~Granted(r) /\ bucket' = bucket /\ setback' = setback
        BY <2>2, <3>4 DEF Script, Granted
      <4>2. G' = G
        BY <2>1, <2>2, <3>1, <4>1
      <4> QED BY <4>1, <4>2 DEF BucketCount
    <3>5. CASE QuotaLeft(r)
      <4> DEFINE filled == Refilled(r)
                 behind == bucket.ts - req[r].stamp
      <4>2. filled \in 0..Burst
        BY Refills
      <4>1. /\ bucket'.tokens = filled - k /\ bucket'.ts = req[r].stamp
            /\ bucket'.until = now + Burst + 1
        <5>1. bucket' = [tokens |-> IF Granted(r) THEN filled - 1 ELSE filled, ts |-> req[r].stamp,
                         until |-> now + Burst + 1]
          BY <2>2, <3>5 DEF Script, Granted
        <5>2. filled \in Int
          BY <4>2, <1>1
        <5> QED BY <5>1, <5>2
      <4>3. setback' = IF bucket.until > now THEN setback + Max({0, behind}) ELSE setback
        BY <2>2, <3>5 DEF Script
      <4>4. Max({0, behind}) = IF 0 >= behind THEN 0 ELSE behind
        <5>1. 0 \in Int /\ behind \in Int
          BY <1>1, <3>1
        <5> HIDE DEF behind
        <5> QED BY <5>1, OfTwo
      <4>5. k \in 0..1
        OBVIOUS
      <4>6. Cardinality(G) + filled <= Burst + req[r].stamp + setback'
        <5>1. CASE now < bucket.until
          <6>1. filled <= bucket.tokens \/ (bucket.ts <= req[r].stamp /\ filled <= bucket.tokens + req[r].stamp - bucket.ts)
            BY <5>1, Refills
          <6>2. Cardinality(G) + bucket.tokens <= Burst + bucket.ts + setback
            BY DEF BucketCount
          <6>3. setback' = IF 0 >= behind THEN setback ELSE setback + behind
            BY <4>3, <4>4, <5>1, <1>1
          <6>4. filled \in Int /\ req[r].stamp \in Int
            BY <4>2, <1>1, <3>1
          <6> HIDE DEF filled, G
          <6> QED BY <6>1, <6>2, <6>3, <6>4, <1>1, <1>2
        <5>2. CASE ~(now < bucket.until)
          <6>1. setback' = setback
            BY <4>3, <5>2, <1>1
          <6>2. CASE bucket.until = 0
            <7>1. G = {}
              BY <6>2 DEF BucketCount
            <7>2. Cardinality(G) = 0
              BY <7>1, FS_EmptySet
            <7> QED BY <7>2, <6>1, <4>2, <3>1, <1>1
          <6>3. CASE bucket.until # 0
            <7>1. bucket.ts + Burst + 1 <= bucket.until /\ bucket.until <= now
              BY <6>3, <5>2, <1>1 DEF BucketCount
            <7>2. Cardinality(G) + bucket.tokens <= Burst + bucket.ts + setback
              BY DEF BucketCount
            <7>3. bucket.ts + Burst <= req[r].stamp
              BY <7>1, <3>1, <1>1
            <7>4. Cardinality(G) <= req[r].stamp + setback
              <8> HIDE DEF G
              <8> QED BY <7>2, <7>3, <3>1, <1>1, <1>2
            <7> HIDE DEF G, filled
            <7> QED BY <7>4, <6>1, <4>2, <3>1, <1>1, <1>2
          <6> QED BY <6>2, <6>3
        <5> QED BY <5>1, <5>2
      <4>7. Cardinality(G') + bucket'.tokens <= Burst + bucket'.ts + setback'
        <5>1. setback' \in Nat
          BY <2>2, ScriptShape
        <5>2. Cardinality(G') \in Nat /\ req[r].stamp \in Nat
          BY <3>3, <4>5, <1>2, <3>1
        <5> HIDE DEF G, filled, k
        <5> QED BY <3>3, <4>1, <4>2, <4>5, <4>6, <5>1, <5>2, <1>1, <1>2
      <4>8. bucket'.until # 0 /\ bucket'.ts + Burst + 1 <= bucket'.until
        BY <4>1, <3>1, <1>1
      <4> QED BY <4>7, <4>8 DEF BucketCount
    <3> QED BY <3>4, <3>5
  <2>3. CASE UNCHANGED <<bucket, setback>> /\ req'[r].unit = req[r].unit
    <3>1. \A x \in Requests : req'[x].unit = req[x].unit
      BY <2>1, <2>3
    <3>2. G' = G
      BY <3>1
    <3> QED BY <2>3, <3>1, <3>2 DEF BucketCount
  <2> QED BY <1>3, <2>2, <2>3, WritesUnits
<1>4. ASSUME UNCHANGED <<req, bucket, setback>>
      PROVE  BucketCount'
  BY <1>4 DEF BucketCount
<1> QED BY <1>3, <1>4, WritesFlush DEF MeterNext, QuotaTick, metering

\* The quota of a month stays the units less what was given back.
LEMMA QuotaCountKept ==
    MeterTyped /\ Courses /\ QuotaCount /\ MeterNext => QuotaCount'
<1> SUFFICES ASSUME MeterTyped, Courses, QuotaCount, MeterNext PROVE QuotaCount'
  OBVIOUS
<1>1. quota \in [Periods -> Int] /\ QuotaLimit \in Nat
  BY Sizes DEF MeterTyped
<1>2. \A p \in Periods : /\ Units(p) \subseteq Requests /\ Backs(p) \subseteq Requests
                         /\ Cardinality(Units(p)) \in Nat /\ Cardinality(Backs(p)) \in Nat
  BY NoMore DEF Units, Backs
<1>3. ASSUME NEW r \in Requests, Arrive(r) \/ RequestStep(r), NEW p \in Periods
      PROVE  /\ quota'[p] = Cardinality(Units(p)') - Cardinality(Backs(p)')
             /\ quota'[p] <= QuotaLimit
  <2>1. \A x \in Requests : x # r => req'[x] = req[x]
    BY <1>3, OthersStay
  <2>2. p # None
    BY DEF Periods, None
  <2>3. quota[p] = Cardinality(Units(p)) - Cardinality(Backs(p)) /\ quota[p] <= QuotaLimit /\ quota[p] \in Int
    BY <1>1 DEF QuotaCount
  <2>4. ASSUME UNCHANGED <<Units(p), Backs(p)>>, quota'[p] = quota[p]
        PROVE  /\ quota'[p] = Cardinality(Units(p)') - Cardinality(Backs(p)')
               /\ quota'[p] <= QuotaLimit
    BY <2>3, <2>4
  <2>5. CASE /\ Script(r) /\ req[r].pc = "consume"
             /\ req'[r].unit = IF Granted(r) THEN PeriodOf(req[r].stamp) ELSE None
             /\ req'[r].back = req[r].back /\ req'[r].pc # "giveback"
    <3>1. req[r].unit = None /\ PeriodOf(req[r].stamp) \in Periods
      <4>1. req[r].unit = None /\ req[r].stamp \in 0..MaxNow
        BY <2>5 DEF Courses, Settled, MeterTyped, Request
      <4> QED BY <4>1, PeriodsGrow
    <3>2. Backs(p)' = Backs(p)
      BY <2>1, <2>5 DEF Backs
    <3>3. quota' = IF Granted(r) THEN [quota EXCEPT ![PeriodOf(req[r].stamp)] = @ + 1] ELSE quota
      BY <2>5, ScriptShape
    <3>4. CASE Granted(r) /\ PeriodOf(req[r].stamp) = p
      <4>1. r \notin Units(p) /\ Units(p)' = Units(p) \cup {r}
        BY <2>1, <2>2, <2>5, <3>1, <3>4 DEF Units
      <4>2. Cardinality(Units(p)') = Cardinality(Units(p)) + 1
        BY <4>1, <1>2, OneMore
      <4>3. quota[p] < QuotaLimit
        BY <3>4 DEF Granted, QuotaLeft
      <4>4. quota'[p] = quota[p] + 1
        BY <3>3, <3>4, <1>1
      <4> QED BY <3>2, <4>2, <4>3, <4>4, <2>3, <1>1, <1>2
    <3>5. CASE ~(Granted(r) /\ PeriodOf(req[r].stamp) = p)
      <4>1. Units(p)' = Units(p)
        BY <2>1, <2>2, <2>5, <3>1, <3>5 DEF Units
      <4>2. quota'[p] = quota[p]
        BY <3>3, <3>5, <3>1, <1>1
      <4> QED BY <4>1, <4>2, <3>2, <2>4
    <3> QED BY <3>4, <3>5
  <2>6. CASE req'[r].unit = req[r].unit
    <3>1. Units(p)' = Units(p)
      BY <2>1, <2>6 DEF Units
    <3>2. CASE /\ quota' = quota
               /\ req'[r].back = req[r].back /\ (req'[r].pc = "giveback" <=> req[r].pc = "giveback")
      <4>1. Backs(p)' = Backs(p)
        BY <2>1, <3>2 DEF Backs
      <4> QED BY <3>1, <3>2, <4>1, <2>4
    <3>3. CASE /\ quota' = quota
               /\ req'[r].back = None /\ (req[r].back = None \/ req[r].pc = "giveback")
      <4>1. Backs(p)' = Backs(p)
        BY <2>1, <2>2, <3>3 DEF Backs
      <4> QED BY <3>1, <3>3, <4>1, <2>4
    <3>4. CASE quota' = quota /\ req[r].back = None /\ req'[r].pc = "giveback"
      <4>1. Backs(p)' = Backs(p)
        BY <2>1, <2>2, <3>4 DEF Backs
      <4> QED BY <3>1, <3>4, <4>1, <2>4
    <3>5. CASE /\ quota' = [quota EXCEPT ![req[r].back] = @ - 1]
               /\ req[r].pc = "giveback" /\ req'[r].pc # "giveback"
               /\ req'[r].back = req[r].back
      <4>1. CASE req[r].back = p
        <5>1. r \notin Backs(p) /\ Backs(p)' = Backs(p) \cup {r}
          BY <2>1, <3>5, <4>1 DEF Backs
        <5>2. Cardinality(Backs(p)') = Cardinality(Backs(p)) + 1
          BY <5>1, <1>2, OneMore
        <5>3. quota'[p] = quota[p] - 1
          BY <3>5, <4>1, <1>1
        <5> QED BY <3>1, <5>2, <5>3, <2>3, <1>1, <1>2
      <4>2. CASE req[r].back # p
        <5>1. Backs(p)' = Backs(p)
          BY <2>1, <3>5, <4>2 DEF Backs
        <5>2. quota'[p] = quota[p]
          BY <3>5, <4>2, <1>1
        <5> QED BY <3>1, <5>1, <5>2, <2>4
      <4> QED BY <4>1, <4>2
    <3> QED BY <1>3, <2>6, <3>2, <3>3, <3>4, <3>5, <2>5, WritesUnits
  <2> QED BY <1>3, <2>5, <2>6, WritesUnits
<1>4. ASSUME UNCHANGED <<req, quota>>
      PROVE  QuotaCount'
  BY <1>4 DEF QuotaCount, Units, Backs
<1> QED BY <1>3, <1>4, WritesFlush DEF MeterNext, QuotaTick, QuotaCount, metering

\* A refund reads the counter, and whose reading it overlaps.
LEMMA WritesMet ==
    ASSUME MeterTyped, Courses, NEW r \in Requests, Arrive(r) \/ RequestStep(r)
    PROVE  \/ /\ Account(r) /\ req[r].pc = "account" /\ req[r].back = None
              /\ UNCHANGED quota /\ quota[PeriodOf(now)] > 0
              /\ req'[r].pc = "giveback" /\ req'[r].back = PeriodOf(now)
              /\ met' = IF Refunding(PeriodOf(now)) # {} THEN met \cup Refunding(PeriodOf(now)) \cup {r} ELSE met
           \/ /\ met' = met
              /\ req'[r].pc = "giveback" => req[r].pc = "giveback"
<1> DEFINE q == req[r]
           n == req'[r]
<1>1. req \in [Requests -> Request] /\ q \in Request
  BY DEF MeterTyped
<1>2. Told(q) /\ Settled(q)
  BY DEF Courses
<1> USE Nexts
<1>3. CASE Account(r)
  <2>1. q.pc = "account" /\ q.back = None /\ q.status \in {"billed", "error", "raised"} /\ UNCHANGED quota
    BY <1>3, <1>2 DEF Account, Told, Settled, Due
  <2>2. CASE Refunded(r) /\ Refundable(PeriodOf(now))
    <3>1. req' = [req EXCEPT ![r].pc = "giveback", ![r].back = PeriodOf(now)]
      BY <1>3, <2>2, <1>1 DEF Account
    <3>2. n.pc = "giveback" /\ n.back = PeriodOf(now)
      BY <3>1, <1>1 DEF Request
    <3>3. met' = IF Refunding(PeriodOf(now)) # {} THEN met \cup Refunding(PeriodOf(now)) \cup {r} ELSE met
      BY <1>3, <2>2 DEF Account
    <3> QED BY <1>3, <2>1, <2>2, <3>2, <3>3 DEF Refundable
  <2>3. CASE ~(Refunded(r) /\ Refundable(PeriodOf(now)))
    <3>1. met' = met
      BY <1>3, <2>3 DEF Account
    <3>2. n.pc \in {"record", After("account", q.status)}
      BY <1>3, <2>3, <1>1 DEF Account, Request
    <3>3. n.pc # "giveback"
      BY <3>2, <2>1
    <3> QED BY <3>1, <3>3
  <2> QED BY <2>2, <2>3
<1>4. ASSUME ~Account(r) PROVE met' = met
  BY <1>4, WritesCounters
<1>5. CASE Arrive(r) \/ Consume(r) \/ ConsumeFails(r) \/ Acquire(r)
  BY <1>5, <1>4, <1>3, <1>1 DEF Arrive, Consume, ConsumeFails, Acquire, Request
<1>6. CASE AcquireFails(r) \/ SlotDecr(r) \/ GiveBack(r) \/ Record(r)
  BY <1>6, <1>4, <1>3, <1>1, <1>2 DEF AcquireFails, SlotDecr, GiveBack, Record, Go, Request, Told
<1>7. CASE \E how \in {"billed", "error", "raised", "cancelled"} : End(r, how)
  BY <1>7, <1>4, <1>3, <1>1 DEF End, First, Request
<1>8. CASE Release(r)
  BY <1>8, <1>4, <1>3, <1>1, <1>2 DEF Release, Lower, Request, Told
<1>9. CASE Withdraw(r)
  BY <1>9, <1>4, <1>3, <1>1, <1>2 DEF Withdraw, Lower, Request, Told
<1>10. CASE CallLost(r)
  BY <1>10, <1>4, <1>3, <1>1, <1>2 DEF CallLost, Request, Told
<1>11. CASE Die(r)
  BY <1>11, <1>4, <1>3, <1>1 DEF Die, Request
<1> QED BY <1>3, <1>5, <1>6, <1>7, <1>8, <1>9, <1>10, <1>11 DEF RequestStep

\* A counter goes below zero only by refunds that overlapped.
LEMMA RefundCountKept ==
    MeterTyped /\ Courses /\ RefundCount /\ MeterNext => RefundCount'
<1> SUFFICES ASSUME MeterTyped, Courses, RefundCount, MeterNext PROVE RefundCount'
  OBVIOUS
<1>1. quota \in [Periods -> Int] /\ met \subseteq Requests
  BY DEF MeterTyped
<1>2. ASSUME NEW r \in Requests, Arrive(r) \/ RequestStep(r), NEW p \in Periods
      PROVE  \/ quota'[p] >= Cardinality(Refunding(p)')
             \/ Cardinality(Refunding(p)') - quota'[p] < Cardinality(Met(p)')
  <2> DEFINE R == Refunding(p)
             T == Refunding(p)'
             M == Met(p)
             N == Met(p)'
  <2> SUFFICES quota'[p] >= Cardinality(T) \/ Cardinality(T) - quota'[p] < Cardinality(N)
    OBVIOUS
  <2>1. \A x \in Requests : x # r => req'[x] = req[x]
    BY <1>2, OthersStay
  <2>2. p # None
    BY DEF Periods, None
  <2>3. R \subseteq Requests /\ T \subseteq Requests /\ M \subseteq Requests /\ N \subseteq Requests
    <3>1. met' \subseteq Requests
      BY <1>2, RequestTyped DEF MeterTyped
    <3> QED BY <3>1, <1>1 DEF Refunding, Met
  <2>4. /\ Cardinality(R) \in Nat /\ Cardinality(T) \in Nat /\ Cardinality(M) \in Nat /\ Cardinality(N) \in Nat
        /\ quota[p] \in Int
    BY <2>3, <1>1, NoMore
  <2>5. quota[p] >= Cardinality(R) \/ Cardinality(R) - quota[p] < Cardinality(M)
    BY DEF RefundCount
  <2>6. CASE /\ req[r].pc = "account" /\ req[r].back = None
             /\ UNCHANGED quota /\ quota[PeriodOf(now)] > 0
             /\ req'[r].pc = "giveback" /\ req'[r].back = PeriodOf(now)
             /\ met' = IF Refunding(PeriodOf(now)) # {} THEN met \cup Refunding(PeriodOf(now)) \cup {r} ELSE met
    <3>1. met \subseteq met' /\ r \notin R /\ r \notin M
      BY <2>2, <2>6 DEF Refunding, Met
    <3>2. CASE p = PeriodOf(now)
      <4>1. T = R \cup {r}
        BY <2>1, <2>3, <2>6, <3>2 DEF Refunding
      <4>2. Cardinality(T) = Cardinality(R) + 1
        BY <2>3, <3>1, <4>1, OneMore
      <4>3. CASE R = {}
        <5>1. Cardinality(R) = 0
          BY <4>3, FS_EmptySet
        <5> HIDE DEF R, T, M, N
        <5> QED BY <4>2, <5>1, <2>4, <2>6, <3>2
      <4>4. CASE R # {}
        <5>1. T \subseteq N
          BY <2>6, <3>2, <4>1, <4>4, <2>1 DEF Refunding, Met
        <5>2. Cardinality(T) <= Cardinality(N)
          BY <2>3, <5>1, NoMore
        <5> HIDE DEF R, T, M, N
        <5> QED BY <5>2, <2>4, <2>6, <3>2
      <4> QED BY <4>3, <4>4
    <3>3. CASE p # PeriodOf(now)
      <4>1. T = R
        BY <2>1, <2>3, <2>6, <3>1, <3>3 DEF Refunding
      <4>2. M \subseteq N
        BY <2>1, <2>6, <3>1, <1>1, <2>2 DEF Met
      <4>3. Cardinality(M) <= Cardinality(N)
        BY <2>3, <4>2, NoMore
      <4> HIDE DEF R, T, M, N
      <4> QED BY <4>1, <4>3, <2>4, <2>5, <2>6
    <3> QED BY <3>2, <3>3
  <2>7. CASE met' = met /\ (req'[r].pc = "giveback" => req[r].pc = "giveback")
    <3>1. ASSUME R = T, M \subseteq N, quota'[p] \in Int, quota'[p] >= quota[p]
          PROVE  quota'[p] >= Cardinality(T) \/ Cardinality(T) - quota'[p] < Cardinality(N)
      <4>1. Cardinality(M) <= Cardinality(N) /\ Cardinality(R) = Cardinality(T)
        BY <2>3, <3>1, NoMore
      <4> HIDE DEF R, T, M, N
      <4> QED BY <4>1, <3>1, <2>4, <2>5
    <3>2. CASE /\ Script(r) /\ req[r].pc = "consume"
               /\ req'[r].back = req[r].back /\ req'[r].pc # "giveback"
      <4>1. R = T /\ M \subseteq N
        BY <1>1, <2>1, <2>7, <3>2 DEF Refunding, Met
      <4>2. quota' = IF Granted(r) THEN [quota EXCEPT ![PeriodOf(req[r].stamp)] = @ + 1] ELSE quota
        BY <3>2, ScriptShape
      <4>3. quota'[p] \in Int /\ quota'[p] >= quota[p]
        BY <4>2, <1>1, <2>4
      <4> HIDE DEF R, T, M, N
      <4> QED BY <3>1, <4>1, <4>3
    <3>3. CASE /\ quota' = quota
               /\ req'[r].back = req[r].back /\ (req'[r].pc = "giveback" <=> req[r].pc = "giveback")
      <4>1. R = T /\ M \subseteq N
        BY <1>1, <2>1, <2>7, <3>3 DEF Refunding, Met
      <4> HIDE DEF R, T, M, N
      <4> QED BY <3>1, <3>3, <4>1, <2>4
    <3>4. CASE /\ quota' = quota
               /\ req'[r].back = None /\ (req[r].back = None \/ req[r].pc = "giveback")
      <4>1. T = R \ {r} /\ M \ {r} = N \ {r} /\ r \notin N
        BY <1>1, <2>1, <2>2, <2>7, <3>4 DEF Refunding, Met
      <4>2. r \in M => r \in R
        BY <2>2, <3>4 DEF Refunding, Met
      <4>3. CASE r \in R
        <5>1. Cardinality(R) = Cardinality(T) + 1
          <6>1. R = T \cup {r} /\ r \notin T
            BY <4>1, <4>3
          <6> QED BY <6>1, <2>3, OneMore
        <5>2. Cardinality(M) <= Cardinality(N) + 1
          <6>1. CASE r \in M
            <7>1. M = N \cup {r}
              BY <4>1, <6>1
            <7> QED BY <7>1, <4>1, <2>3, <2>4, OneMore
          <6>2. CASE r \notin M
            <7>1. M = N
              BY <4>1, <6>2
            <7> HIDE DEF M, N
            <7> QED BY <7>1, <2>4
          <6> QED BY <6>1, <6>2
        <5> HIDE DEF R, T, M, N
        <5> QED BY <5>1, <5>2, <3>4, <2>4, <2>5
      <4>4. CASE r \notin R
        <5>1. R = T /\ M \subseteq N
          BY <4>1, <4>2, <4>4
        <5> HIDE DEF R, T, M, N
        <5> QED BY <3>1, <3>4, <5>1, <2>4
      <4> QED BY <4>3, <4>4
    <3>5. CASE quota' = quota /\ req[r].back = None /\ req'[r].pc = "giveback"
      <4>1. req[r].pc = "giveback" /\ Settled(req[r])
        BY <2>7, <3>5 DEF Courses
      <4> QED BY <4>1, <3>5 DEF Settled
    <3>6. CASE /\ quota' = [quota EXCEPT ![req[r].back] = @ - 1]
               /\ req[r].pc = "giveback" /\ req'[r].pc # "giveback"
               /\ req'[r].back = req[r].back
      <4>1. M \subseteq N
        BY <1>1, <2>1, <2>7, <3>6 DEF Met
      <4>2. CASE req[r].back = p
        <5>1. R = T \cup {r} /\ r \notin T
          BY <2>1, <3>6, <4>2 DEF Refunding
        <5>2. Cardinality(R) = Cardinality(T) + 1 /\ Cardinality(M) <= Cardinality(N)
          BY <5>1, <4>1, <2>3, OneMore, NoMore
        <5>3. quota'[p] = quota[p] - 1
          BY <3>6, <4>2, <1>1
        <5> HIDE DEF R, T, M, N
        <5> QED BY <5>2, <5>3, <2>4, <2>5
      <4>3. CASE req[r].back # p
        <5>1. R = T
          BY <2>1, <3>6, <4>3 DEF Refunding
        <5>2. quota'[p] = quota[p]
          BY <3>6, <4>3, <1>1
        <5> HIDE DEF R, T, M, N
        <5> QED BY <3>1, <4>1, <5>1, <5>2, <2>4
      <4> QED BY <4>2, <4>3
    <3> QED BY <1>2, <3>2, <3>3, <3>4, <3>5, <3>6, WritesUnits
  <2> QED BY <1>2, <2>6, <2>7, WritesMet
<1>3. ASSUME UNCHANGED <<req, quota, met>>
      PROVE  RefundCount'
  BY <1>3 DEF RefundCount, Refunding, Met
<1> QED BY <1>2, <1>3, WritesFlush DEF MeterNext, QuotaTick, RefundCount, metering

--------------------------------------------------------------------------------
(* The usage of a day. *)

\* A request is recorded in its day when its count reaches the buffer.
LEMMA WritesDays ==
    ASSUME MeterTyped, Courses, NEW r \in Requests, Arrive(r) \/ RequestStep(r)
    PROVE  \/ /\ Record(r) /\ req[r].pc = "record" /\ req'[r].pc # "record"
              /\ req'[r].day = req[r].day /\ req[r].day \in Periods
           \/ /\ UNCHANGED <<buffer, spoiled>>
              /\ \/ req'[r].day = req[r].day /\ (req'[r].pc = "record" <=> req[r].pc = "record")
                 \/ req[r].pc = "record" /\ req'[r].day = None
                 \/ req'[r].pc = "record" /\ req[r].day = None
                 \/ req[r].day = None /\ req'[r].day = None
<1> DEFINE q == req[r]
           n == req'[r]
<1>1. req \in [Requests -> Request] /\ q \in Request
  BY DEF MeterTyped
<1>2. Told(q) /\ Settled(q)
  BY DEF Courses
<1> USE Nexts
<1>3. CASE Arrive(r)
  BY <1>3, <1>1, <1>2 DEF Arrive, Request, Told, Settled, Due
<1>4. CASE Consume(r)
  BY <1>4, <1>1, <1>2 DEF Consume, Request, Told, Settled, Due
<1>5. CASE ConsumeFails(r)
  BY <1>5, <1>1, <1>2 DEF ConsumeFails, Request, Told, Settled, Due
<1>6. CASE Acquire(r)
  BY <1>6, <1>1, <1>2 DEF Acquire, Request, Told, Settled, Due
<1>7. CASE AcquireFails(r)
  BY <1>7, <1>1, <1>2 DEF AcquireFails, Go, Request, Told, Settled, Due
<1>8. CASE \E how \in {"billed", "error", "raised", "cancelled"} : End(r, how)
  BY <1>8, <1>1, <1>2 DEF End, First, Request, Told, Settled, Due
<1>9. CASE Release(r)
  BY <1>9, <1>1, <1>2 DEF Release, Lower, Request, Told, Settled, Due
<1>10. CASE Withdraw(r)
  BY <1>10, <1>1, <1>2 DEF Withdraw, Lower, Request, Told, Settled, Due
<1>11. CASE SlotDecr(r)
  BY <1>11, <1>1, <1>2 DEF SlotDecr, Go, Request, Told, Settled, Due
<1>12. CASE Account(r)
  BY <1>12, <1>1, <1>2 DEF Account, Refunded, Request, Told, Settled, Due
<1>13. CASE GiveBack(r)
  BY <1>13, <1>1, <1>2 DEF GiveBack, Go, Request, Told, Settled, Due
<1>14. CASE Record(r)
  BY <1>14, <1>1, <1>2 DEF Record, Go, Request, Told, Settled, Due
<1>15. CASE CallLost(r)
  BY <1>15, <1>1, <1>2 DEF CallLost, Refunded, Owes, Request, Told, Settled, Due
<1>16. CASE Die(r)
  BY <1>16, <1>1, <1>2 DEF Die, Owes, Request, Told, Settled, Due
<1> QED BY <1>3, <1>4, <1>5, <1>6, <1>7, <1>8, <1>9, <1>10, <1>11, <1>12, <1>13, <1>14, <1>15, <1>16 DEF RequestStep

\* What is said of a day stays said.
LEMMA SaidStays ==
    ASSUME spoiled \subseteq spoiled', NEW d
    PROVE  /\ Spoilt(d) => Spoilt(d)'
           /\ Overlapped(d) => Overlapped(d)'
BY DEF Spoilt, Overlapped

\* A flush keeps what it read.
LEMMA FlushingKept ==
    MeterTyped /\ Courses /\ Clocked /\ Flushing /\ MeterNext => Flushing'
<1> SUFFICES ASSUME MeterTyped, Courses, Clocked, Flushing, MeterNext PROVE Flushing'
  OBVIOUS
<1> DEFINE p == PeriodOf(now)
<1>1. /\ now \in 0..MaxNow /\ MaxNow \in Nat /\ p \in Periods /\ Periods \subseteq Int
      /\ buffer \in [Periods -> Nat] /\ flush \in [Flushers -> Flush]
  <2>1. now \in 0..MaxNow /\ MaxNow \in Nat
    BY Sizes DEF MeterTyped
  <2>2. now \in 0..MaxNow /\ now <= now
    BY <2>1
  <2>3. p \in Periods
    BY <2>2, PeriodsGrow
  <2>4. Periods \subseteq Int
    BY DEF Periods
  <2> HIDE DEF p
  <2> QED BY <2>1, <2>3, <2>4 DEF MeterTyped
<1>2. \A f \in Flushers : /\ flush[f].days \subseteq Periods /\ flush[f].counts \in Nat
                          /\ flush[f].days # {} => Day(f) \in flush[f].days /\ Day(f) \in Periods
  BY <1>1, FlushAt DEF Flush
<1>3. ASSUME NEW r \in Requests, Arrive(r) \/ RequestStep(r)
      PROVE  Flushing'
  <2>1. UNCHANGED <<now, flush>>
    BY <1>3, WritesCounters
  <2>2. CASE UNCHANGED <<buffer, spoiled>>
    BY <2>1, <2>2 DEF Flushing, ReadsHold, Reading, Day, PeriodOf, Spoilt, Overlapped
  <2>3. CASE Record(r) /\ req[r].day \in Periods
    <3> DEFINE e == req[r].day
    <3>1. /\ buffer' = [buffer EXCEPT ![e] = @ + 1]
          /\ spoiled' = IF e < p THEN spoiled \cup {<<e, "late">>} ELSE spoiled
      BY <2>3 DEF Record
    <3>2. e <= p /\ e \in Int /\ p \in Int
      BY <2>3, <1>1 DEF Clocked
    <3>3. \A d \in Periods : buffer'[d] > 0 => d <= p
      BY <3>1, <3>2, <1>1 DEF Flushing
    <3>4. spoiled \subseteq spoiled'
      BY <3>1
    <3>5. ASSUME NEW f \in Flushers
          PROVE  ReadsHold(f)'
      <4> SUFFICES ASSUME flush[f].pc = "delete"
                   PROVE  /\ flush[f].days # {}
                          /\ flush[f].counts < buffer'[Day(f)] \/ Day(f) = p => Spoilt(Day(f))'
        BY <2>1 DEF ReadsHold, Day, PeriodOf, Spoilt
      <4> DEFINE m == Day(f)
                 Now == Spoilt(m)'
      <4> SUFFICES /\ flush[f].days # {}
                   /\ flush[f].counts < buffer'[m] \/ m = p => Now
        OBVIOUS
      <4>1. /\ flush[f].days # {}
            /\ flush[f].counts < buffer[m] \/ m = p => Spoilt(m)
        BY DEF Flushing, ReadsHold
      <4>2. Spoilt(m) => Now
        BY <2>1, <3>4 DEF Spoilt, Day
      <4>3. flush[f].counts \in Nat /\ buffer[m] \in Nat /\ m \in Periods
        BY <4>1, <1>1, <1>2
      <4>4. CASE e = m /\ e < p
        <5>1. <<m, "late">> \in spoiled'
          BY <3>1, <4>4
        <5>2. Now
          BY <5>1, <2>1 DEF Spoilt, Day
        <5> QED BY <4>1, <5>2
      <4>5. CASE e = m /\ e = p
        BY <4>1, <4>2, <4>5
      <4>6. CASE e # m
        <5>1. buffer'[m] = buffer[m]
          BY <3>1, <4>6, <4>3, <1>1
        <5> HIDE DEF Now, m, p
        <5> QED BY <4>1, <4>2, <5>1
      <4> HIDE DEF Now, m, e, p
      <4> QED BY <3>2, <4>4, <4>5, <4>6
    <3>6. \A d \in Periods, f \in Flushers, g \in Flushers :
             f # g /\ Reading(f, d)' /\ Reading(g, d)' => Overlapped(d)'
      BY <2>1, <3>4 DEF Flushing, Reading, Day, Overlapped
    <3>7. \A f \in Flushers : \A d \in flush[f].days : d <= p
      BY DEF Flushing
    <3> QED BY <2>1, <3>3, <3>5, <3>6, <3>7 DEF Flushing, PeriodOf
  <2> QED BY <1>3, <2>2, <2>3, WritesDays
<1>4. CASE QuotaTick
  <2>1. /\ now' = now + 1 /\ now < MaxNow /\ flush' = flush /\ spoiled \subseteq spoiled'
        /\ buffer' = [d \in Periods |-> IF d \in Expired THEN 0 ELSE buffer[d]]
    BY <1>4 DEF QuotaTick
  <2> DEFINE n == PeriodOf(now)'
  <2>2. p <= n /\ n \in Int
    <3>1. now + 1 \in 0..MaxNow /\ now <= now + 1
      BY <1>1, <2>1
    <3>2. p <= PeriodOf(now + 1) /\ PeriodOf(now + 1) \in Int
      BY <1>1, <3>1, PeriodsGrow DEF Periods
    <3> QED BY <2>1, <3>2 DEF PeriodOf
  <2>3. \A d \in Periods : buffer'[d] \in Nat /\ buffer'[d] <= buffer[d] /\ buffer[d] \in Nat
    BY <2>1, <1>1
  <2>4. \A d \in Periods : d \in Int /\ p \in Int
    BY <1>1
  <2>5. \A d \in Periods : buffer'[d] > 0 => d <= n
    <3>1. \A d \in Periods : buffer[d] > 0 => d <= p
      BY DEF Flushing
    <3> HIDE DEF n, p
    <3> QED BY <3>1, <2>2, <2>3, <2>4
  <2>6. \A f \in Flushers : \A d \in flush[f].days : d <= n
    <3>1. \A f \in Flushers : \A d \in flush[f].days : d <= p /\ d \in Periods
      BY <1>2 DEF Flushing
    <3> HIDE DEF n, p
    <3> QED BY <3>1, <2>2, <2>4
  <2>7. ASSUME NEW f \in Flushers
        PROVE  ReadsHold(f)'
    <3> DEFINE m == Day(f)
    <3> SUFFICES ASSUME flush[f].pc = "delete"
                 PROVE  /\ flush[f].days # {}
                        /\ flush[f].counts < buffer'[m] \/ m = n => Spoilt(m)'
      BY <2>1 DEF ReadsHold, Day, Spoilt
    <3>1. /\ flush[f].days # {}
          /\ flush[f].counts < buffer[m] \/ m = p => Spoilt(m)
      BY DEF Flushing, ReadsHold
    <3>2. m \in Periods /\ m <= p /\ flush[f].counts \in Nat
      BY <3>1, <1>2 DEF Flushing
    <3>3. Spoilt(m) => Spoilt(m)'
      BY <2>1 DEF Spoilt, Day
    <3>4. flush[f].counts < buffer'[m] => flush[f].counts < buffer[m]
      <4>1. buffer'[m] \in Nat /\ buffer'[m] <= buffer[m] /\ buffer[m] \in Nat
        BY <2>3, <3>2
      <4> HIDE DEF m
      <4> QED BY <3>2, <4>1
    <3>5. m = n => m = p
      <4>1. m \in Int /\ p \in Int
        BY <3>2, <2>4
      <4> HIDE DEF m, n, p
      <4> QED BY <3>2, <4>1, <2>2
    <3> HIDE DEF n, p, m
    <3> QED BY <3>1, <3>3, <3>4, <3>5
  <2>8. \A d \in Periods, f \in Flushers, g \in Flushers :
           f # g /\ Reading(f, d)' /\ Reading(g, d)' => Overlapped(d)'
    BY <2>1 DEF Flushing, Reading, Day, Overlapped
  <2> QED BY <2>1, <2>5, <2>6, <2>7, <2>8 DEF Flushing
<1>5. ASSUME NEW f \in Flushers,
             \/ \E today \in BOOLEAN : FlushBegin(f, today)
             \/ FlushRead(f) \/ FlushDelete(f) \/ FlushCommit(f) \/ FlushFails(f)
      PROVE  Flushing'
  <2>1. \A g \in Flushers : g # f => flush'[g] = flush[g]
    BY <1>5, FlushShape
  <2>2. now' = now /\ spoiled \subseteq spoiled' /\ p' = p
    BY <1>5, WritesFlush DEF FlushStep, PeriodOf
  <2>3. \A d \in Periods : buffer'[d] > 0 => buffer[d] > 0
    <3>1. CASE FlushDelete(f)
      BY <3>1, <1>1 DEF FlushDelete, Deleted
    <3>2. CASE ~FlushDelete(f)
      BY <3>2, <1>5 DEF FlushBegin, FlushRead, FlushCommit, FlushFails
    <3> QED BY <3>1, <3>2
  <2>4. \A d \in Periods : buffer'[d] <= buffer[d] /\ buffer'[d] \in Nat /\ buffer[d] \in Nat
    <3>1. CASE FlushDelete(f)
      BY <3>1, <1>1 DEF FlushDelete, Deleted
    <3>2. CASE ~FlushDelete(f)
      BY <3>2, <1>1, <1>5 DEF FlushBegin, FlushRead, FlushCommit, FlushFails
    <3> QED BY <3>1, <3>2
  \* Another flusher is where it was.
  <2>5. ASSUME NEW g \in Flushers, g # f
        PROVE  /\ ReadsHold(g)'
               /\ \A d \in flush'[g].days : d <= p
               /\ \A d : Reading(g, d)' <=> Reading(g, d)
    <3>1. flush'[g] = flush[g]
      BY <2>1, <2>5
    <3>2. Day(g)' = Day(g)
      BY <3>1 DEF Day
    <3>3. ReadsHold(g)
      BY DEF Flushing
    <3>4. ASSUME flush[g].pc = "delete"
          PROVE  /\ flush[g].days # {}
                 /\ flush[g].counts < buffer'[Day(g)] \/ Day(g) = p => Spoilt(Day(g))'
      <4> DEFINE m == Day(g)
      <4>1. flush[g].days # {} /\ m \in Periods /\ flush[g].counts \in Nat
        BY <3>3, <3>4, <1>2 DEF ReadsHold
      <4>2. buffer'[m] <= buffer[m] /\ buffer'[m] \in Nat /\ buffer[m] \in Nat
        BY <4>1, <2>4
      <4>3. flush[g].counts < buffer[m] \/ m = p => Spoilt(m)
        BY <3>3, <3>4 DEF ReadsHold
      <4>4. Spoilt(m) => Spoilt(m)'
        BY <2>2, <3>2 DEF Spoilt
      <4> HIDE DEF m, p
      <4>5. flush[g].counts < buffer'[m] => flush[g].counts < buffer[m]
        BY <4>1, <4>2
      <4> QED BY <4>1, <4>3, <4>4, <4>5 DEF m
    <3>5. ReadsHold(g)'
      BY <3>1, <3>2, <3>4, <2>2 DEF ReadsHold, Spoilt
    <3> QED BY <3>1, <3>2, <3>5 DEF Flushing, Reading
  \* The flusher itself reads a day, has read one, or is at rest.
  <2>6. /\ ReadsHold(f)'
        /\ \A d \in flush'[f].days : d <= p
        /\ \A d \in Periods, g \in Flushers : g # f /\ Reading(f, d)' /\ Reading(g, d) => Overlapped(d)'
    <3>1. CASE \E today \in BOOLEAN : FlushBegin(f, today)
      <4>1. PICK today \in BOOLEAN : FlushBegin(f, today)
        BY <3>1
      <4> DEFINE S == {d \in Periods : buffer[d] > 0 /\ (today \/ d # PeriodOf(now))}
      <4>2. flush' = [flush EXCEPT ![f].pc = "read", ![f].days = S]
        BY <4>1 DEF FlushBegin
      <4>3. flush'[f].pc = "read" /\ flush'[f].days = S
        BY <4>2, <1>1 DEF Flush
      <4> QED BY <4>3 DEF Flushing, ReadsHold, Reading
    <3>2. CASE FlushRead(f)
      <4> DEFINE m == Day(f)
      <4>1. /\ flush[f].days # {} /\ m \in Periods
            /\ flush' = [flush EXCEPT ![f].pc = "delete", ![f].counts = buffer[m]]
            /\ buffer' = buffer
        BY <3>2, <1>2 DEF FlushRead
      <4>2. /\ flush'[f].pc = "delete" /\ flush'[f].days = flush[f].days
            /\ flush'[f].counts = buffer[m]
        BY <4>1, <1>1 DEF Flush
      <4>3. Day(f)' = m
        BY <4>2 DEF Day
      <4>4. m = p => <<m, "today">> \in spoiled'
        BY <3>2 DEF FlushRead
      <4>5. \A g \in Flushers : g # f /\ Reading(g, m) => <<m, "overlap">> \in spoiled'
        BY <3>2 DEF FlushRead
      <4>6. buffer[m] \in Nat
        BY <4>1, <1>1
      <4>7. ReadsHold(f)'
        <5>1. ~(buffer[m] < buffer[m])
          BY <4>6
        <5>2. m = p => \E why \in {"failed", "today", "late", "expired"} : <<m, why>> \in spoiled'
          BY <4>4
        <5> HIDE DEF m, p
        <5> QED BY <4>1, <4>2, <4>3, <5>1, <5>2, <2>2 DEF ReadsHold, Spoilt, p
      <4>8. \A d : Reading(f, d)' => d = m
        BY <4>3 DEF Reading
      <4>9. \A d \in flush'[f].days : d <= p
        BY <4>2 DEF Flushing
      <4> QED BY <4>5, <4>7, <4>8, <4>9 DEF Overlapped
    <3>3. CASE FlushDelete(f)
      <4>1. flush' = [flush EXCEPT ![f].pc = "read", ![f].days = @ \ {Day(f)}]
        BY <3>3 DEF FlushDelete
      <4>2. flush'[f].pc = "read" /\ flush'[f].days \subseteq flush[f].days
        BY <4>1, <1>1 DEF Flush
      <4> QED BY <4>2 DEF Flushing, ReadsHold, Reading
    <3>4. CASE FlushCommit(f) \/ FlushFails(f)
      <4>1. flush'[f] = Resting
        BY <3>4, <1>1 DEF FlushCommit, FlushFails
      <4> QED BY <4>1 DEF ReadsHold, Reading, Resting
    <3> QED BY <1>5, <3>1, <3>2, <3>3, <3>4
  <2>7. \A d \in Periods : buffer'[d] > 0 => d <= p
    BY <2>3 DEF Flushing
  <2>8. \A d \in Periods, g \in Flushers, h \in Flushers :
           g # h /\ Reading(g, d)' /\ Reading(h, d)' => Overlapped(d)'
    <3> SUFFICES ASSUME NEW d \in Periods, NEW g \in Flushers, NEW h \in Flushers,
                        g # h, Reading(g, d)', Reading(h, d)'
                 PROVE  Overlapped(d)'
      OBVIOUS
    <3>1. CASE g # f /\ h # f
      <4>1. Reading(g, d) /\ Reading(h, d)
        BY <3>1, <2>5
      <4>2. Overlapped(d)
        BY <4>1 DEF Flushing
      <4> QED BY <4>2, <2>2 DEF Overlapped
    <3>2. CASE g = f \/ h = f
      BY <3>2, <2>5, <2>6
    <3> QED BY <3>1, <3>2
  <2>9. \A g \in Flushers : ReadsHold(g)' /\ \A d \in flush'[g].days : d <= p
    BY <2>5, <2>6
  <2> HIDE DEF p
  <2> QED BY <2>2, <2>7, <2>8, <2>9 DEF Flushing, p
<1>6. CASE UNCHANGED <<now, metering>>
  BY <1>6 DEF metering, Flushing, ReadsHold, Reading, Day, PeriodOf, Spoilt, Overlapped
<1> QED BY <1>3, <1>4, <1>5, <1>6 DEF MeterNext, FlushStep

\* A day whose counts are where they were holds as it did.
LEMMA DayStays ==
    ASSUME MeterTyped, NEW d \in Periods, DayHolds(d), spoiled \subseteq spoiled',
           Recorded(d)' = Recorded(d), InRows(d)' = InRows(d),
           buffer'[d] \in Nat, buffer'[d] <= buffer[d], buffer'[d] < buffer[d] => Spoilt(d)',
           \A f \in Flushers : Reading(f, d)' => Reading(f, d) /\ flush'[f].counts = flush[f].counts
    PROVE  DayHolds(d)'
<1>1. /\ Cardinality(Recorded(d)) \in Nat /\ InRows(d) \in Nat /\ buffer[d] \in Nat
      /\ \A f \in Flushers : flush[f].counts \in Nat
  BY NoMore DEF Recorded, InRows, MeterTyped, Written, Flush
<1>2. (Spoilt(d) => Spoilt(d)') /\ (Overlapped(d) => Overlapped(d)')
  BY SaidStays
<1>3. InRows(d) + buffer[d] < Cardinality(Recorded(d)) => Spoilt(d)
  BY DEF DayHolds
<1>4. InRows(d) + buffer'[d] < Cardinality(Recorded(d)) => Spoilt(d)'
  BY <1>1, <1>2, <1>3
<1>5. ~Overlapped(d)' => InRows(d) + buffer'[d] <= Cardinality(Recorded(d))
  BY <1>1, <1>2 DEF DayHolds
<1>6. ~Overlapped(d)' => \A f \in Flushers :
         Reading(f, d)' => InRows(d) + flush'[f].counts <= Cardinality(Recorded(d))
  BY <1>2 DEF DayHolds
<1> QED BY <1>4, <1>5, <1>6 DEF DayHolds

\* What was recorded stays in the buffer, in a flush or in the table.
LEMMA DayCountKept ==
    MeterTyped /\ Courses /\ Flushing /\ DayCount /\ MeterNext => DayCount'
<1> SUFFICES ASSUME MeterTyped, Courses, Flushing, DayCount, MeterNext, NEW d \in Periods
             PROVE  DayHolds(d)'
  BY DEF DayCount
<1>1. /\ table[d] \in Nat /\ written[d] \in Written /\ written[d].n \in Nat /\ buffer[d] \in Nat /\ InRows(d) \in Nat
      /\ flush \in [Flushers -> Flush] /\ buffer \in [Periods -> Nat] /\ table \in [Periods -> Nat]
      /\ written \in [Periods -> Written]
  BY DEF MeterTyped, Flush, Written, InRows
<1>2. /\ Recorded(d) \subseteq Requests /\ Cardinality(Recorded(d)) \in Nat /\ DayHolds(d)
  BY NoMore DEF Recorded, DayCount
<1>3. d # None
  BY DEF Periods, None
<1>4. ASSUME NEW r \in Requests, Arrive(r) \/ RequestStep(r)
      PROVE  DayHolds(d)'
  <2>1. UNCHANGED <<table, written, flush>>
    BY <1>4, WritesCounters
  <2>2. \A x \in Requests : x # r => req'[x] = req[x]
    BY <1>4, OthersStay
  <2>3. InRows(d)' = InRows(d) /\ \A f \in Flushers : Reading(f, d)' <=> Reading(f, d)
    BY <2>1 DEF InRows, Reading, Day
  <2>4. ASSUME UNCHANGED <<Recorded(d), buffer[d]>>, spoiled \subseteq spoiled' PROVE DayHolds(d)'
    BY <2>1, <2>3, <2>4, <1>1, <1>2, DayStays
  <2>5. CASE /\ Record(r) /\ req[r].pc = "record" /\ req'[r].pc # "record"
             /\ req'[r].day = req[r].day /\ req[r].day \in Periods
    <3>1. /\ buffer' = [buffer EXCEPT ![req[r].day] = @ + 1]
          /\ spoiled \subseteq spoiled'
      BY <2>5 DEF Record
    <3>2. CASE req[r].day = d
      <4>1. r \notin Recorded(d) /\ Recorded(d)' = Recorded(d) \cup {r}
        BY <2>2, <2>5, <3>2 DEF Recorded
      <4>2. Cardinality(Recorded(d)') = Cardinality(Recorded(d)) + 1
        BY <4>1, <1>2, OneMore
      <4>3. buffer'[d] = buffer[d] + 1
        BY <3>1, <3>2, <1>1
      <4>4. (Spoilt(d) => Spoilt(d)') /\ (Overlapped(d) => Overlapped(d)')
        BY <3>1, SaidStays
      <4>5. InRows(d) + buffer'[d] < Cardinality(Recorded(d)') => Spoilt(d)'
        BY <4>2, <4>3, <4>4, <1>1, <1>2 DEF DayHolds
      <4>6. ~Overlapped(d)' => InRows(d) + buffer'[d] <= Cardinality(Recorded(d)')
        BY <4>2, <4>3, <4>4, <1>1, <1>2 DEF DayHolds
      <4>7. ~Overlapped(d)' => \A f \in Flushers :
               Reading(f, d) => InRows(d) + flush[f].counts <= Cardinality(Recorded(d)')
        <5> SUFFICES ASSUME ~Overlapped(d)', NEW f \in Flushers, Reading(f, d)
                     PROVE  InRows(d) + flush[f].counts <= Cardinality(Recorded(d)')
          OBVIOUS
        <5>1. InRows(d) + flush[f].counts <= Cardinality(Recorded(d)) /\ flush[f].counts \in Nat
          BY <4>4, <1>1, <1>2 DEF DayHolds, Flush
        <5> QED BY <5>1, <4>2, <1>1, <1>2
      <4> QED BY <2>1, <2>3, <4>5, <4>6, <4>7 DEF DayHolds
    <3>3. CASE req[r].day # d
      <4>1. Recorded(d)' = Recorded(d)
        BY <2>2, <2>5, <3>3 DEF Recorded
      <4>2. buffer'[d] = buffer[d]
        BY <3>1, <3>3, <1>1
      <4> QED BY <2>4, <3>1, <4>1, <4>2
    <3> QED BY <3>2, <3>3
  <2>6. CASE /\ UNCHANGED <<buffer, spoiled>>
             /\ \/ req'[r].day = req[r].day /\ (req'[r].pc = "record" <=> req[r].pc = "record")
                \/ req[r].pc = "record" /\ req'[r].day = None
                \/ req'[r].pc = "record" /\ req[r].day = None
                \/ req[r].day = None /\ req'[r].day = None
    <3>1. r \in Recorded(d)' <=> r \in Recorded(d)
      BY <2>6, <1>3 DEF Recorded
    <3>2. Recorded(d)' = Recorded(d)
      BY <3>1, <2>2 DEF Recorded
    <3> QED BY <2>4, <2>6, <3>2
  <2> QED BY <1>4, <2>5, <2>6, WritesDays
<1>5. ASSUME UNCHANGED req PROVE Recorded(d)' = Recorded(d)
  BY <1>5 DEF Recorded
<1>6. ASSUME NEW f \in Flushers,
             \/ \E today \in BOOLEAN : FlushBegin(f, today)
             \/ FlushRead(f) \/ FlushDelete(f) \/ FlushCommit(f) \/ FlushFails(f)
      PROVE  DayHolds(d)'
  <2>1. Recorded(d)' = Recorded(d) /\ spoiled \subseteq spoiled'
    BY <1>5, <1>6, WritesFlush DEF FlushStep
  <2>2. (Spoilt(d) => Spoilt(d)') /\ (Overlapped(d) => Overlapped(d)')
    BY <2>1, SaidStays
  <2>3. \A g \in Flushers : g # f => flush'[g] = flush[g] /\ (Reading(g, d)' <=> Reading(g, d))
    BY <1>6, FlushShape DEF Reading, Day
  <2>4. flush[f] \in Flush /\ flush[f].counts \in Nat
    BY <1>1 DEF Flush
  <2>5. ASSUME ~Reading(f, d)', InRows(d)' = InRows(d), buffer'[d] = buffer[d]
        PROVE  DayHolds(d)'
    BY <2>1, <2>3, <2>5, <1>1, <1>2, DayStays
  <2>6. CASE \E today \in BOOLEAN : FlushBegin(f, today)
    <3>1. PICK days \in SUBSET Periods : flush' = [flush EXCEPT ![f].pc = "read", ![f].days = days]
      BY <2>6 DEF FlushBegin
    <3>2. flush'[f].pc = "read"
      BY <3>1, <1>1 DEF Flush
    <3>3. ~Reading(f, d)' /\ InRows(d)' = InRows(d) /\ buffer'[d] = buffer[d]
      BY <2>6, <3>2 DEF FlushBegin, InRows, Reading
    <3> QED BY <2>5, <3>3
  <2>7. CASE FlushRead(f)
    <3>1. /\ flush' = [flush EXCEPT ![f].pc = "delete", ![f].counts = buffer[Day(f)]]
          /\ UNCHANGED <<table, written, buffer>>
      BY <2>7 DEF FlushRead
    <3>2. /\ flush'[f].days = flush[f].days /\ flush'[f].counts = buffer[Day(f)]
          /\ Day(f)' = Day(f) /\ InRows(d)' = InRows(d)
      BY <3>1, <2>4, <1>1 DEF Flush, Day, InRows
    <3>3. CASE d = Day(f)
      <4>1. ~Overlapped(d)' => InRows(d) + flush'[f].counts <= Cardinality(Recorded(d))
        BY <2>2, <3>2, <3>3, <1>2 DEF DayHolds
      <4>2. ~Overlapped(d)' => \A g \in Flushers :
               Reading(g, d)' => InRows(d) + flush'[g].counts <= Cardinality(Recorded(d))
        BY <4>1, <2>2, <2>3, <1>2 DEF DayHolds
      <4> QED BY <2>1, <2>2, <3>1, <3>2, <4>2, <1>2 DEF DayHolds
    <3>4. CASE d # Day(f)
      <4>1. ~Reading(f, d)'
        BY <3>2, <3>4 DEF Reading
      <4> QED BY <2>5, <3>1, <3>2, <4>1
    <3> QED BY <3>3, <3>4
  <2>8. CASE FlushDelete(f)
    <3> DEFINE m == Day(f)
    <3>1. /\ flush[f].pc = "delete" /\ flush[f].days # {} /\ m \in Periods
          /\ flush[f].counts < buffer[m] => Spoilt(m)
      BY <2>8, FlushAt DEF FlushDelete, Flushing, ReadsHold
    <3>2. flush' = [flush EXCEPT ![f].pc = "read", ![f].days = @ \ {m}]
          /\ buffer' = [buffer EXCEPT ![m] = 0] /\ table' = table
      BY <2>8 DEF FlushDelete, Deleted
    <3>3. ~Reading(f, d)'
      BY <3>2, <1>1 DEF Reading, Flush
    <3>4. CASE d # m
      <4>1. buffer'[d] = buffer[d]
        BY <3>2, <3>4, <1>1
      <4>2. written'[d] = written[d]
        BY <2>8, <3>4, <1>1 DEF FlushDelete
      <4> QED BY <2>5, <3>2, <3>3, <4>1, <4>2 DEF InRows
    <3>5. CASE d = m
      <4>1. buffer'[d] = 0 /\ Reading(f, d)
        BY <3>1, <3>2, <3>5, <1>1 DEF Reading
      <4>2. ~Overlapped(d) => \A g \in Flushers : ~Reading(g, d)'
        BY <2>3, <3>3, <4>1 DEF Flushing
      <4>3. ~Overlapped(d) => InRows(d) + flush[f].counts <= Cardinality(Recorded(d))
        BY <4>1, <1>2 DEF DayHolds
      <4>4. InRows(d)' = InRows(d) + flush[f].counts
        <5>1. CASE flush[f].counts > 0
          <6>1. written[d] = Unlocked /\ written' = [written EXCEPT ![d] = [by |-> f, n |-> flush[f].counts]]
            BY <2>8, <3>5, <5>1 DEF FlushDelete
          <6>2. written'[d].n = flush[f].counts /\ written[d].n = 0
            BY <6>1, <1>1 DEF Unlocked
          <6> QED BY <6>2, <3>2, <1>1, <2>4 DEF InRows
        <5>2. CASE ~(flush[f].counts > 0)
          <6>1. written' = written /\ flush[f].counts = 0
            BY <2>8, <5>2, <2>4 DEF FlushDelete
          <6> QED BY <6>1, <3>2, <1>1 DEF InRows
        <5> QED BY <5>1, <5>2
      <4>5. InRows(d)' + buffer'[d] < Cardinality(Recorded(d)) => Spoilt(d)'
        <5>1. InRows(d) + buffer[d] < Cardinality(Recorded(d)) => Spoilt(d)
          BY <1>2 DEF DayHolds
        <5>2. flush[f].counts < buffer[d] => Spoilt(d)
          BY <3>1, <3>5
        <5>3. InRows(d)' + buffer'[d] = InRows(d) + flush[f].counts
          BY <4>1, <4>4, <1>1, <2>4
        <5> HIDE DEF m
        <5> QED BY <5>1, <5>2, <5>3, <2>2, <1>1, <1>2, <2>4
      <4>6. ~Overlapped(d)' => InRows(d)' + buffer'[d] <= Cardinality(Recorded(d))
        BY <4>1, <4>3, <4>4, <2>2, <1>1, <1>2, <2>4
      <4>7. ~Overlapped(d)' => \A g \in Flushers : ~Reading(g, d)'
        BY <4>2, <2>2
      <4> QED BY <2>1, <4>5, <4>6, <4>7 DEF DayHolds
    <3> QED BY <3>4, <3>5
  <2>9. CASE FlushCommit(f)
    <3>1. flush'[f] = Resting /\ buffer' = buffer
      BY <2>9, <1>1 DEF FlushCommit
    <3>2. table'[d] = Added(d, f) /\ written'[d] = IF written[d].by = f THEN Unlocked ELSE written[d]
      BY <2>9 DEF FlushCommit, Released
    <3>3. InRows(d)' = InRows(d)
      BY <3>2, <1>1 DEF InRows, Added, Unlocked
    <3>4. ~Reading(f, d)'
      BY <3>1 DEF Reading, Resting
    <3> QED BY <2>5, <3>1, <3>3, <3>4
  <2>10. CASE FlushFails(f)
    <3>1. flush'[f] = Resting /\ UNCHANGED <<buffer, table>>
      BY <2>10, <1>1 DEF FlushFails
    <3>2. ~Reading(f, d)'
      BY <3>1 DEF Reading, Resting
    <3>3. written'[d] = IF written[d].by = f THEN Unlocked ELSE written[d]
      BY <2>10 DEF FlushFails, Released
    <3>4. CASE written[d].by # f
      BY <3>1, <3>2, <3>3, <3>4, <2>5 DEF InRows
    <3>5. CASE written[d].by = f
      <4>1. <<d, "failed">> \in spoiled'
        BY <2>10, <3>5 DEF FlushFails
      <4>2. Spoilt(d)'
        BY <4>1 DEF Spoilt
      <4>3. InRows(d)' <= InRows(d) /\ InRows(d)' \in Nat
        BY <3>1, <3>3, <3>5, <1>1 DEF InRows, Unlocked
      <4>4. ~Overlapped(d)' => InRows(d)' + buffer[d] <= Cardinality(Recorded(d))
        BY <4>3, <2>2, <1>1, <1>2 DEF DayHolds
      <4>5. ~Overlapped(d)' => \A g \in Flushers :
               Reading(g, d)' => InRows(d)' + flush'[g].counts <= Cardinality(Recorded(d))
        <5> SUFFICES ASSUME ~Overlapped(d)', NEW g \in Flushers, Reading(g, d)'
                     PROVE  InRows(d)' + flush'[g].counts <= Cardinality(Recorded(d))
          OBVIOUS
        <5>1. flush'[g] = flush[g] /\ Reading(g, d) /\ flush[g].counts \in Nat
          BY <3>2, <2>3, <1>1 DEF Flush
        <5>2. InRows(d) + flush[g].counts <= Cardinality(Recorded(d))
          BY <5>1, <2>2, <1>2 DEF DayHolds
        <5> QED BY <5>1, <5>2, <4>3, <1>1, <1>2
      <4> QED BY <2>1, <3>1, <4>2, <4>4, <4>5 DEF DayHolds
    <3> QED BY <3>4, <3>5
  <2> QED BY <1>6, <2>6, <2>7, <2>8, <2>9, <2>10
<1>7. CASE QuotaTick
  <2>1. /\ UNCHANGED <<req, table, written, flush>> /\ spoiled \subseteq spoiled'
        /\ buffer' = [e \in Periods |-> IF e \in Expired THEN 0 ELSE buffer[e]]
        /\ d \in Expired => <<d, "expired">> \in spoiled'
    BY <1>7 DEF QuotaTick
  <2>2. Recorded(d)' = Recorded(d) /\ InRows(d)' = InRows(d)
    BY <2>1, <1>5 DEF InRows
  <2>3. buffer'[d] \in Nat /\ buffer'[d] <= buffer[d] /\ (buffer'[d] < buffer[d] => d \in Expired)
    BY <2>1, <1>1
  <2>4. d \in Expired => Spoilt(d)'
    BY <2>1 DEF Spoilt
  <2>5. \A f \in Flushers : Reading(f, d)' => Reading(f, d) /\ flush'[f].counts = flush[f].counts
    BY <2>1 DEF Reading, Day
  <2> QED BY <2>1, <2>2, <2>3, <2>4, <2>5, <1>2, DayStays
<1>8. CASE UNCHANGED <<now, metering>>
  <2>1. UNCHANGED <<req, table, written, flush, buffer, spoiled>>
    BY <1>8 DEF metering
  <2>2. Recorded(d)' = Recorded(d) /\ InRows(d)' = InRows(d)
    BY <2>1, <1>5 DEF InRows
  <2>3. \A f \in Flushers : Reading(f, d)' => Reading(f, d) /\ flush'[f].counts = flush[f].counts
    BY <2>1 DEF Reading, Day
  <2> QED BY <2>1, <2>2, <2>3, <1>1, <1>2, DayStays
<1> QED BY <1>4, <1>6, <1>7, <1>8 DEF MeterNext, FlushStep

--------------------------------------------------------------------------------
(* What the metering promises. *)

\* The metering starts from nothing counted.
LEMMA MeterStarts == Init => MeterInv
<1> SUFFICES ASSUME Init PROVE MeterInv
  OBVIOUS
<1>1. /\ now \in 0..MaxNow /\ MaxNow \in Nat /\ Burst \in Nat \ {0} /\ SlotTtl \in Nat
      /\ QuotaLimit \in Nat /\ MaxConcurrency \in Nat
  BY Sizes DEF Init
<1>2. /\ req = [r \in Requests |-> Fresh]
      /\ bucket = [tokens |-> Burst, ts |-> 0, until |-> 0]
      /\ quota = [p \in Periods |-> 0] /\ slots = [n |-> 0, until |-> 0]
      /\ buffer = [d \in Periods |-> 0] /\ table = [d \in Periods |-> 0]
      /\ expires = [d \in Periods |-> 0] /\ written = [d \in Periods |-> Unlocked]
      /\ flush = [f \in Flushers |-> Resting] /\ setback = 0 /\ spoiled = {}
      /\ late = {} /\ met = {}
  BY DEF Init, QuotaInit
<1>3. \A r \in Requests : req[r] = Fresh
  BY <1>2
<1>4. PeriodOf(now) \in Nat
  BY <1>1, PeriodsGrow DEF Periods
<1>5. MeterTyped
  <2>1. Fresh \in Request
    BY <1>1 DEF Fresh, Request
  <2>2. Resting \in Flush
    BY DEF Resting, Flush
  <2>3. Unlocked \in Written
    BY DEF Unlocked, Written
  <2> QED BY <1>1, <1>2, <2>1, <2>2, <2>3 DEF MeterTyped
<1>6. Clocked
  BY <1>1, <1>2, <1>3, <1>4 DEF Clocked, Fresh, None
<1>7. Courses
  BY <1>3 DEF Courses, Told, Settled, Slotted, Due, Fresh
<1>8. Cardinality({}) = 0
  BY FS_EmptySet
<1>9. SlotsCount
  <2>1. Counted = {} /\ Running = {}
    BY <1>3 DEF Counted, Running, Gives, Fresh
  <2>2. Held = 0
    BY <1>1, <1>2 DEF Held
  <2> QED BY <2>1, <2>2, <1>2, <1>8, <1>1 DEF SlotsCount
<1>10. BucketCount
  <2>1. \A r \in Requests : req[r].unit = None
    BY <1>3 DEF Fresh
  <2>2. {r \in Requests : req[r].unit # None} = {}
    BY <2>1
  <2>3. bucket.tokens = Burst /\ bucket.ts = 0 /\ bucket.until = 0 /\ setback = 0
    BY <1>2
  <2>4. 0 + Burst <= Burst + 0 + 0
    BY <1>1
  <2> QED BY <2>1, <2>2, <2>3, <2>4, <1>8 DEF BucketCount
<1>11. QuotaCount
  <2>1. \A p \in Periods : Units(p) = {} /\ Backs(p) = {}
    BY <1>3 DEF Units, Backs, Fresh, None, Periods
  <2> QED BY <2>1, <1>1, <1>2, <1>8 DEF QuotaCount
<1>12. Flushing
  <2>1. \A f \in Flushers : flush[f] = Resting
    BY <1>2
  <2> QED BY <1>2, <2>1 DEF Flushing, ReadsHold, Reading, Resting
<1>13. DayCount
  <2> SUFFICES ASSUME NEW d \in Periods PROVE DayHolds(d)
    BY DEF DayCount
  <2>1. Cardinality(Recorded(d)) = 0
    <3>1. Recorded(d) = {}
      BY <1>3 DEF Recorded, Fresh, None, Periods
    <3> QED BY <3>1, <1>8
  <2>2. InRows(d) = 0 /\ buffer[d] = 0
    BY <1>2 DEF InRows, Unlocked
  <2>3. \A f \in Flushers : ~Reading(f, d)
    BY <1>2 DEF Reading, Resting
  <2> QED BY <2>1, <2>2, <2>3 DEF DayHolds
<1>14. RefundCount
  <2> SUFFICES ASSUME NEW p \in Periods PROVE quota[p] >= Cardinality(Refunding(p))
    BY DEF RefundCount
  <2>1. Refunding(p) = {}
    BY <1>3 DEF Refunding, Fresh
  <2> QED BY <2>1, <1>2, <1>8
<1> QED BY <1>5, <1>6, <1>7, <1>9, <1>10, <1>11, <1>12, <1>13, <1>14 DEF MeterInv

\* The invariant of the metering is kept.
LEMMA MeterKept == MeterInv /\ [Next]_vars => MeterInv'
BY MeterSteps, MeterTypedKept, ClockedKept, CoursesKept, SlotsCountKept, BucketCountKept, QuotaCountKept,
   RefundCountKept, FlushingKept, DayCountKept DEF MeterInv

\* The invariant of the metering: what each request took, gave back and recorded is
\* what the counters in Redis and the usage table hold of it.
THEOREM Metered == Spec => []MeterInv
BY MeterStarts, MeterKept, PTL DEF Spec

\* Whatever calls are lost, whenever processes die and whenever usage is flushed: a
\* period's counter is what was charged in it less what was given back, a request that
\* is over kept its charge if and only if it was counted as used (or was refused,
\* cancelled, or failed with nothing to give back), and its count reaches the usage
\* table once, but for a day that two flushes were reading at once (limiter.py,
\* dependencies.py, usage.py).
THEOREM UsageIsHonest == Spec => []UsageHonest
<1>1. MeterInv => UsageHonest
  <2> SUFFICES ASSUME MeterInv PROVE ChargedIsUsed /\ UsageCounted
    BY DEF UsageHonest
  <2>1. ChargedIsUsed
    <3>1. \A p \in Periods : quota[p] = Cardinality(Units(p)) - Cardinality(Backs(p))
      BY DEF MeterInv, QuotaCount
    <3>2. ASSUME NEW r \in Requests, req[r].clean, req[r].pc \in {"new", "done"}
          PROVE  req[r].unit # None /\ req[r].back = None
                 <=> req[r].day # None \/ r \in Unbilled \cup Kept
      <4>1. req[r] \in Request /\ Told(req[r]) /\ Settled(req[r])
        BY DEF MeterInv, MeterTyped, Courses
      <4>2. req[r].status \in {"none", "refused", "full", "billed", "error", "raised", "cancelled"}
        BY <3>2, <4>1 DEF Request, Settled
      <4>3. CASE req[r].status = "none"
        BY <3>2, <4>1, <4>3 DEF Told, Settled, Due, Unbilled, Kept
      <4>4. CASE req[r].status = "refused"
        BY <3>2, <4>1, <4>4 DEF Told, Settled, Due, Unbilled, Kept
      <4>5. CASE req[r].status = "billed"
        BY <3>2, <4>1, <4>5 DEF Told, Settled, Due, Unbilled, Kept
      <4>6. CASE req[r].status \in {"full", "cancelled"}
        BY <3>2, <4>1, <4>6 DEF Told, Settled, Due, Unbilled, Kept
      <4>7. CASE req[r].status \in {"error", "raised"}
        BY <3>2, <4>1, <4>7 DEF Told, Settled, Due, Unbilled, Kept
      <4> QED BY <4>2, <4>3, <4>4, <4>5, <4>6, <4>7
    <3> QED BY <3>1, <3>2 DEF ChargedIsUsed
  <2>2. UsageCounted
    <3> SUFFICES ASSUME NEW d \in Periods
                 PROVE  /\ table[d] + written[d].n + buffer[d] > Cardinality(Recorded(d))
                           => <<d, "overlap">> \in spoiled
                        /\ table[d] + written[d].n + buffer[d] < Cardinality(Recorded(d)) => Spoilt(d)
      BY DEF UsageCounted, Recorded, Spoilt
    <3>1. table[d] \in Nat /\ written[d].n \in Nat /\ buffer[d] \in Nat /\ Cardinality(Recorded(d)) \in Nat
      BY NoMore DEF MeterInv, MeterTyped, Written, Recorded
    <3>2. DayHolds(d)
      BY DEF MeterInv, DayCount
    <3>3. ~Overlapped(d) => InRows(d) + buffer[d] <= Cardinality(Recorded(d))
      BY <3>2 DEF DayHolds
    <3>4. InRows(d) + buffer[d] < Cardinality(Recorded(d)) => Spoilt(d)
      BY <3>2 DEF DayHolds
    <3> QED BY <3>1, <3>3, <3>4 DEF InRows, Overlapped
  <2> QED BY <2>1, <2>2
<1> QED BY <1>1, Metered, PTL

\* What it says of the limits.
LEMMA MeterLimits == MeterInv => QuotaTypeOK /\ RateHeld /\ QuotaHeld /\ QuotaFloor /\ SlotsHeld
<1> SUFFICES ASSUME MeterInv PROVE QuotaTypeOK /\ RateHeld /\ QuotaHeld /\ QuotaFloor /\ SlotsHeld
  OBVIOUS
<1>1. MeterTyped /\ Clocked /\ Courses /\ SlotsCount /\ BucketCount /\ QuotaCount /\ RefundCount
  BY DEF MeterInv
<1>2. now \in Nat /\ Burst \in Nat /\ QuotaLimit \in Nat /\ setback \in Nat /\ MaxNow \in Nat
  BY <1>1, Sizes DEF MeterTyped
<1>3. QuotaTypeOK
  <2>1. \A r \in Requests : req[r].since \in {None} \cup 0..now
    BY <1>1, <1>2 DEF MeterTyped, Request, Clocked
  <2>2. bucket.tokens \in 0..Burst /\ bucket.ts \in 0..now
    BY <1>1, <1>2 DEF MeterTyped, Clocked
  <2>3. \A d \in Periods : written[d].n \in Nat
    BY <1>1 DEF MeterTyped, Written
  <2>4. \A f \in Flushers : flush[f].pc \in {"idle", "read", "delete"} /\ flush[f].days \subseteq Periods
    BY <1>1 DEF MeterTyped, Flush
  <2> QED BY <1>1, <2>1, <2>2, <2>3, <2>4 DEF QuotaTypeOK, MeterTyped
<1>4. RateHeld
  <2> DEFINE G == {r \in Requests : req[r].unit # None}
  <2>1. Cardinality(G) \in Nat
    BY NoMore
  <2>2. /\ Cardinality(G) + bucket.tokens <= Burst + bucket.ts + setback
        /\ bucket.tokens \in Nat /\ bucket.ts \in Nat /\ bucket.ts <= now
    BY <1>1 DEF BucketCount, MeterTyped, Clocked
  <2>3. Cardinality(G) <= Burst + now + setback
    <3> HIDE DEF G
    <3> QED BY <1>2, <2>1, <2>2
  <2> QED BY <2>3 DEF RateHeld
<1>5. QuotaHeld
  <2> SUFFICES ASSUME NEW p \in Periods
               PROVE  Cardinality(Units(p)) <= QuotaLimit + Cardinality(Backs(p))
    BY DEF QuotaHeld
  <2>1. Cardinality(Units(p)) \in Nat /\ Cardinality(Backs(p)) \in Nat
    BY NoMore DEF Units, Backs
  <2> QED BY <1>1, <1>2, <2>1 DEF QuotaCount
<1>6. SlotsHeld
  <2>1. Held \in Int /\ Cardinality(Running) \in Nat /\ Cardinality(Counted) \in Nat
        /\ Cardinality(Running) <= Cardinality(Counted)
    BY <1>1, SlotsShape, CountedIsBounded
  <2>2. Cardinality(late) \in Nat
    BY <1>1, NoMore DEF MeterTyped
  <2>3. /\ Cardinality(Running) <= MaxConcurrency + Cardinality(late)
        /\ Held >= Cardinality(Running) - Cardinality(late)
    BY <1>1, <2>1, <2>2 DEF SlotsCount
  <2> QED BY <2>3 DEF SlotsHeld, Running
<1>7. QuotaFloor
  <2> SUFFICES ASSUME NEW p \in Periods
               PROVE  quota[p] >= 0 \/ 0 - quota[p] < Cardinality(Met(p))
    BY DEF QuotaFloor
  <2>1. Cardinality(Refunding(p)) \in Nat /\ Cardinality(Met(p)) \in Nat /\ quota[p] \in Int
    BY <1>1, NoMore DEF Refunding, Met, MeterTyped
  <2>2. quota[p] >= Cardinality(Refunding(p)) \/ Cardinality(Refunding(p)) - quota[p] < Cardinality(Met(p))
    BY <1>1 DEF RefundCount
  <2> QED BY <2>1, <2>2
<1> QED BY <1>3, <1>4, <1>5, <1>6, <1>7

--------------------------------------------------------------------------------
(* The invariant of the clients and their tokens. *)

Sids == 1..MaxSecrets
SecretRow == [revoked : BOOLEAN, expires : Nat]
KeySet == [epoch : [value : Nat, until : Nat], disabled : Nat, revoked : [Sids -> Nat],
           fail : [n : Nat, until : Nat]]
Deadlines == UNION {[some -> Nat] : some \in SUBSET Sids}
Command == [pc : {"read", "committed"}, kind : Kinds, sid : Sids, epoch : Nat \ {0}, active : BOOLEAN,
            live : SUBSET Sids, expires : Deadlines, done : BOOLEAN, after : Nat, alone : BOOLEAN]
Attempt == [pc : {"loaded"}, degraded : BOOLEAN, sid : {0} \cup Sids, ok : BOOLEAN,
            epoch : Nat \ {0}, seen : Nat]
Token == [sid : Sids, epoch : Nat \ {0}, seen : Nat, exp : Nat]
Change == [kind : Kinds, sid : Sids, epoch : Nat \ {0}, pub : {Never} \cup 0..MaxNow,
           alone : BOOLEAN, serial : BOOLEAN]

AuthTyped ==
    /\ now \in 0..MaxNow
    /\ client \in [active : BOOLEAN, epoch : Nat \ {0}]
    /\ secrets \in Seq(SecretRow)
    /\ keys \in KeySet
    /\ cmd \in [Operators -> {Idle} \cup Command]
    /\ try \in [Attempts -> {Idle} \cup Attempt]
    /\ tokens \subseteq Token
    /\ log \in Seq(Change)
    /\ tries \in Seq(0..MaxNow)

\* Every secret still to be made has its number.
Rotating == {o \in Operators : cmd[o] # Idle /\ cmd[o].pc = "read" /\ cmd[o].kind = "rotate"}
Numbered ==
    /\ "changes" \in DOMAIN left /\ left["changes"] \in Nat
    /\ Len(secrets) >= 1
    /\ Len(secrets) + Cardinality(Rotating) + left["changes"] <= MaxSecrets
    /\ \A o \in Operators : cmd[o] # Idle => cmd[o].sid <= Len(secrets)
    /\ \A a \in Attempts : try[a] # Idle => try[a].sid <= Len(secrets) /\ (try[a].ok => try[a].sid >= 1)

\* What a command read, if nothing was committed since; what it wrote, once it has.
Reads ==
    \A o \in Operators :
        /\ cmd[o] # Idle => /\ cmd[o].expires \in [cmd[o].live -> Nat]
                            /\ cmd[o].after <= Len(log)
                            /\ cmd[o].epoch <= cmd[o].after + 1
        /\ cmd[o].pc = "read" /\ cmd[o].kind = "rotate" => Cardinality(cmd[o].live) < MaxLive
        /\ cmd[o].pc = "read" /\ cmd[o].after = Len(log) =>
              /\ cmd[o].epoch = client.epoch
              /\ Live \subseteq cmd[o].live
              /\ \A j \in cmd[o].live : j \in DOMAIN secrets /\ cmd[o].expires[j] = secrets[j].expires
        /\ cmd[o].pc = "committed" =>
              /\ cmd[o].after \in DOMAIN log
              /\ log[cmd[o].after].kind = cmd[o].kind
              /\ log[cmd[o].after].sid = cmd[o].sid

\* Epochs are not above the number of commits; tokens are not made in the future.
Dated ==
    /\ client.epoch <= Len(log) + 1
    /\ \A a \in Attempts : try[a] # Idle => try[a].epoch <= Len(log) + 1 /\ try[a].seen <= Len(log)
    /\ \A t \in tokens : t.epoch <= Len(log) + 1 /\ t.seen <= Len(log) /\ t.exp <= now + TokenTtl
    /\ \A j \in DOMAIN log : log[j].pub <= now

\* Commands that did not cross only raise the epoch: whatever was minted from the
\* rows before a change has a lower one.
Raised ==
    /\ Serial => /\ \A a \in Attempts : try[a] # Idle => try[a].epoch <= client.epoch
                 /\ \A t \in tokens : t.epoch <= client.epoch
    /\ \A j \in DOMAIN log : (SerialTo(j) /\ log[j].kind # "revoke") =>
          /\ \A a \in Attempts : (try[a] # Idle /\ j > try[a].seen) => try[a].epoch < log[j].epoch
          /\ \A t \in tokens : j > t.seen => t.epoch < log[j].epoch

\* A token was minted before what it did not see was published.
MintedBefore ==
    /\ \A a \in Attempts, j \in DOMAIN log :
          (try[a] # Idle /\ j > try[a].seen /\ log[j].pub # Never) => log[j].pub = now
    /\ \A t \in tokens, j \in DOMAIN log :
          (j > t.seen /\ log[j].pub # Never) => t.exp <= log[j].pub + TokenTtl

\* A published key outlives the tokens made before it.
KeysLast ==
    \A j \in DOMAIN log :
        log[j].pub # Never =>
            /\ log[j].pub + TokenTtl <= keys.epoch.until
            /\ log[j].kind = "revoke" => log[j].pub + TokenTtl <= keys.revoked[log[j].sid]

\* So does the flag of a client that was switched off, unless it was switched on since.
FlagLasts ==
    \A j \in DOMAIN log :
        (log[j].kind = "disable" /\ log[j].pub # Never) =>
            \/ \E i \in DOMAIN log : log[i].kind = "enable" /\ log[i].pub >= log[j].pub
            \/ log[j].pub + TokenTtl <= keys.disabled

\* A secret that was revoked mints nothing more.
DeadSecrets ==
    /\ \A j \in DOMAIN log : log[j].kind = "revoke" =>
          /\ log[j].sid \in DOMAIN secrets /\ secrets[log[j].sid].revoked
          /\ \A a \in Attempts : (try[a] # Idle /\ try[a].ok /\ try[a].sid = log[j].sid) => try[a].seen < j
          /\ \A t \in tokens : t.sid = log[j].sid => t.seen < j
    /\ \A i \in Sids : keys.revoked[i] > 0 => i \in DOMAIN secrets /\ secrets[i].revoked

\* A commit is published once, by the command that made it.
Unpublished ==
    \A o \in Operators : cmd[o].pc = "committed" =>
        /\ log[cmd[o].after].pub = Never
        /\ \A x \in Operators : (x # o /\ cmd[x].pc = "committed") => cmd[x].after # cmd[o].after

\* Every change was published, or is about to be, by a command that ran alone.
OrderlySoFar ==
    \A j \in DOMAIN log :
        \/ log[j].pub # Never /\ log[j].alone
        \/ \E o \in Operators : cmd[o].pc = "committed" /\ cmd[o].after = j /\ cmd[o].alone

KeysFollow ==
    /\ \A o, x \in Operators : (cmd[o] # Idle /\ cmd[o].alone /\ x # o) => cmd[x] = Idle
    /\ \A o \in Operators : (cmd[o] # Idle /\ cmd[o].alone) =>
          IF cmd[o].pc = "read" THEN cmd[o].epoch = client.epoch /\ cmd[o].active = client.active
          ELSE /\ NewEpoch(cmd[o]) = client.epoch
               /\ cmd[o].kind = "disable" => ~client.active
    /\ OrderlySoFar =>
          /\ keys.epoch.value <= client.epoch
          /\ (client.active /\ keys.disabled > 0) =>
                \E o \in Operators : cmd[o].pc = "committed" /\ cmd[o].kind = "enable"

\* Attempts that may still verify a wrong secret, and count it.
Trying == {a \in Attempts : try[a] # Idle /\ ~try[a].degraded}

Windows ==
    /\ \A i, j \in DOMAIN tries : i <= j => tries[i] <= tries[j]
    /\ \A i \in DOMAIN tries : tries[i] <= now
    /\ \A i \in DOMAIN tries : now < tries[i] + FailureBlock =>
          /\ now < keys.fail.until
          /\ Len(tries) - i + 1 <= keys.fail.n
          /\ Len(tries) - i + 1 + Cardinality(Trying) <= FailureLimit - 1 + Cardinality(Attempts)
    /\ \A i \in DOMAIN tries : tries[i] + FailureBlock <= keys.fail.until

AuthInv ==
    /\ AuthTyped /\ Numbered /\ Reads /\ Dated
    /\ Raised /\ MintedBefore /\ KeysLast /\ FlagLasts /\ DeadSecrets /\ Unpublished /\ KeysFollow
    /\ LiveBounded /\ Windows /\ VerificationsBounded

--------------------------------------------------------------------------------
(* The steps of the clients. *)

\* What the rest of the API does leaves them alone, and starts no command.
Elsewhere ==
    /\ UNCHANGED <<now, client, secrets, keys, fallback, cmd, try, tokens, log, tries>>
    /\ \/ left' = left
       \/ \E what \in {"requests", "ends", "flushes", "faults", "kills", "edits", "pages"} :
             left' = [left EXCEPT ![what] = @ - 1]

\* A step of the API is one of the clients, the clock's, or elsewhere.
LEMMA AuthSteps == [Next]_vars => AuthStep \/ AuthTick \/ Elsewhere
<1>1. CASE AuthStep /\ UNCHANGED <<metering, reading>>
  BY <1>1
<1>2. CASE \E r \in Requests : (Serve(r) \/ (RequestStep(r) /\ UNCHANGED client_side)) /\ UNCHANGED reading
  <2>1. PICK r \in Requests : Serve(r) \/ (RequestStep(r) /\ UNCHANGED client_side)
    BY <1>2
  <2>2. UNCHANGED client_side /\ (Arrive(r) \/ RequestStep(r))
    BY <2>1, SMTT(30) DEF Serve
  <2>3. /\ UNCHANGED now
        /\ \/ left' = left
           \/ \E what \in {"requests", "ends", "flushes", "faults", "kills", "edits", "pages"} :
                 left' = [left EXCEPT ![what] = @ - 1]
    BY <2>2 DEF RequestStep, Arrive, Consume, ConsumeFails, Acquire, AcquireFails, End, Release, Withdraw,
       SlotDecr, Account, GiveBack, Record, CallLost, Die, Use
  <2> QED BY <2>2, <2>3 DEF Elsewhere, client_side
<1>3. CASE FlushStep /\ UNCHANGED <<client_side, reading>>
  <2>1. /\ UNCHANGED now
        /\ \/ left' = left
           \/ \E what \in {"requests", "ends", "flushes", "faults", "kills", "edits", "pages"} :
                 left' = [left EXCEPT ![what] = @ - 1]
    BY <1>3 DEF FlushStep, FlushBegin, FlushRead, FlushDelete, FlushCommit, FlushFails, Use
  <2> QED BY <1>3, <2>1 DEF Elsewhere, client_side
<1>4. CASE AuthTick /\ QuotaTick /\ UNCHANGED reading
  BY <1>4
<1>5. CASE ReadStep /\ UNCHANGED <<now, client_side, metering>>
  <2>1. \/ left' = left
        \/ \E what \in {"requests", "ends", "flushes", "faults", "kills", "edits", "pages"} :
              left' = [left EXCEPT ![what] = @ - 1]
    BY <1>5 DEF ReadStep, AskPage, ReadPage, Enters, Leaves, Purged, NewPlan, Spared
  <2> QED BY SMTT(30), <1>5, <2>1 DEF Elsewhere, client_side
<1>6. CASE UNCHANGED vars
  BY <1>6 DEF vars, client_side, Elsewhere
<1> QED BY <1>1, <1>2, <1>3, <1>4, <1>5, <1>6 DEF Next

\* What a command is, where it is not idle.
LEMMA Commands ==
    ASSUME AuthTyped, NEW o \in Operators
    PROVE  /\ cmd[o] = Idle \/ cmd[o] \in Command
           /\ cmd[o] # Idle <=> cmd[o].pc \in {"read", "committed"}
           /\ cmd[o] = Idle <=> cmd[o].pc = "idle"
<1>1. cmd[o] = Idle \/ cmd[o] \in Command
  BY DEF AuthTyped
<1>2. Idle.pc = "idle"
  BY DEF Idle
<1>3. cmd[o] \in Command => cmd[o].pc \in {"read", "committed"}
  BY DEF Command
<1> QED BY <1>1, <1>2, <1>3

\* What an attempt is, where it is not idle.
LEMMA Attempting ==
    ASSUME AuthTyped, NEW a \in Attempts
    PROVE  /\ try[a] = Idle \/ try[a] \in Attempt
           /\ try[a] # Idle <=> try[a].pc = "loaded"
<1>1. try[a] = Idle \/ try[a] \in Attempt
  BY DEF AuthTyped
<1>2. Idle.pc = "idle"
  BY DEF Idle
<1>3. try[a] \in Attempt => try[a].pc = "loaded"
  BY DEF Attempt
<1> QED BY <1>1, <1>2, <1>3

\* Operators are finitely many.
LEMMA Rotators ==
    ASSUME NEW A, A \subseteq Operators
    PROVE  IsFiniteSet(A) /\ Cardinality(A) \in Nat
BY Sizes, FS_Subset, FS_CardinalityType

\* A command another one joined: no longer alone, and the same otherwise.
SameButShared(c, d) ==
    /\ c \in Command /\ ~c.alone
    /\ c.pc = d.pc /\ c.kind = d.kind /\ c.sid = d.sid /\ c.epoch = d.epoch /\ c.active = d.active
    /\ c.live = d.live /\ c.expires = d.expires /\ c.done = d.done /\ c.after = d.after

\* A command begins with what it read.
LEMMA Began ==
    ASSUME AuthTyped, Numbered, NEW o \in Operators, NEW k \in Kinds, NEW i \in DOMAIN secrets, Begin(o, k, i)
    PROVE  /\ cmd[o] = Idle
           /\ cmd'[o] \in Command
           /\ cmd'[o].pc = "read" /\ cmd'[o].kind = k /\ cmd'[o].sid = i
           /\ cmd'[o].epoch = client.epoch /\ cmd'[o].active = client.active
           /\ cmd'[o].live = Live /\ cmd'[o].expires = [j \in Live |-> secrets[j].expires]
           /\ cmd'[o].done = secrets[i].revoked
           /\ cmd'[o].after = Len(log) /\ cmd'[o].alone = Quiet
           /\ \A x \in Operators : x # o =>
                 /\ cmd[x] = Idle => cmd'[x] = Idle
                 /\ cmd[x] # Idle => SameButShared(cmd'[x], cmd[x])
           /\ left' = [left EXCEPT !["changes"] = @ - 1] /\ left["changes"] > 0
<1>1. DOMAIN secrets = 1..Len(secrets) /\ Len(secrets) \in Nat
  BY DEF AuthTyped
<1>2. Len(secrets) <= MaxSecrets /\ MaxSecrets \in Nat
  <2> DEFINE n == Len(secrets)
             c == Cardinality(Rotating)
  <2>1. n + c + left["changes"] <= MaxSecrets /\ left["changes"] \in Nat /\ n \in Nat /\ MaxSecrets \in Nat
    BY <1>1, Sizes DEF Numbered
  <2>2. c \in Nat
    BY Rotators DEF Rotating
  <2> HIDE DEF n, c
  <2>3. n <= MaxSecrets
    BY <2>1, <2>2
  <2> QED BY <2>1, <2>3 DEF n
<1>3. DOMAIN secrets \subseteq Sids /\ i \in Sids /\ Live \subseteq Sids
  BY <1>1, <1>2 DEF Sids, Live
<1>4. \A j \in DOMAIN secrets : secrets[j] \in SecretRow
  BY DEF AuthTyped
<1>5. [j \in Live |-> secrets[j].expires] \in Deadlines
  <2>1. \A j \in Live : secrets[j].expires \in Nat
    BY <1>4 DEF Live, SecretRow
  <2>2. [j \in Live |-> secrets[j].expires] \in [Live -> Nat]
    BY <2>1
  <2> QED BY <2>2, <1>3 DEF Deadlines
<1>6. /\ client.epoch \in Nat \ {0} /\ client.active \in BOOLEAN /\ secrets[i].revoked \in BOOLEAN
      /\ Len(log) \in Nat /\ Quiet \in BOOLEAN
  BY <1>4 DEF AuthTyped, SecretRow, Quiet
<1> DEFINE new == [pc |-> "read", kind |-> k, sid |-> i, epoch |-> client.epoch, active |-> client.active,
               live |-> Live, expires |-> [j \in Live |-> secrets[j].expires],
               done |-> secrets[i].revoked, after |-> Len(log), alone |-> Quiet]
<1>7. new \in Command
  BY <1>3, <1>5, <1>6 DEF Command
<1>8. /\ cmd[o] = Idle /\ left' = [left EXCEPT !["changes"] = @ - 1] /\ left["changes"] > 0
      /\ cmd' = [x \in Operators |-> IF x = o THEN new ELSE IF cmd[x] = Idle THEN Idle ELSE [cmd[x] EXCEPT !.alone = FALSE]]
  BY DEF Begin, Spend
<1>9. cmd'[o] = new
  BY <1>8
<1>10. ASSUME NEW x \in Operators, x # o
       PROVE  /\ cmd[x] = Idle => cmd'[x] = Idle
              /\ cmd[x] # Idle => SameButShared(cmd'[x], cmd[x])
  <2>1. cmd[x] # Idle => cmd[x] \in Command
    BY Commands
  <2> HIDE DEF new
  <2>2. cmd'[x] = IF cmd[x] = Idle THEN Idle ELSE [cmd[x] EXCEPT !.alone = FALSE]
    BY <1>8, <1>10
  <2>3. cmd[x] \in Command => SameButShared([cmd[x] EXCEPT !.alone = FALSE], cmd[x])
    BY DEF Command, SameButShared
  <2> QED BY <2>1, <2>2, <2>3
<1> QED BY <1>7, <1>8, <1>9, <1>10

\* What a commit makes of the rows.
LEMMA Committed ==
    ASSUME AuthTyped, Numbered, Reads, NEW o \in Operators, Commit(o)
    PROVE  /\ cmd[o] \in Command /\ cmd[o].pc = "read"
           /\ NewEpoch(cmd[o]) \in {cmd[o].epoch, cmd[o].epoch + 1} /\ NewEpoch(cmd[o]) \in Nat \ {0}
           /\ NewEpoch(cmd[o]) = cmd[o].epoch + 1 <=> ~(cmd[o].kind = "revoke" /\ cmd[o].done)
           /\ client' \in [active : BOOLEAN, epoch : Nat \ {0}]
           /\ client'.epoch = IF NewEpoch(cmd[o]) # cmd[o].epoch THEN NewEpoch(cmd[o]) ELSE client.epoch
           /\ cmd' = [cmd EXCEPT ![o].pc = "committed", ![o].after = Len(log) + 1]
           /\ cmd'[o] = [cmd[o] EXCEPT !.pc = "committed", !.after = Len(log) + 1] /\ cmd'[o] \in Command
           /\ \A x \in Operators : x # o => cmd'[x] = cmd[x]
           /\ log' \in Seq(Change) /\ Len(log') = Len(log) + 1
           /\ \A j \in DOMAIN log : j \in DOMAIN log' /\ log'[j] = log[j]
           /\ log'[Len(log) + 1] =
                 [kind |-> cmd[o].kind, sid |-> cmd[o].sid, epoch |-> NewEpoch(cmd[o]), pub |-> Never, alone |-> FALSE,
                  serial |-> cmd[o].after = Len(log)]
           /\ \A j \in DOMAIN log' : j \in DOMAIN log \/ j = Len(log) + 1
<1> DEFINE c == cmd[o]
<1>1. c \in Command /\ c.pc = "read"
  BY Commands DEF Commit
<1>2. /\ c.epoch \in Nat \ {0} /\ c.kind \in Kinds /\ c.sid \in Sids /\ c.done \in BOOLEAN /\ c.active \in BOOLEAN
      /\ c.after \in Nat /\ Len(log) \in Nat /\ client \in [active : BOOLEAN, epoch : Nat \ {0}]
      /\ log \in Seq(Change)
  BY <1>1 DEF Command, AuthTyped
<1>3. /\ NewEpoch(c) \in {c.epoch, c.epoch + 1} /\ NewEpoch(c) \in Nat \ {0}
      /\ NewEpoch(c) = c.epoch + 1 <=> ~(c.kind = "revoke" /\ c.done)
  BY <1>2 DEF NewEpoch
<1>4. /\ client' \in [active : BOOLEAN, epoch : Nat \ {0}]
      /\ client'.epoch = IF NewEpoch(c) # c.epoch THEN NewEpoch(c) ELSE client.epoch
  BY <1>2, <1>3 DEF Commit
<1>5. cmd' = [cmd EXCEPT ![o].pc = "committed", ![o].after = Len(log) + 1]
  BY DEF Commit
<1>6. /\ cmd'[o] = [c EXCEPT !.pc = "committed", !.after = Len(log) + 1]
      /\ \A x \in Operators : x # o => cmd'[x] = cmd[x]
  BY <1>5 DEF AuthTyped
<1>7. cmd'[o] \in Command
  <2>1. Len(log) + 1 \in Nat
    BY <1>2
  <2> HIDE DEF c
  <2> QED BY <1>1, <1>6, <2>1 DEF Command
<1> DEFINE new == [kind |-> c.kind, sid |-> c.sid, epoch |-> NewEpoch(c), pub |-> Never, alone |-> FALSE,
                   serial |-> c.after = Len(log)]
<1>8. log' = Append(log, new)
  BY DEF Commit
<1>9. new \in Change
  BY <1>2, <1>3 DEF Change
<1>10. /\ log' \in Seq(Change) /\ Len(log') = Len(log) + 1
       /\ \A j \in DOMAIN log : j \in DOMAIN log' /\ log'[j] = log[j]
       /\ log'[Len(log) + 1] = new
       /\ \A j \in DOMAIN log' : j \in DOMAIN log \/ j = Len(log) + 1
  <2> HIDE DEF new
  <2>1. /\ log' \in Seq(Change) /\ Len(log') = Len(log) + 1
        /\ log'[Len(log) + 1] = new
        /\ \A j \in 1..Len(log) : log'[j] = log[j]
    BY <1>2, <1>8, <1>9
  <2>2. DOMAIN log = 1..Len(log) /\ DOMAIN log' = 1..(Len(log) + 1)
    BY <1>2, <2>1
  <2> DEFINE n == Len(log)
  <2>3. n \in Nat
    BY <1>2
  <2>4. \A j \in 1..n : j \in 1..(n + 1)
    <3> HIDE DEF n
    <3> QED BY <2>3
  <2>5. \A j \in 1..(n + 1) : j \in 1..n \/ j = n + 1
    <3> HIDE DEF n
    <3> QED BY <2>3
  <2> QED BY <2>1, <2>2, <2>4, <2>5
<1> QED BY <1>1, <1>3, <1>4, <1>5, <1>6, <1>7, <1>10

\* A commit forgets no secret and revives none.
LEMMA SecretsKept ==
    ASSUME AuthTyped, Numbered, Reads, NEW o \in Operators, Commit(o)
    PROVE  /\ secrets' \in Seq(SecretRow)
           /\ Len(secrets') = IF cmd[o].kind = "rotate" THEN Len(secrets) + 1 ELSE Len(secrets)
           /\ \A j \in DOMAIN secrets : j \in DOMAIN secrets' /\ (secrets[j].revoked => secrets'[j].revoked)
           /\ cmd[o].kind = "revoke" => secrets' = [secrets EXCEPT ![cmd[o].sid].revoked = TRUE]
           /\ cmd[o].kind \notin {"rotate", "revoke"} => secrets' = secrets
           /\ cmd[o].kind = "rotate" =>
                 secrets' = Append([j \in DOMAIN secrets |->
                              IF j \in cmd[o].live /\ (cmd[o].expires[j] = 0 \/ cmd[o].expires[j] > now + Grace)
                              THEN [secrets[j] EXCEPT !.expires = now + Grace] ELSE secrets[j]], Secret)
<1> DEFINE c == cmd[o]
<1>1. /\ secrets \in Seq(SecretRow) /\ c \in Command /\ c.pc = "read"
      /\ now \in Nat /\ Grace \in Nat /\ MaxNow \in Nat
  <2>1. c \in Command /\ c.pc = "read"
    BY Committed
  <2> HIDE DEF c
  <2> QED BY <2>1, Sizes DEF AuthTyped
<1>2. secrets' = CASE c.kind = "rotate" -> Rotated(c)
                   [] c.kind = "revoke" -> [secrets EXCEPT ![c.sid].revoked = TRUE]
                   [] OTHER -> secrets
  BY DEF Commit
<1>3. CASE c.kind = "rotate"
  <2> DEFINE old == [j \in DOMAIN secrets |->
                       IF j \in c.live /\ (c.expires[j] = 0 \/ c.expires[j] > now + Grace)
                       THEN [secrets[j] EXCEPT !.expires = now + Grace] ELSE secrets[j]]
  <2>1. secrets' = Append(old, Secret)
    BY <1>2, <1>3 DEF Rotated
  <2>2. \A j \in DOMAIN secrets : old[j] \in SecretRow /\ (secrets[j].revoked => old[j].revoked)
    <3> TAKE j \in DOMAIN secrets
    <3>1. secrets[j] \in SecretRow
      BY <1>1
    <3>2. old[j] \in {secrets[j], [secrets[j] EXCEPT !.expires = now + Grace]}
      OBVIOUS
    <3>3. [secrets[j] EXCEPT !.expires = now + Grace] \in SecretRow
      BY <3>1, <1>1 DEF SecretRow
    <3>4. [secrets[j] EXCEPT !.expires = now + Grace].revoked = secrets[j].revoked
      BY <3>1 DEF SecretRow
    <3> HIDE DEF old
    <3> QED BY <3>1, <3>2, <3>3, <3>4
  <2>3. DOMAIN old = 1..Len(secrets) /\ Len(secrets) \in Nat
    BY <1>1
  <2>4. old \in Seq(SecretRow) /\ Len(old) = Len(secrets)
    <3> HIDE DEF old
    <3>1. old = [j \in 1..Len(secrets) |-> old[j]]
      BY <2>3 DEF old
    <3>2. \A j \in 1..Len(secrets) : old[j] \in SecretRow
      BY <2>2, <1>1
    <3>3. old \in [1..Len(secrets) -> SecretRow]
      BY <3>1, <3>2
    <3> QED BY <2>3, <3>3
  <2>5. Secret \in SecretRow
    BY DEF Secret, SecretRow
  <2> HIDE DEF old
  <2>6. /\ secrets' \in Seq(SecretRow) /\ Len(secrets') = Len(secrets) + 1
        /\ \A j \in 1..Len(secrets) : secrets'[j] = old[j]
    BY <2>1, <2>4, <2>5
  <2>7. \A j \in DOMAIN secrets : j \in DOMAIN secrets' /\ secrets'[j] = old[j]
    <3>1. DOMAIN secrets = 1..Len(secrets) /\ DOMAIN secrets' = 1..(Len(secrets) + 1)
      BY <1>1, <2>6
    <3> QED BY <3>1, <2>3, <2>6
  <2> QED BY SMTT(30), <1>3, <2>1, <2>2, <2>6, <2>7 DEF old
<1>4. CASE c.kind = "revoke"
  <2>1. secrets' = [secrets EXCEPT ![c.sid].revoked = TRUE]
    BY <1>2, <1>4
  <2>2. c.sid \in DOMAIN secrets
    <3>1. c.sid \in Nat /\ c.sid >= 1 /\ c.sid <= Len(secrets) /\ Len(secrets) \in Nat
      BY <1>1, Commands DEF Command, Sids, Numbered
    <3> QED BY <3>1, <1>1
  <2>3. [secrets[c.sid] EXCEPT !.revoked = TRUE] \in SecretRow
    <3>1. secrets[c.sid] \in SecretRow
      BY <1>1, <2>2
    <3> HIDE DEF c
    <3> QED BY <3>1 DEF SecretRow
  <2>4. secrets' \in Seq(SecretRow) /\ Len(secrets') = Len(secrets) /\ DOMAIN secrets' = DOMAIN secrets
    BY <1>1, <2>1, <2>2, <2>3
  <2>5. \A j \in DOMAIN secrets : secrets[j].revoked => secrets'[j].revoked
    <3> TAKE j \in DOMAIN secrets
    <3>1. secrets[c.sid] \in SecretRow
      BY <1>1, <2>2
    <3> QED BY <2>1, <2>2, <3>1 DEF SecretRow
  <2> QED BY <1>4, <2>1, <2>4, <2>5
<1>5. CASE c.kind \notin {"rotate", "revoke"}
  <2>1. secrets' = secrets
    BY <1>2, <1>5
  <2> QED BY <1>1, <1>5, <2>1
<1> QED BY <1>3, <1>4, <1>5

\* What a publication sets.
LEMMA PublishedShape ==
    ASSUME AuthTyped, Numbered, Reads, NEW o \in Operators, Publish(o)
    PROVE  /\ cmd[o] \in Command /\ cmd[o].pc = "committed" /\ cmd[o].after \in DOMAIN log
           /\ keys' \in KeySet
           /\ keys'.epoch = [value |-> NewEpoch(cmd[o]), until |-> now + TokenTtl]
           /\ keys'.disabled = CASE cmd[o].kind = "disable" -> now + TokenTtl
                                 [] cmd[o].kind = "enable" -> 0
                                 [] OTHER -> keys.disabled
           /\ keys'.revoked = IF cmd[o].kind = "revoke" THEN [keys.revoked EXCEPT ![cmd[o].sid] = now + TokenTtl]
                              ELSE keys.revoked
           /\ keys'.fail = keys.fail
           /\ log' \in Seq(Change) /\ DOMAIN log' = DOMAIN log /\ Len(log') = Len(log)
           /\ \A j \in DOMAIN log : j # cmd[o].after => log'[j] = log[j]
           /\ log'[cmd[o].after] = [log[cmd[o].after] EXCEPT !.pub = now, !.alone = cmd[o].alone]
           /\ cmd' = [cmd EXCEPT ![o] = Idle]
<1> DEFINE c == cmd[o]
           old == log[c.after]
<1>1. c \in Command /\ c.pc = "committed" /\ c.after \in DOMAIN log
  BY Commands DEF Publish, Reads
<1>2. /\ now \in 0..MaxNow /\ MaxNow \in Nat /\ TokenTtl \in Nat /\ keys \in KeySet /\ log \in Seq(Change)
      /\ c.sid \in Sids /\ c.alone \in BOOLEAN /\ c.epoch \in Nat /\ c.done \in BOOLEAN
  BY <1>1, Sizes DEF AuthTyped, Command
<1>3. NewEpoch(c) \in Nat
  BY <1>2 DEF NewEpoch
<1>4. /\ keys' \in KeySet
      /\ keys'.epoch = [value |-> NewEpoch(c), until |-> now + TokenTtl]
      /\ keys'.disabled = CASE c.kind = "disable" -> now + TokenTtl [] c.kind = "enable" -> 0 [] OTHER -> keys.disabled
      /\ keys'.revoked = IF c.kind = "revoke" THEN [keys.revoked EXCEPT ![c.sid] = now + TokenTtl] ELSE keys.revoked
      /\ keys'.fail = keys.fail
  <2> DEFINE e == [value |-> NewEpoch(c), until |-> now + TokenTtl]
             d == CASE c.kind = "disable" -> now + TokenTtl [] c.kind = "enable" -> 0 [] OTHER -> keys.disabled
             v == IF c.kind = "revoke" THEN [keys.revoked EXCEPT ![c.sid] = now + TokenTtl] ELSE keys.revoked
  <2>1. keys' = [keys EXCEPT !.epoch = e, !.disabled = d, !.revoked = v]
    BY DEF Publish, Published
  <2>2. e \in [value : Nat, until : Nat] /\ d \in Nat /\ v \in [Sids -> Nat]
    BY <1>2, <1>3 DEF KeySet
  <2> HIDE DEF e, d, v
  <2>3. keys' \in KeySet /\ keys'.epoch = e /\ keys'.disabled = d /\ keys'.revoked = v /\ keys'.fail = keys.fail
    BY <1>2, <2>1, <2>2 DEF KeySet
  <2> QED BY <2>3 DEF e, d, v
<1>5. log' = [log EXCEPT ![c.after] = [old EXCEPT !.pub = now, !.alone = c.alone]]
  BY DEF Publish
<1>6. [old EXCEPT !.pub = now, !.alone = c.alone] \in Change
  <2>1. old \in Change
    BY <1>1, <1>2
  <2> HIDE DEF old
  <2> QED BY <2>1, <1>2 DEF Change
<1>7. /\ log' \in Seq(Change) /\ DOMAIN log' = DOMAIN log /\ Len(log') = Len(log)
      /\ \A j \in DOMAIN log : j # c.after => log'[j] = log[j]
      /\ log'[c.after] = [old EXCEPT !.pub = now, !.alone = c.alone]
  BY <1>1, <1>2, <1>5, <1>6
<1>8. cmd' = [cmd EXCEPT ![o] = Idle]
  BY DEF Publish
<1> QED BY <1>1, <1>4, <1>7, <1>8

\* What an attempt loads.
LEMMA Loaded ==
    ASSUME AuthTyped, Numbered, NEW a \in Attempts, NEW i \in {0} \cup DOMAIN secrets, NEW degraded \in BOOLEAN,
           Load(a, i, degraded)
    PROVE  /\ try'[a] \in Attempt
           /\ try'[a].degraded = degraded /\ try'[a].sid = i /\ (try'[a].ok <=> client.active /\ Matches(i))
           /\ try'[a].epoch = client.epoch /\ try'[a].seen = Len(log)
           /\ \A x \in Attempts : x # a => try'[x] = try[x]
           /\ try' \in [Attempts -> {Idle} \cup Attempt]
<1>1. Len(secrets) \in Nat /\ DOMAIN secrets = 1..Len(secrets) /\ MaxSecrets \in Nat /\ Len(log) \in Nat
      /\ client.active \in BOOLEAN /\ client.epoch \in Nat \ {0}
  BY Sizes DEF AuthTyped
<1>2. Len(secrets) <= MaxSecrets
  <2> DEFINE n == Len(secrets)
             c == Cardinality(Rotating)
  <2>1. n + c + left["changes"] <= MaxSecrets /\ left["changes"] \in Nat /\ n \in Nat
    BY <1>1 DEF Numbered
  <2>2. c \in Nat
    BY Rotators DEF Rotating
  <2> HIDE DEF n, c
  <2>3. n <= MaxSecrets
    BY <2>1, <2>2, <1>1
  <2> QED BY <2>3 DEF n
<1>3. i \in {0} \cup Sids
  BY <1>1, <1>2 DEF Sids
<1> DEFINE new == [pc |-> "loaded", degraded |-> degraded, sid |-> i, ok |-> client.active /\ Matches(i),
                   epoch |-> client.epoch, seen |-> Len(log)]
<1>4. new \in Attempt
  BY <1>1, <1>3 DEF Attempt, Matches
<1>5. try' = [try EXCEPT ![a] = new] /\ try \in [Attempts -> {Idle} \cup Attempt]
  BY DEF Load, AuthTyped
<1>6. try'[a] = new /\ \A x \in Attempts : x # a => try'[x] = try[x]
  BY <1>5
<1>7. try' \in [Attempts -> {Idle} \cup Attempt]
  <2> HIDE DEF new
  <2> QED BY <1>4, <1>5
<1>8. new.ok <=> client.active /\ Matches(i)
  BY <1>1 DEF Matches
<1>9. new.degraded = degraded /\ new.sid = i /\ new.epoch = client.epoch /\ new.seen = Len(log)
  OBVIOUS
<1> HIDE DEF new
<1> QED BY <1>4, <1>6, <1>7, <1>8, <1>9

\* A mint leaves one token, made from its attempt, and forgets the failures.
LEMMA Minted ==
    ASSUME AuthTyped, Numbered, NEW a \in Attempts, Mint(a)
    PROVE  /\ try[a] \in Attempt /\ try[a].ok
           /\ \E t \in Token : /\ t.sid = try[a].sid /\ t.epoch = try[a].epoch /\ t.seen = try[a].seen
                               /\ t.exp = now + TokenTtl /\ tokens' = tokens \cup {t}
           /\ keys' \in KeySet /\ keys'.fail = [n |-> 0, until |-> 0]
           /\ keys'.epoch = keys.epoch /\ keys'.disabled = keys.disabled /\ keys'.revoked = keys.revoked
           /\ tries' = <<>>
           /\ try' = [try EXCEPT ![a] = Idle]
<1> DEFINE t == [sid |-> try[a].sid, epoch |-> try[a].epoch, seen |-> try[a].seen, exp |-> now + TokenTtl]
<1>1. try[a] \in Attempt /\ try[a].ok /\ try[a] # Idle
  BY Attempting DEF Mint
<1>2. try[a].sid >= 1 /\ now + TokenTtl \in Nat
  BY <1>1, Sizes DEF Numbered, AuthTyped
<1>3. t \in Token
  BY <1>1, <1>2 DEF Attempt, Token, Sids
<1>4. tokens' = tokens \cup {t} /\ try' = [try EXCEPT ![a] = Idle] /\ tries' = <<>>
      /\ keys' = [keys EXCEPT !.fail = [n |-> 0, until |-> 0]]
  BY DEF Mint
<1>5. /\ keys' \in KeySet /\ keys'.fail = [n |-> 0, until |-> 0]
      /\ keys'.epoch = keys.epoch /\ keys'.disabled = keys.disabled /\ keys'.revoked = keys.revoked
  <2>1. keys \in KeySet
    BY DEF AuthTyped
  <2> QED BY <2>1, <1>4 DEF KeySet
<1> QED BY <1>1, <1>3, <1>4, <1>5

\* A refusal counts one failure more.
LEMMA Denied ==
    ASSUME AuthTyped, NEW a \in Attempts, Deny(a)
    PROVE  /\ try[a] \in Attempt /\ ~try[a].ok
           /\ keys' \in KeySet /\ keys'.fail = [n |-> Failures + 1, until |-> now + FailureBlock]
           /\ Failures \in Nat
           /\ keys'.epoch = keys.epoch /\ keys'.disabled = keys.disabled /\ keys'.revoked = keys.revoked
           /\ tries' = IF try[a].degraded THEN tries ELSE Append(tries, now)
           /\ try' = [try EXCEPT ![a] = Idle]
<1>1. try[a] \in Attempt /\ ~try[a].ok
  BY Attempting DEF Deny
<1>2. keys \in KeySet /\ now \in Nat /\ FailureBlock \in Nat
  BY Sizes DEF AuthTyped
<1>3. Failures \in Nat
  BY <1>2 DEF Failures, KeySet
<1>4. keys' = [keys EXCEPT !.fail = [n |-> Failures + 1, until |-> now + FailureBlock]]
  BY DEF Deny, CountFailure
<1>5. /\ keys' \in KeySet /\ keys'.fail = [n |-> Failures + 1, until |-> now + FailureBlock]
      /\ keys'.epoch = keys.epoch /\ keys'.disabled = keys.disabled /\ keys'.revoked = keys.revoked
  BY <1>2, <1>3, <1>4 DEF KeySet
<1> QED BY <1>1, <1>3, <1>5 DEF Deny

\* A try at the endpoint loads the record, or is refused at once.
LEMMA Asked ==
    ASSUME AuthTyped, NEW a \in Attempts, NEW i \in {0} \cup DOMAIN secrets, Ask(a, i) \/ AskDegraded(a, i)
    PROVE  /\ UNCHANGED <<now, client, secrets, keys, cmd, tokens, log, tries>>
           /\ try[a] = Idle
           /\ \/ try' = try
              \/ \E degraded \in BOOLEAN : Load(a, i, degraded) /\ (~degraded => Failures < FailureLimit)
           /\ \/ left' = [left EXCEPT !["attempts"] = @ - 1]
              \/ left' = [left EXCEPT !["attempts"] = @ - 1, !["faults"] = @ - 1]
<1>1. CASE Ask(a, i)
  <2>1. Failures < FailureLimit \/ try' = try
    <3>1. Failures \in Nat /\ FailureLimit \in Nat
      BY Sizes DEF Failures, AuthTyped, KeySet
    <3>2. IF Failures >= FailureLimit THEN UNCHANGED try ELSE Load(a, i, FALSE)
      BY <1>1 DEF Ask
    <3>3. Failures >= FailureLimit \/ Failures < FailureLimit
      BY <3>1
    <3> QED BY <3>2, <3>3
  <2> QED BY <1>1, <2>1 DEF Ask, Spend
<1>2. CASE AskDegraded(a, i)
  BY <1>2 DEF AskDegraded
<1> QED BY <1>1, <1>2

\* There is always a secret.
LEMMA OneSecret == AuthTyped /\ Numbered => 1 \in DOMAIN secrets
<1> SUFFICES ASSUME AuthTyped, Numbered PROVE 1 \in DOMAIN secrets
  OBVIOUS
<1>1. Len(secrets) \in Nat /\ Len(secrets) >= 1 /\ DOMAIN secrets = 1..Len(secrets)
  BY DEF AuthTyped, Numbered
<1> QED BY <1>1

\* The types of the clients are kept.
LEMMA AuthTypedKept ==
    AuthTyped /\ Numbered /\ Reads /\ [Next]_vars => AuthTyped'
<1> SUFFICES ASSUME AuthTyped, Numbered, Reads, [Next]_vars PROVE AuthTyped'
  OBVIOUS
<1>1. ASSUME NEW o \in Operators, NEW k \in Kinds, NEW i \in DOMAIN secrets, Begin(o, k, i)
      PROVE  AuthTyped'
  <2>1. \A x \in Operators : cmd'[x] \in {Idle} \cup Command
    BY <1>1, Began DEF SameButShared
  <2>2. cmd' \in [Operators -> {Idle} \cup Command]
    <3>1. cmd' = [x \in Operators |-> cmd'[x]]
      BY <1>1 DEF Begin
    <3> QED BY <2>1, <3>1
  <2> QED BY <1>1, <2>2 DEF AuthTyped, Begin
<1>2. ASSUME NEW o \in Operators, Commit(o)
      PROVE  AuthTyped'
  <2>1. cmd' \in [Operators -> {Idle} \cup Command]
    <3>1. cmd'[o] \in Command /\ \A x \in Operators : x # o => cmd'[x] = cmd[x]
      BY <1>2, Committed
    <3>2. cmd' = [cmd EXCEPT ![o] = cmd'[o]]
      <4>1. cmd' = [cmd EXCEPT ![o].pc = "committed", ![o].after = Len(log) + 1]
        BY <1>2, Committed
      <4> QED BY <4>1 DEF AuthTyped
    <3> QED BY <3>1, <3>2 DEF AuthTyped
  <2>2. client' \in [active : BOOLEAN, epoch : Nat \ {0}] /\ log' \in Seq(Change) /\ secrets' \in Seq(SecretRow)
    BY <1>2, Committed, SecretsKept
  <2> QED BY <1>2, <2>1, <2>2 DEF AuthTyped, Commit
<1>3. ASSUME NEW o \in Operators, Publish(o)
      PROVE  AuthTyped'
  <2>1. keys' \in KeySet /\ log' \in Seq(Change) /\ cmd' = [cmd EXCEPT ![o] = Idle]
    BY <1>3, PublishedShape
  <2>2. cmd' \in [Operators -> {Idle} \cup Command]
    BY <2>1 DEF AuthTyped
  <2> QED BY <1>3, <2>1, <2>2 DEF AuthTyped, Publish
<1>4. ASSUME NEW o \in Operators, PublishFails(o)
      PROVE  AuthTyped'
  <2>1. cmd' \in [Operators -> {Idle} \cup Command]
    BY <1>4 DEF AuthTyped, PublishFails
  <2> QED BY <1>4, <2>1 DEF AuthTyped, PublishFails
<1>5. ASSUME NEW a \in Attempts, NEW i \in {0} \cup DOMAIN secrets, Ask(a, i) \/ AskDegraded(a, i)
      PROVE  AuthTyped'
  <2>1. try' \in [Attempts -> {Idle} \cup Attempt]
    BY <1>5, Asked, Loaded DEF AuthTyped
  <2> QED BY <1>5, <2>1, Asked DEF AuthTyped
<1>6. ASSUME NEW a \in Attempts, Deny(a)
      PROVE  AuthTyped'
  <2>1. keys' \in KeySet /\ try' = [try EXCEPT ![a] = Idle] /\ tries' \in {tries, Append(tries, now)}
    BY <1>6, Denied
  <2>2. tries' \in Seq(0..MaxNow)
    <3>1. tries \in Seq(0..MaxNow) /\ now \in 0..MaxNow
      BY DEF AuthTyped
    <3>2. Append(tries, now) \in Seq(0..MaxNow)
      <4> DEFINE T == 0..MaxNow
      <4>1. tries \in Seq(T) /\ now \in T
        BY <3>1
      <4> HIDE DEF T
      <4>2. Append(tries, now) \in Seq(T)
        BY <4>1
      <4> QED BY <4>2 DEF T
    <3> QED BY <2>1, <3>1, <3>2
  <2>3. try' \in [Attempts -> {Idle} \cup Attempt]
    BY <2>1 DEF AuthTyped
  <2> QED BY <1>6, <2>1, <2>2, <2>3 DEF AuthTyped, Deny
<1>7. ASSUME NEW a \in Attempts, Mint(a)
      PROVE  AuthTyped'
  <2>1. keys' \in KeySet /\ try' = [try EXCEPT ![a] = Idle] /\ tries' = <<>> /\ tokens' \subseteq Token
    BY <1>7, Minted DEF AuthTyped
  <2>2. try' \in [Attempts -> {Idle} \cup Attempt]
    BY <2>1 DEF AuthTyped
  <2> QED BY <1>7, <2>1, <2>2 DEF AuthTyped, Mint
<1>8. CASE AuthTick
  <2>1. now' \in 0..MaxNow
    BY <1>8, Sizes DEF AuthTick, AuthTyped
  <2> QED BY <1>8, <2>1 DEF AuthTick, AuthTyped
<1>9. CASE Elsewhere
  BY <1>9 DEF Elsewhere, AuthTyped
<1> QED BY <1>1, <1>2, <1>3, <1>4, <1>5, <1>6, <1>7, <1>8, <1>9, AuthSteps, OneSecret DEF AuthStep, Kinds

\* The numbers of the secrets still to be made stay free.
LEMMA NumberedKept ==
    AuthTyped /\ Numbered /\ Reads /\ [Next]_vars => Numbered'
<1> SUFFICES ASSUME AuthTyped, Numbered, Reads, [Next]_vars PROVE Numbered'
  OBVIOUS
<1>0. /\ Len(secrets) \in Nat /\ left["changes"] \in Nat /\ "changes" \in DOMAIN left
      /\ MaxSecrets \in Nat /\ Cardinality(Rotating) \in Nat
  BY Sizes, Rotators DEF AuthTyped, Numbered, Rotating
<1>1. ASSUME NEW o \in Operators, NEW k \in Kinds, NEW i \in DOMAIN secrets, Begin(o, k, i)
      PROVE  Numbered'
  <2>1. left' = [left EXCEPT !["changes"] = @ - 1] /\ left["changes"] > 0 /\ secrets' = secrets /\ try' = try
    BY <1>1, Began DEF Begin
  <2>2. \A x \in Operators : x # o => (x \in Rotating' <=> x \in Rotating)
    <3> TAKE x \in Operators
    <3> HAVE x # o
    <3>1. CASE cmd[x] = Idle
      BY <1>1, <3>1, Began DEF Rotating
    <3>2. CASE cmd[x] # Idle
      <4>1. SameButShared(cmd'[x], cmd[x])
        BY <1>1, <3>2, Began
      <4>2. cmd'[x] # Idle /\ cmd'[x].pc = cmd[x].pc /\ cmd'[x].kind = cmd[x].kind
        BY <4>1 DEF SameButShared, Command, Idle
      <4> QED BY <3>2, <4>2 DEF Rotating
    <3> QED BY <3>1, <3>2
  <2>3. Rotating' \subseteq Operators /\ Rotating' \subseteq Rotating \cup {o} /\ Rotating \subseteq Operators
    BY <2>2 DEF Rotating
  <2>4. Cardinality(Rotating') \in Nat /\ Cardinality(Rotating') <= Cardinality(Rotating) + 1
    <3>1. IsFiniteSet(Rotating) /\ o \notin Rotating
      BY <2>3, <1>1, Rotators, Began DEF Rotating
    <3>2. IsFiniteSet(Rotating \cup {o}) /\ Cardinality(Rotating \cup {o}) = Cardinality(Rotating) + 1
      BY <3>1, FS_AddElement
    <3> QED BY <2>3, <3>2, FS_Subset, FS_CardinalityType
  <2>5. left'["changes"] = left["changes"] - 1 /\ "changes" \in DOMAIN left'
    BY <2>1, <1>0
  <2>6. Len(secrets') + Cardinality(Rotating') + left'["changes"] <= MaxSecrets /\ left'["changes"] \in Nat
    <3> DEFINE n == Len(secrets)
               c == Cardinality(Rotating)
               d == Cardinality(Rotating')
    <3>1. n \in Nat /\ c \in Nat /\ d \in Nat /\ d <= c + 1 /\ n + c + left["changes"] <= MaxSecrets
      BY <1>0, <2>4 DEF Numbered
    <3> HIDE DEF n, c, d
    <3>2. n + d + (left["changes"] - 1) <= MaxSecrets /\ left["changes"] - 1 \in Nat
      BY <3>1, <1>0, <2>1
    <3> QED BY <2>1, <2>5, <3>2 DEF n, d
  <2>7. \A x \in Operators : cmd'[x] # Idle => cmd'[x].sid <= Len(secrets)
    <3>1. i <= Len(secrets)
      BY <1>0 DEF AuthTyped
    <3> TAKE x \in Operators
    <3>2. CASE x = o
      BY <1>1, <3>1, <3>2, Began, ZenonT(60)
    <3>3. CASE x # o /\ cmd[x] = Idle
      BY <1>1, <3>3, Began
    <3>4. CASE x # o /\ cmd[x] # Idle
      <4>1. cmd'[x].sid = cmd[x].sid
        BY <1>1, <3>4, Began DEF SameButShared
      <4> QED BY <3>4, <4>1 DEF Numbered
    <3> QED BY <3>2, <3>3, <3>4
  <2> QED BY <2>1, <2>5, <2>6, <2>7 DEF Numbered
<1>2. ASSUME NEW o \in Operators, Commit(o)
      PROVE  Numbered'
  <2>1. /\ cmd[o] \in Command /\ cmd[o].pc = "read" /\ cmd'[o].pc = "committed"
        /\ cmd'[o].sid = cmd[o].sid
        /\ \A x \in Operators : x # o => cmd'[x] = cmd[x]
    <3>1. /\ cmd[o] \in Command /\ cmd[o].pc = "read"
          /\ cmd'[o] = [cmd[o] EXCEPT !.pc = "committed", !.after = Len(log) + 1]
          /\ \A x \in Operators : x # o => cmd'[x] = cmd[x]
      BY <1>2, Committed
    <3> QED BY <3>1 DEF Command
  <2>2. left' = left /\ try' = try
    BY <1>2 DEF Commit
  <2>3. /\ Len(secrets') = IF cmd[o].kind = "rotate" THEN Len(secrets) + 1 ELSE Len(secrets)
    BY <1>2, SecretsKept
  <2>4. Rotating' = Rotating \ {o} /\ Rotating \subseteq Operators
    BY <2>1 DEF Rotating
  <2>5. Cardinality(Rotating') = IF cmd[o].kind = "rotate" THEN Cardinality(Rotating) - 1 ELSE Cardinality(Rotating)
    <3>1. o \in Rotating <=> cmd[o].kind = "rotate"
      BY <2>1, Commands DEF Rotating
    <3>2. IsFiniteSet(Rotating)
      BY <2>4, Rotators
    <3> QED BY <2>4, <3>1, <3>2, FS_RemoveElement
  <2>6. /\ Len(secrets') + Cardinality(Rotating') + left'["changes"] <= MaxSecrets
        /\ Len(secrets') >= Len(secrets) /\ Len(secrets') \in Nat
    <3> DEFINE n == Len(secrets)
               c == Cardinality(Rotating)
    <3>1. n \in Nat /\ c \in Nat /\ n + c + left["changes"] <= MaxSecrets
      BY <1>0 DEF Numbered
    <3> HIDE DEF n, c
    <3>2. CASE cmd[o].kind = "rotate"
      <4>1. Len(secrets') = n + 1 /\ Cardinality(Rotating') = c - 1
        BY <2>3, <2>5, <3>2 DEF n, c
      <4> QED BY <3>1, <4>1, <2>2, <1>0 DEF n
    <3>3. CASE cmd[o].kind # "rotate"
      <4>1. Len(secrets') = n /\ Cardinality(Rotating') = c
        BY <2>3, <2>5, <3>3 DEF n, c
      <4> QED BY <3>1, <4>1, <2>2, <1>0 DEF n
    <3> QED BY <3>2, <3>3
  <2>7. \A x \in Operators : cmd'[x] # Idle => cmd'[x].sid \in Nat /\ cmd'[x].sid <= Len(secrets)
    <3> TAKE x \in Operators
    <3>1. cmd[x] # Idle => cmd[x].sid \in Nat /\ cmd[x].sid <= Len(secrets)
      BY Commands DEF Numbered, Command, Sids
    <3> QED BY <2>1, <3>1, Commands
  <2>8. \A x \in Operators : cmd'[x] # Idle => cmd'[x].sid <= Len(secrets')
    BY <2>6, <2>7, <1>0
  <2>9. \A a \in Attempts : try[a] # Idle => try[a].sid <= Len(secrets') /\ (try[a].ok => try[a].sid >= 1)
    <3> TAKE a \in Attempts
    <3>1. try[a] # Idle => try[a].sid \in Int /\ try[a].sid <= Len(secrets) /\ (try[a].ok => try[a].sid >= 1)
      BY Attempting DEF Numbered, Attempt, Sids
    <3> QED BY <2>6, <3>1, <1>0
  <2>10. Len(secrets') >= 1
    BY <2>6, <1>0 DEF Numbered
  <2> QED BY <2>2, <2>6, <2>8, <2>9, <2>10 DEF Numbered
<1>3. ASSUME NEW o \in Operators, Publish(o) \/ PublishFails(o)
      PROVE  Numbered'
  <2>1. /\ cmd[o].pc = "committed" /\ cmd' = [cmd EXCEPT ![o] = Idle]
        /\ UNCHANGED <<secrets, try>>
    BY <1>3 DEF Publish, PublishFails
  <2>2. left'["changes"] = left["changes"] /\ "changes" \in DOMAIN left'
    BY <1>3, <1>0 DEF Publish, PublishFails, Spend
  <2>3. \A x \in Operators : cmd'[x] = IF x = o THEN Idle ELSE cmd[x]
    BY <2>1 DEF AuthTyped
  <2>4. Rotating' = Rotating
    BY <2>1, <2>3 DEF Rotating
  <2> QED BY <2>1, <2>2, <2>3, <2>4 DEF Numbered
<1>4. ASSUME NEW a \in Attempts, NEW i \in {0} \cup DOMAIN secrets, Ask(a, i) \/ AskDegraded(a, i)
      PROVE  Numbered'
  <2>1. UNCHANGED <<secrets, cmd>> /\ Rotating' = Rotating
    BY <1>4, Asked DEF Rotating
  <2>2. left'["changes"] = left["changes"] /\ "changes" \in DOMAIN left'
    BY <1>4, Asked, <1>0
  <2>3. i <= Len(secrets) /\ (Matches(i) => i >= 1)
    BY <1>0 DEF AuthTyped, Matches, Candidates
  <2>4. \A x \in Attempts : try'[x] # Idle => try'[x].sid <= Len(secrets) /\ (try'[x].ok => try'[x].sid >= 1)
    BY <1>4, <2>3, Asked, Loaded DEF Numbered
  <2> QED BY <2>1, <2>2, <2>4 DEF Numbered
<1>5. ASSUME NEW a \in Attempts, Deny(a) \/ Mint(a)
      PROVE  Numbered'
  <2>1. UNCHANGED <<secrets, cmd, left>> /\ try' = [try EXCEPT ![a] = Idle] /\ Rotating' = Rotating
    BY <1>5 DEF Deny, Mint, Rotating
  <2>2. \A x \in Attempts : try'[x] \in {Idle, try[x]}
    BY <2>1 DEF AuthTyped
  <2> QED BY <2>1, <2>2 DEF Numbered
<1>6. CASE AuthTick
  BY <1>6 DEF AuthTick, Numbered, Rotating
<1>7. CASE Elsewhere
  <2>1. left'["changes"] = left["changes"] /\ "changes" \in DOMAIN left'
    BY <1>7, <1>0 DEF Elsewhere
  <2>2. UNCHANGED <<secrets, cmd, try>> /\ Rotating' = Rotating
    BY <1>7 DEF Elsewhere, Rotating
  <2> QED BY <2>1, <2>2 DEF Numbered
<1> QED BY <1>1, <1>2, <1>3, <1>4, <1>5, <1>6, <1>7, AuthSteps, OneSecret DEF AuthStep, Kinds

--------------------------------------------------------------------------------
(* What commands know. *)

\* Time alone makes no secret live.
LEMMA LiveShrinks ==
    ASSUME AuthTyped, secrets' = secrets, now' \in Nat, now <= now'
    PROVE  Live' \subseteq Live
<1>1. now \in Nat /\ \A j \in DOMAIN secrets : secrets[j].expires \in Nat
  <2>1. \A j \in DOMAIN secrets : secrets[j] \in SecretRow
    BY DEF AuthTyped
  <2> QED BY <2>1, Sizes DEF AuthTyped, SecretRow
<1>2. \A j \in DOMAIN secrets : secrets[j].expires > now' => secrets[j].expires > now
  BY <1>1
<1> QED BY <1>2 DEF Live

\* A commit nothing came before since it read adds at most the secret it makes.
LEMMA LiveGrows ==
    ASSUME AuthTyped, Numbered, Reads, NEW o \in Operators, Commit(o), cmd[o].after = Len(log)
    PROVE  Live' \subseteq Live \cup (IF cmd[o].kind = "rotate" THEN {Len(secrets) + 1} ELSE {})
<1> DEFINE c == cmd[o]
<1>1. c \in Command /\ c.pc = "read"
  BY Committed
<1>2. /\ now' = now /\ now \in Nat /\ Grace \in Nat \ {0} /\ Len(secrets) \in Nat
      /\ DOMAIN secrets = 1..Len(secrets)
      /\ \A j \in DOMAIN secrets : secrets[j] \in SecretRow
  <2>1. now' = now
    BY DEF Commit
  <2>2. now \in Nat /\ Grace \in Nat \ {0}
    BY Sizes DEF AuthTyped
  <2>3. secrets \in Seq(SecretRow)
    BY DEF AuthTyped
  <2>4. Len(secrets) \in Nat /\ DOMAIN secrets = 1..Len(secrets) /\ \A j \in DOMAIN secrets : secrets[j] \in SecretRow
    BY <2>3
  <2> QED BY <2>1, <2>2, <2>4
<1>3. \A j \in c.live : j \in DOMAIN secrets /\ c.expires[j] = secrets[j].expires
  BY <1>1, SMTT(30) DEF Reads
<1>4. DOMAIN secrets' = IF c.kind = "rotate" THEN 1..(Len(secrets) + 1) ELSE DOMAIN secrets
  <2>1. secrets' \in Seq(SecretRow)
    BY SecretsKept
  <2>2. DOMAIN secrets' = 1..Len(secrets')
    BY <2>1
  <2> QED BY <2>2, <1>2, SecretsKept
<1>5. ASSUME NEW j \in DOMAIN secrets, j \in Live'
      PROVE  j \in Live
  <2>1. ~secrets'[j].revoked /\ (secrets'[j].expires = 0 \/ secrets'[j].expires > now)
    BY <1>2, <1>5 DEF Live
  <2>2. ~secrets[j].revoked
    BY <2>1, SecretsKept
  <2>3. CASE c.kind = "rotate"
    <3> DEFINE old == [x \in DOMAIN secrets |->
                         IF x \in c.live /\ (c.expires[x] = 0 \/ c.expires[x] > now + Grace)
                         THEN [secrets[x] EXCEPT !.expires = now + Grace] ELSE secrets[x]]
    <3>1. secrets' = Append(old, Secret)
      BY <2>3, SecretsKept
    <3>2. DOMAIN old = 1..Len(secrets) /\ Len(old) = Len(secrets)
      BY <1>2
    <3>3. secrets'[j] = old[j]
      <4>1. j \in 1..Len(secrets)
        BY <1>2
      <4> HIDE DEF old
      <4> QED BY <4>1, <3>1, <3>2, <1>2
    <3>4. CASE j \in c.live /\ (c.expires[j] = 0 \/ c.expires[j] > now + Grace)
      <4>1. secrets[j].expires = 0 \/ secrets[j].expires > now + Grace
        BY <1>3, <3>4
      <4>2. secrets[j].expires \in Nat
        BY <1>2 DEF SecretRow
      <4>3. secrets[j].expires = 0 \/ secrets[j].expires > now
        BY <4>1, <4>2, <1>2
      <4> QED BY <2>2, <4>3 DEF Live
    <3>5. CASE ~(j \in c.live /\ (c.expires[j] = 0 \/ c.expires[j] > now + Grace))
      <4>1. secrets'[j] = secrets[j]
        BY <3>3, <3>5
      <4> QED BY <2>1, <4>1 DEF Live
    <3> QED BY <3>4, <3>5
  <2>4. CASE c.kind = "revoke"
    <3>1. secrets' = [secrets EXCEPT ![c.sid].revoked = TRUE]
      BY <2>4, SecretsKept
    <3>2. secrets'[j].expires = secrets[j].expires
      BY <3>1, <1>2 DEF SecretRow
    <3> QED BY <2>1, <2>2, <3>2 DEF Live
  <2>5. CASE c.kind \notin {"rotate", "revoke"}
    <3>1. secrets' = secrets
      BY <2>5, SecretsKept
    <3> QED BY <2>1, <3>1 DEF Live
  <2> QED BY <2>3, <2>4, <2>5
<1>6. Live' \subseteq DOMAIN secrets'
  BY DEF Live
<1>7. \A j \in 1..(Len(secrets) + 1) : j \in DOMAIN secrets \/ j = Len(secrets) + 1
  BY <1>2
<1> QED BY <1>4, <1>5, <1>6, <1>7

\* What a command knows of its read stays true while nothing is committed.
KnowsOf(c) ==
    /\ c.expires \in [c.live -> Nat]
    /\ c.after <= Len(log) /\ c.epoch <= c.after + 1
    /\ c.pc = "read" /\ c.kind = "rotate" => Cardinality(c.live) < MaxLive
    /\ c.pc = "read" /\ c.after = Len(log) =>
          /\ c.epoch = client.epoch
          /\ Live \subseteq c.live
          /\ \A j \in c.live : j \in DOMAIN secrets /\ c.expires[j] = secrets[j].expires
    /\ c.pc = "committed" => /\ c.after \in DOMAIN log
                             /\ log[c.after].kind = c.kind /\ log[c.after].sid = c.sid

\* Reads, command by command.
LEMMA ReadsAre ==
    AuthTyped => (Reads <=> \A o \in Operators : cmd[o] # Idle => KnowsOf(cmd[o]))
<1> SUFFICES ASSUME AuthTyped PROVE Reads <=> \A o \in Operators : cmd[o] # Idle => KnowsOf(cmd[o])
  OBVIOUS
<1>1. \A o \in Operators : cmd[o] # Idle <=> cmd[o].pc \in {"read", "committed"}
  BY Commands
<1> QED BY <1>1 DEF Reads, KnowsOf

\* Commands keep what they know.
LEMMA ReadsKept ==
    AuthTyped /\ Numbered /\ Reads /\ Dated /\ AuthTyped' /\ [Next]_vars => Reads'
<1> SUFFICES ASSUME AuthTyped, Numbered, Reads, Dated, AuthTyped', [Next]_vars
             PROVE  \A x \in Operators : cmd'[x] # Idle => KnowsOf(cmd[x])'
  <2>1. (AuthTyped => (Reads <=> \A o \in Operators : cmd[o] # Idle => KnowsOf(cmd[o])))'
    BY ReadsAre, PTL
  <2> QED BY <2>1
<1>0. /\ Len(log) \in Nat /\ client.epoch \in Nat
      /\ \A x \in Operators : cmd[x] # Idle => cmd[x] \in Command /\ KnowsOf(cmd[x])
  BY ReadsAre, Commands DEF AuthTyped
<1>1. ASSUME NEW o \in Operators, NEW k \in Kinds, NEW i \in DOMAIN secrets, Begin(o, k, i),
             NEW x \in Operators, cmd'[x] # Idle
      PROVE  KnowsOf(cmd[x])'
  <2>1. UNCHANGED <<now, client, secrets, log>> /\ Live' = Live
    BY <1>1 DEF Begin, Live
  <2>2. CASE x = o
    <3>1. /\ cmd'[o].pc = "read" /\ cmd'[o].kind = k /\ cmd'[o].epoch = client.epoch
          /\ cmd'[o].live = Live /\ cmd'[o].expires = [j \in Live |-> secrets[j].expires]
          /\ cmd'[o].after = Len(log)
      BY <1>1, Began
    <3>2. \A j \in Live : j \in DOMAIN secrets /\ secrets[j].expires \in Nat
      <4>1. \A j \in DOMAIN secrets : secrets[j] \in SecretRow
        BY DEF AuthTyped
      <4> QED BY <4>1 DEF Live, SecretRow
    <3>3. cmd'[o].expires \in [cmd'[o].live -> Nat]
      BY <3>1, <3>2
    <3>4. k = "rotate" => Cardinality(Live) < MaxLive
      BY <1>1 DEF Begin, MayRotate
    <3>5. client.epoch <= Len(log) + 1
      BY DEF Dated
    <3>6. cmd'[o].after <= Len(log)
      BY <3>1, <1>0
    <3> QED BY <2>1, <2>2, <3>1, <3>2, <3>3, <3>4, <3>5, <3>6 DEF KnowsOf
  <2>3. CASE x # o
    <3>1. cmd[x] # Idle /\ SameButShared(cmd'[x], cmd[x])
      BY <1>1, <2>3, Began
    <3>2. KnowsOf(cmd[x])
      BY <3>1, <1>0
    <3> QED BY <2>1, <3>1, <3>2 DEF KnowsOf, SameButShared
  <2> QED BY <2>2, <2>3
<1>2. ASSUME NEW o \in Operators, Commit(o), NEW x \in Operators, cmd'[x] # Idle
      PROVE  KnowsOf(cmd[x])'
  <2>1. /\ Len(log') = Len(log) + 1
        /\ \A j \in DOMAIN log : j \in DOMAIN log' /\ log'[j] = log[j]
    BY <1>2, Committed
  <2>2. CASE x = o
    <3> DEFINE c == cmd[o]
    <3>1. /\ c \in Command /\ c.pc = "read" /\ cmd'[o] = [c EXCEPT !.pc = "committed", !.after = Len(log) + 1]
          /\ log'[Len(log) + 1].kind = c.kind /\ log'[Len(log) + 1].sid = c.sid
      <4> DEFINE new == [kind |-> c.kind, sid |-> c.sid, epoch |-> NewEpoch(c), pub |-> Never, alone |-> FALSE,
                         serial |-> c.after = Len(log)]
      <4>1. /\ c \in Command /\ c.pc = "read" /\ cmd'[o] = [c EXCEPT !.pc = "committed", !.after = Len(log) + 1]
            /\ log'[Len(log) + 1] = new
        BY <1>2, Committed
      <4>2. new.kind = c.kind /\ new.sid = c.sid
        OBVIOUS
      <4> HIDE DEF new
      <4> QED BY <4>1, <4>2
    <3>2. Len(log) + 1 \in DOMAIN log'
      <4>1. log' \in Seq(Change)
        BY <1>2, Committed
      <4>2. DOMAIN log' = 1..Len(log')
        BY <4>1
      <4>3. Len(log) + 1 \in 1..(Len(log) + 1)
        BY <1>0
      <4> QED BY <2>1, <4>2, <4>3
    <3>3. /\ cmd'[o].pc = "committed" /\ cmd'[o].after = Len(log) + 1 /\ cmd'[o].kind = c.kind /\ cmd'[o].sid = c.sid
          /\ cmd'[o].epoch = c.epoch /\ cmd'[o].expires = c.expires /\ cmd'[o].live = c.live
      BY <3>1 DEF Command
    <3>4. c.expires \in [c.live -> Nat] /\ c.after <= Len(log) /\ c.epoch <= c.after + 1
          /\ c.after \in Nat /\ c.epoch \in Nat
      <4>1. c # Idle
        BY <3>1, Commands
      <4> QED BY <4>1, <1>0 DEF KnowsOf, Command
    <3>5. c.epoch <= (Len(log) + 1) + 1 /\ Len(log) + 1 <= Len(log')
      BY <3>4, <2>1, <1>0
    <3> QED BY <2>2, <3>1, <3>2, <3>3, <3>4, <3>5 DEF KnowsOf
  <2>3. CASE x # o
    <3>1. cmd'[x] = cmd[x]
      BY <1>2, <2>3, Committed
    <3>2. cmd[x] \in Command /\ KnowsOf(cmd[x])
      BY <1>2, <3>1, <1>0
    <3>3. cmd[x].after \in Nat /\ cmd[x].after <= Len(log)
      BY <3>2 DEF KnowsOf, Command
    <3>4. cmd[x].after # Len(log') /\ cmd[x].after <= Len(log')
      BY <2>1, <3>3, <1>0
    <3> QED BY <2>1, <3>1, <3>2, <3>4 DEF KnowsOf
  <2> QED BY <2>2, <2>3
<1>3. ASSUME NEW o \in Operators, Publish(o), NEW x \in Operators, cmd'[x] # Idle
      PROVE  KnowsOf(cmd[x])'
  <2>1. UNCHANGED <<now, client, secrets>> /\ Live' = Live
    BY <1>3 DEF Publish, Live
  <2>2. cmd' = [cmd EXCEPT ![o] = Idle] /\ DOMAIN log' = DOMAIN log /\ Len(log') = Len(log)
    BY <1>3, PublishedShape
  <2>3. x # o /\ cmd'[x] = cmd[x]
    BY <1>3, <2>2 DEF AuthTyped
  <2>4. \A j \in DOMAIN log : log'[j].kind = log[j].kind /\ log'[j].sid = log[j].sid
    <3>1. /\ cmd[o].after \in DOMAIN log
          /\ \A j \in DOMAIN log : j # cmd[o].after => log'[j] = log[j]
          /\ log'[cmd[o].after] = [log[cmd[o].after] EXCEPT !.pub = now, !.alone = cmd[o].alone]
      BY <1>3, PublishedShape
    <3>2. log[cmd[o].after] \in Change
      BY <3>1 DEF AuthTyped
    <3>3. log'[cmd[o].after].kind = log[cmd[o].after].kind /\ log'[cmd[o].after].sid = log[cmd[o].after].sid
      BY <3>1, <3>2 DEF Change
    <3> QED BY <3>1, <3>3
  <2>5. KnowsOf(cmd[x])
    BY <1>3, <2>3, <1>0
  <2> QED BY <2>1, <2>2, <2>3, <2>4, <2>5 DEF KnowsOf
<1>4. ASSUME UNCHANGED <<client, secrets, log>>, now' \in Nat, now <= now',
             \A x \in Operators : cmd'[x] \in {Idle, cmd[x]}, NEW x \in Operators, cmd'[x] # Idle
      PROVE  KnowsOf(cmd[x])'
  <2>1. Live' \subseteq Live
    BY <1>4, LiveShrinks
  <2>2. cmd'[x] = cmd[x] /\ KnowsOf(cmd[x])
    BY <1>4, <1>0
  <2> QED BY <1>4, <2>1, <2>2 DEF KnowsOf
<1>5. ASSUME \/ \E o \in Operators : PublishFails(o)
             \/ \E a \in Attempts : \/ \E i \in {0} \cup DOMAIN secrets : Ask(a, i) \/ AskDegraded(a, i)
                                    \/ Deny(a) \/ Mint(a)
             \/ AuthTick \/ Elsewhere
      PROVE  /\ UNCHANGED <<client, secrets, log>> /\ now' \in Nat /\ now <= now'
             /\ \A x \in Operators : cmd'[x] \in {Idle, cmd[x]}
  <2>1. now \in Nat /\ cmd \in [Operators -> {Idle} \cup Command]
    BY Sizes DEF AuthTyped
  <2>2. CASE \E o \in Operators : PublishFails(o)
    <3>1. PICK o \in Operators : PublishFails(o)
      BY <2>2
    <3>2. cmd' = [cmd EXCEPT ![o] = Idle] /\ UNCHANGED <<now, client, secrets, log>>
      BY <3>1 DEF PublishFails
    <3>3. \A x \in Operators : cmd'[x] \in {Idle, cmd[x]}
      BY <2>1, <3>2
    <3> QED BY <2>1, <3>2, <3>3
  <2>3. CASE \E a \in Attempts : \/ \E i \in {0} \cup DOMAIN secrets : Ask(a, i) \/ AskDegraded(a, i)
                                \/ Deny(a) \/ Mint(a)
    <3>1. UNCHANGED <<now, client, secrets, log, cmd>>
      BY <2>3 DEF Ask, AskDegraded, Deny, Mint
    <3> QED BY <2>1, <3>1
  <2>4. CASE AuthTick
    <3>1. UNCHANGED <<client, secrets, log, cmd>> /\ now' = now + 1
      BY <2>4 DEF AuthTick
    <3> QED BY <2>1, <3>1
  <2>5. CASE Elsewhere
    <3>1. UNCHANGED <<now, client, secrets, log, cmd>>
      BY <2>5 DEF Elsewhere
    <3> QED BY <2>1, <3>1
  <2> QED BY <1>5, <2>2, <2>3, <2>4, <2>5
<1> QED BY <1>1, <1>2, <1>3, <1>4, <1>5, AuthSteps, OneSecret DEF AuthStep, Kinds

--------------------------------------------------------------------------------
(* What neither commits nor publishes. *)

\* An attempt that has just read the rows.
JustLoaded(a) ==
    /\ try'[a].epoch = client.epoch /\ try'[a].seen = Len(log)
    /\ try'[a].ok => try'[a].sid \in Live

\* A token made from an attempt.
MadeFrom(t, a) ==
    /\ try[a] # Idle /\ try[a].ok
    /\ t.sid = try[a].sid /\ t.epoch = try[a].epoch /\ t.seen = try[a].seen /\ t.exp = now + TokenTtl

\* The rows, the history and the keys of changes stay; attempts end or start, and
\* leave tokens; only when all have ended does the clock move.
Calm ==
    /\ UNCHANGED <<client, secrets, log>>
    /\ keys'.epoch = keys.epoch /\ keys'.disabled = keys.disabled /\ keys'.revoked = keys.revoked
    /\ \A a \in Attempts : try'[a] = Idle \/ try'[a] = try[a] \/ JustLoaded(a)
    /\ \A t \in tokens' : t \in tokens \/ \E a \in Attempts : MadeFrom(t, a)
    /\ \/ now' = now
       \/ now' = now + 1 /\ \A a \in Attempts : try'[a] = Idle

\* A step commits, publishes, or does neither.
LEMMA CalmOr ==
    ASSUME AuthTyped, Numbered, [Next]_vars
    PROVE  Calm \/ \E o \in Operators : Commit(o) \/ Publish(o)
<1>1. ASSUME NEW o \in Operators, NEW k \in Kinds, NEW i \in DOMAIN secrets, Begin(o, k, i)
      PROVE  Calm
  BY <1>1 DEF Begin, Calm
<1>2. ASSUME NEW o \in Operators, PublishFails(o)
      PROVE  Calm
  BY <1>2 DEF PublishFails, Calm
<1>3. ASSUME NEW a \in Attempts, NEW i \in {0} \cup DOMAIN secrets, Ask(a, i) \/ AskDegraded(a, i)
      PROVE  Calm
  <2>1. UNCHANGED <<now, client, secrets, keys, tokens, log>>
    BY <1>3, Asked
  <2>2. ASSUME NEW degraded \in BOOLEAN, Load(a, i, degraded)
        PROVE  JustLoaded(a) /\ \A x \in Attempts : x # a => try'[x] = try[x]
    <3>1. try'[a].epoch = client.epoch /\ try'[a].seen = Len(log) /\ try'[a].sid = i /\ (try'[a].ok => Matches(i))
          /\ \A x \in Attempts : x # a => try'[x] = try[x]
      BY <2>2, Loaded
    <3> QED BY <3>1 DEF JustLoaded, Matches
  <2>3. \A x \in Attempts : try'[x] = try[x] \/ JustLoaded(x)
    BY <1>3, <2>2, Asked
  <2> QED BY <2>1, <2>3 DEF Calm
<1>4. ASSUME NEW a \in Attempts, Deny(a) \/ Mint(a)
      PROVE  Calm
  <2>1. UNCHANGED <<now, client, secrets, log>> /\ try' = [try EXCEPT ![a] = Idle]
    BY <1>4 DEF Deny, Mint
  <2>2. keys'.epoch = keys.epoch /\ keys'.disabled = keys.disabled /\ keys'.revoked = keys.revoked
    BY <1>4, Denied, Minted
  <2>3. \A x \in Attempts : try'[x] = Idle \/ try'[x] = try[x]
    BY <2>1 DEF AuthTyped
  <2>4. \A t \in tokens' : t \in tokens \/ MadeFrom(t, a)
    <3>1. CASE Deny(a)
      BY <3>1 DEF Deny
    <3>2. CASE Mint(a)
      <4>1. try[a] # Idle /\ try[a].ok
        BY <3>2, Attempting DEF Mint
      <4> QED BY <3>2, <4>1, Minted DEF MadeFrom
    <3> QED BY <1>4, <3>1, <3>2
  <2> QED BY <2>1, <2>2, <2>3, <2>4 DEF Calm
<1>5. CASE AuthTick
  BY <1>5 DEF AuthTick, Calm
<1>6. CASE Elsewhere
  BY <1>6 DEF Elsewhere, Calm
<1> QED BY <1>1, <1>2, <1>3, <1>4, <1>5, <1>6, AuthSteps, OneSecret DEF AuthStep, Kinds

\* What is a number among what is kept.
LEMMA Numbers ==
    ASSUME AuthTyped
    PROVE  /\ now \in Nat /\ TokenTtl \in Nat /\ Len(log) \in Nat /\ DOMAIN log = 1..Len(log)
           /\ client.epoch \in Nat \ {0} /\ Len(secrets) \in Nat /\ DOMAIN secrets = 1..Len(secrets)
           /\ \A a \in Attempts : try[a] # Idle => try[a].epoch \in Nat \ {0} /\ try[a].seen \in Nat
           /\ \A t \in tokens : t.epoch \in Nat \ {0} /\ t.seen \in Nat /\ t.exp \in Nat /\ t.sid \in Sids
           /\ \A j \in DOMAIN log : /\ log[j].pub \in Int /\ log[j].epoch \in Nat \ {0} /\ log[j].sid \in Sids
                                    /\ log[j].pub # Never => log[j].pub \in Nat
                                    /\ log[j] \in Change
           /\ keys.epoch.until \in Nat /\ keys.epoch.value \in Nat /\ keys.disabled \in Nat
           /\ \A i \in Sids : keys.revoked[i] \in Nat
<1>1. now \in Nat /\ TokenTtl \in Nat
  BY Sizes DEF AuthTyped
<1>2. Len(log) \in Nat /\ DOMAIN log = 1..Len(log) /\ \A j \in DOMAIN log : log[j] \in Change
  BY DEF AuthTyped
<1>3. \A j \in DOMAIN log : /\ log[j].pub \in {Never} \cup 0..MaxNow /\ log[j].epoch \in Nat \ {0}
                            /\ log[j].sid \in Sids
  BY <1>2 DEF Change
<1>4. \A j \in DOMAIN log : log[j].pub \in Int /\ (log[j].pub # Never => log[j].pub \in Nat)
  BY <1>3, Sizes DEF Never
<1>5. \A a \in Attempts : try[a] # Idle => try[a].epoch \in Nat \ {0} /\ try[a].seen \in Nat
  BY Attempting DEF Attempt
<1>6. \A t \in tokens : t.epoch \in Nat \ {0} /\ t.seen \in Nat /\ t.exp \in Nat /\ t.sid \in Sids
  BY DEF AuthTyped, Token
<1>7. /\ keys.epoch.until \in Nat /\ keys.epoch.value \in Nat /\ keys.disabled \in Nat
      /\ \A i \in Sids : keys.revoked[i] \in Nat
  BY DEF AuthTyped, KeySet
<1>8. client.epoch \in Nat \ {0} /\ Len(secrets) \in Nat /\ DOMAIN secrets = 1..Len(secrets)
  BY DEF AuthTyped
<1> QED BY <1>1, <1>2, <1>3, <1>4, <1>5, <1>6, <1>7, <1>8

\* A commit leaves all but its own entry of the history alone, and no token behind.
LEMMA CommitLogs ==
    ASSUME AuthTyped, Numbered, Reads, NEW o \in Operators, Commit(o)
    PROVE  /\ UNCHANGED <<now, keys, try, tokens, tries>>
           /\ Len(log') = Len(log) + 1
           /\ \A j \in DOMAIN log' : j \in DOMAIN log \/ j = Len(log) + 1
           /\ \A j \in DOMAIN log : j \in DOMAIN log' /\ log'[j] = log[j]
           /\ Len(log) + 1 \in DOMAIN log'
           /\ log'[Len(log) + 1].kind = cmd[o].kind /\ log'[Len(log) + 1].sid = cmd[o].sid
           /\ log'[Len(log) + 1].epoch = NewEpoch(cmd[o]) /\ log'[Len(log) + 1].pub = Never
           /\ cmd[o].kind # "revoke" => NewEpoch(cmd[o]) = cmd[o].epoch + 1
           /\ log'[Len(log) + 1].serial <=> cmd[o].after = Len(log)
           /\ cmd[o].after = Len(log) => cmd[o].epoch = client.epoch
           /\ cmd[o].after <= Len(log) /\ cmd[o].epoch <= cmd[o].after + 1 /\ cmd[o].epoch \in Nat /\ cmd[o].after \in Nat
           /\ NewEpoch(cmd[o]) \in {cmd[o].epoch, cmd[o].epoch + 1}
           /\ client'.epoch = IF NewEpoch(cmd[o]) # cmd[o].epoch THEN NewEpoch(cmd[o]) ELSE client.epoch
<1> DEFINE c == cmd[o]
           new == [kind |-> c.kind, sid |-> c.sid, epoch |-> NewEpoch(c), pub |-> Never, alone |-> FALSE,
                   serial |-> c.after = Len(log)]
<1>1. /\ Len(log') = Len(log) + 1
      /\ \A j \in DOMAIN log' : j \in DOMAIN log \/ j = Len(log) + 1
      /\ \A j \in DOMAIN log : j \in DOMAIN log' /\ log'[j] = log[j]
      /\ log'[Len(log) + 1] = new
      /\ log' \in Seq(Change)
      /\ c \in Command /\ c.pc = "read"
      /\ NewEpoch(c) \in {c.epoch, c.epoch + 1}
      /\ NewEpoch(c) = c.epoch + 1 <=> ~(c.kind = "revoke" /\ c.done)
      /\ client'.epoch = IF NewEpoch(c) # c.epoch THEN NewEpoch(c) ELSE client.epoch
  BY Committed
<1>2. UNCHANGED <<now, keys, try, tokens, tries>>
  BY DEF Commit
<1>3. /\ new.kind = c.kind /\ new.sid = c.sid /\ new.epoch = NewEpoch(c) /\ new.pub = Never
      /\ new.serial = (c.after = Len(log))
  OBVIOUS
<1>4. Len(log) + 1 \in DOMAIN log'
  <2>1. DOMAIN log' = 1..Len(log')
    BY <1>1
  <2>2. Len(log) \in Nat
    BY Numbers
  <2>3. Len(log) + 1 \in 1..(Len(log) + 1)
    BY <2>2
  <2> QED BY <1>1, <2>1, <2>3
<1>5. c # Idle /\ c.epoch \in Nat /\ c.after \in Nat
  BY <1>1, Commands DEF Command
<1>6. (c.after = Len(log) => c.epoch = client.epoch) /\ c.after <= Len(log) /\ c.epoch <= c.after + 1
  BY <1>1, <1>5 DEF Reads
<1> HIDE DEF c, new
<1>7. /\ log'[Len(log) + 1].kind = c.kind /\ log'[Len(log) + 1].sid = c.sid
      /\ log'[Len(log) + 1].epoch = NewEpoch(c) /\ log'[Len(log) + 1].pub = Never
      /\ c.kind # "revoke" => NewEpoch(c) = c.epoch + 1
      /\ log'[Len(log) + 1].serial <=> c.after = Len(log)
  BY <1>1, <1>3
<1> QED BY <1>1, <1>2, <1>4, <1>5, <1>6, <1>7 DEF c

\* A publication dates its own entry and leaves the rest of the history alone.
LEMMA PublishLogs ==
    ASSUME AuthTyped, Numbered, Reads, NEW o \in Operators, Publish(o)
    PROVE  /\ UNCHANGED <<now, client, secrets, try, tokens, tries>>
           /\ DOMAIN log' = DOMAIN log /\ Len(log') = Len(log)
           /\ \A j \in DOMAIN log :
                 /\ log'[j].kind = log[j].kind /\ log'[j].sid = log[j].sid /\ log'[j].epoch = log[j].epoch
                 /\ log'[j].serial = log[j].serial
                 /\ j # cmd[o].after => log'[j] = log[j]
           /\ cmd[o].pc = "committed" /\ cmd[o].after \in DOMAIN log
           /\ log'[cmd[o].after].pub = now /\ log'[cmd[o].after].alone = cmd[o].alone
           /\ log[cmd[o].after].kind = cmd[o].kind /\ log[cmd[o].after].sid = cmd[o].sid
<1>1. /\ cmd[o].pc = "committed" /\ cmd[o].after \in DOMAIN log
      /\ DOMAIN log' = DOMAIN log /\ Len(log') = Len(log)
      /\ \A j \in DOMAIN log : j # cmd[o].after => log'[j] = log[j]
      /\ log'[cmd[o].after] = [log[cmd[o].after] EXCEPT !.pub = now, !.alone = cmd[o].alone]
  BY PublishedShape
<1>2. log[cmd[o].after] \in Change
  BY <1>1, Numbers
<1>3. /\ log'[cmd[o].after].kind = log[cmd[o].after].kind /\ log'[cmd[o].after].sid = log[cmd[o].after].sid
      /\ log'[cmd[o].after].epoch = log[cmd[o].after].epoch 
      /\ log'[cmd[o].after].serial = log[cmd[o].after].serial
      /\ log'[cmd[o].after].pub = now /\ log'[cmd[o].after].alone = cmd[o].alone
  BY <1>1, <1>2 DEF Change
<1>4. log[cmd[o].after].kind = cmd[o].kind /\ log[cmd[o].after].sid = cmd[o].sid
  BY <1>1 DEF Reads
<1>5. UNCHANGED <<now, client, secrets, try, tokens, tries>>
  BY DEF Publish
<1> QED BY <1>1, <1>3, <1>4, <1>5

--------------------------------------------------------------------------------
(* Epochs, tokens and keys. *)

\* Epochs stay below the commits, and tokens below the clock.
LEMMA DatedKept ==
    AuthTyped /\ Numbered /\ Reads /\ Dated /\ AuthTyped' /\ [Next]_vars => Dated'
<1> SUFFICES ASSUME AuthTyped, Numbered, Reads, Dated, AuthTyped', [Next]_vars
             PROVE  Dated'
  OBVIOUS
<1> DEFINE n == Len(log)
           m == Len(log')
<1>1. /\ n \in Nat /\ now \in Nat /\ TokenTtl \in Nat /\ client.epoch \in Nat
      /\ client.epoch <= n + 1
      /\ \A a \in Attempts : try[a] # Idle =>
            try[a].epoch \in Nat /\ try[a].seen \in Nat /\ try[a].epoch <= n + 1 /\ try[a].seen <= n
      /\ \A t \in tokens : /\ t.epoch \in Nat /\ t.seen \in Nat /\ t.exp \in Nat
                           /\ t.epoch <= n + 1 /\ t.seen <= n /\ t.exp <= now + TokenTtl
      /\ \A j \in DOMAIN log : log[j].pub \in Int /\ log[j].pub <= now
  BY Numbers DEF Dated
<1>2. CASE \E o \in Operators : Commit(o)
  <2> PICK o \in Operators : Commit(o)
    BY <1>2
  <2>1. /\ UNCHANGED <<now, try, tokens>> /\ m = n + 1
        /\ \A j \in DOMAIN log' : (j \in DOMAIN log /\ log'[j] = log[j]) \/ log'[j].pub = Never
        /\ cmd[o].after \in Nat /\ cmd[o].epoch \in Nat /\ cmd[o].after <= n /\ cmd[o].epoch <= cmd[o].after + 1
        /\ client'.epoch \in {client.epoch, cmd[o].epoch + 1, cmd[o].epoch}
    BY CommitLogs
  <2> HIDE DEF n, m
  <2>2. client'.epoch <= m + 1
    BY <2>1, <1>1
  <2>3. \A a \in Attempts : try'[a] # Idle => try'[a].epoch <= m + 1 /\ try'[a].seen <= m
    BY <2>1, <1>1
  <2>4. \A t \in tokens' : t.epoch <= m + 1 /\ t.seen <= m /\ t.exp <= now' + TokenTtl
    BY <2>1, <1>1
  <2>5. \A j \in DOMAIN log' : log'[j].pub <= now'
    BY <2>1, <1>1 DEF Never
  <2> QED BY <2>2, <2>3, <2>4, <2>5 DEF Dated, m
<1>3. CASE \E o \in Operators : Publish(o)
  <2> PICK o \in Operators : Publish(o)
    BY <1>3
  <2>1. /\ UNCHANGED <<now, client, try, tokens>> /\ m = n /\ DOMAIN log' = DOMAIN log
        /\ \A j \in DOMAIN log : log'[j] = log[j] \/ log'[j].pub = now
    BY PublishLogs
  <2> HIDE DEF n, m
  <2>2. \A j \in DOMAIN log' : log'[j].pub <= now'
    BY <2>1, <1>1
  <2> QED BY <2>1, <2>2, <1>1 DEF Dated, m
<1>4. CASE Calm
  <2>1. m = n /\ UNCHANGED <<client, log>> /\ (now' = now \/ now' = now + 1)
    BY <1>4 DEF Calm
  <2>2. \A a \in Attempts : try'[a] # Idle => try'[a].epoch <= n + 1 /\ try'[a].seen <= n
    BY <1>1, <1>4 DEF Calm, JustLoaded
  <2>3. now' \in Nat /\ now <= now' /\ now + TokenTtl <= now' + TokenTtl
    <3>1. now \in Nat /\ TokenTtl \in Nat
      BY <1>1
    <3> QED BY <2>1, <3>1
  <2>6. now + TokenTtl \in Nat /\ now' + TokenTtl \in Nat
    <3>1. now \in Nat /\ now' \in Nat /\ TokenTtl \in Nat
      BY <1>1, <2>3
    <3>2. \A x, y \in Nat : x + y \in Nat
      OBVIOUS
    <3> QED BY <3>1, <3>2
  <2>5. \A t \in tokens' : t.epoch <= n + 1 /\ t.seen <= n /\ t.exp <= now' + TokenTtl
    <3> TAKE t \in tokens'
    <3>1. t.epoch <= n + 1 /\ t.seen <= n /\ t.exp \in Nat /\ t.exp <= now + TokenTtl
      <4>1. CASE t \in tokens
        BY <4>1, <1>1
      <4>2. CASE \E a \in Attempts : MadeFrom(t, a)
        <5> PICK a \in Attempts : MadeFrom(t, a)
          BY <4>2
        <5>1. t.epoch = try[a].epoch /\ t.seen = try[a].seen /\ t.exp = now + TokenTtl /\ try[a] # Idle
          BY DEF MadeFrom
        <5>2. now + TokenTtl \in Nat /\ now + TokenTtl <= now + TokenTtl
          <6>1. now \in Nat /\ TokenTtl \in Nat
            BY <1>1
          <6> QED BY <6>1
        <5> QED BY <5>1, <5>2, <1>1
      <4> QED BY <4>1, <4>2, <1>4 DEF Calm
    <3> DEFINE u == now + TokenTtl
               v == now' + TokenTtl
    <3>2. u \in Nat /\ v \in Nat /\ u <= v /\ t.exp <= u /\ t.exp \in Nat
      <4> QED BY <2>3, <2>6, <3>1
    <3> HIDE DEF u, v
    <3>3. t.exp <= v
      BY <3>2
    <3> QED BY <3>1, <3>3 DEF v
  <2>4. \A j \in DOMAIN log' : log'[j].pub <= now'
    <3>1. \A j \in DOMAIN log : log[j].pub \in Int /\ log[j].pub <= now
      BY <1>1
    <3>2. now \in Nat
      BY <1>1
    <3> QED BY <2>1, <2>3, <3>1, <3>2
  <2> QED BY <2>1, <2>2, <2>4, <2>5, <1>1 DEF Dated
<1> QED BY <1>2, <1>3, <1>4, CalmOr

\* No two commands crossed when each of the commits says so.
LEMMA SerialIs ==
    log \in Seq(Change) => (Serial <=> \A i \in DOMAIN log : log[i].serial)
BY DEF Serial, SerialTo

\* The same of the state after a step.
LEMMA SerialWas ==
    log' \in Seq(Change) => (Serial' <=> \A i \in DOMAIN log' : log'[i].serial)
<1>1. (log \in Seq(Change) => (Serial <=> \A i \in DOMAIN log : log[i].serial))'
  BY SerialIs, PTL
<1> QED BY <1>1

\* Being serial does not depend on later commits and publications.
LEMMA SerialStays ==
    ASSUME log \in Seq(Change), NEW j \in DOMAIN log,
           \A i \in DOMAIN log : log'[i].serial = log[i].serial
    PROVE  SerialTo(j)' <=> SerialTo(j)
<1>1. \A i \in 1..j : i \in DOMAIN log
  OBVIOUS
<1> QED BY <1>1 DEF SerialTo

\* What was minted before a change keeps a lower epoch.
LEMMA RaisedKept ==
    AuthTyped /\ Numbered /\ Reads /\ Dated /\ Raised /\ AuthTyped' /\ [Next]_vars => Raised'
<1> SUFFICES ASSUME AuthTyped, Numbered, Reads, Dated, Raised, AuthTyped', [Next]_vars
             PROVE  Raised'
  OBVIOUS
<1>0. log \in Seq(Change) /\ log' \in Seq(Change)
  BY DEF AuthTyped
<1>s. Serial <=> \A i \in DOMAIN log : log[i].serial
  BY <1>0, SerialIs
<1>t. Serial' <=> \A i \in DOMAIN log' : log'[i].serial
  BY <1>0, SerialWas
<1>1. CASE \E o \in Operators : Commit(o)
  <2> PICK o \in Operators : Commit(o)
    BY <1>1
  <2> DEFINE n == Len(log)
             e == NewEpoch(cmd[o])
  <2>1. /\ UNCHANGED <<try, tokens>>
        /\ \A j \in DOMAIN log' : j \in DOMAIN log \/ j = n + 1
        /\ \A j \in DOMAIN log : j \in DOMAIN log' /\ log'[j] = log[j]
        /\ n + 1 \in DOMAIN log'
        /\ log'[n + 1].epoch = e /\ log'[n + 1].kind = cmd[o].kind
        /\ cmd[o].kind # "revoke" => e = cmd[o].epoch + 1
        /\ log'[n + 1].serial <=> cmd[o].after = n
        /\ cmd[o].after = n => cmd[o].epoch = client.epoch
        /\ e \in {cmd[o].epoch, cmd[o].epoch + 1} /\ cmd[o].epoch \in Nat
        /\ client'.epoch = IF e # cmd[o].epoch THEN e ELSE client.epoch
    BY CommitLogs
  <2>2. n \in Nat /\ DOMAIN log = 1..n /\ client.epoch \in Nat
    BY Numbers
  <2>3. ASSUME Serial'
        PROVE  Serial /\ cmd[o].after = n
    BY <1>s, <1>t, <2>1, <2>3
  <2>4. ASSUME Serial'
        PROVE  /\ client.epoch <= client'.epoch /\ client'.epoch \in Nat
               /\ cmd[o].kind # "revoke" => client.epoch < e
    <3> HIDE DEF n, e
    <3> QED BY <2>1, <2>2, <2>3, <2>4
  <2>5. ASSUME NEW j, j = n + 1, SerialTo(j)'
        PROVE  Serial'
    <3>1. \A i \in DOMAIN log' : i \in 1..j
      <4> HIDE DEF n
      <4> QED BY <2>1, <2>2, <2>5
    <3>2. \A i \in 1..j : log'[i].serial
      BY <2>5 DEF SerialTo
    <3> QED BY <1>t, <3>1, <3>2
  <2>6. \A j \in DOMAIN log : SerialTo(j)' <=> SerialTo(j)
    BY <1>0, <2>1, SerialStays
  <2>7. ASSUME Serial'
        PROVE  /\ \A a \in Attempts : try'[a] # Idle => try'[a].epoch <= client'.epoch
               /\ \A t \in tokens' : t.epoch <= client'.epoch
    BY <2>1, <2>2, <2>3, <2>4, <2>7, Numbers DEF Raised
  <2>8. ASSUME NEW j \in DOMAIN log', SerialTo(j)', log'[j].kind # "revoke"
        PROVE  /\ \A a \in Attempts : (try'[a] # Idle /\ j > try'[a].seen) => try'[a].epoch < log'[j].epoch
               /\ \A t \in tokens' : j > t.seen => t.epoch < log'[j].epoch
    <3>1. CASE j \in DOMAIN log
      BY <2>1, <2>6, <2>8, <3>1 DEF Raised
    <3>2. CASE j = n + 1
      <4>1. Serial'
        BY <2>5, <2>8, <3>2
      <4>2. log'[j].epoch = e /\ client.epoch < e /\ e \in Nat
        <5>1. e \in Nat
          <6> HIDE DEF e
          <6> QED BY <2>1
        <5> QED BY <2>1, <2>4, <2>8, <3>2, <4>1, <5>1
      <4>3. /\ \A a \in Attempts : try[a] # Idle => try[a].epoch \in Nat /\ try[a].epoch <= client.epoch
            /\ \A t \in tokens : t.epoch \in Nat /\ t.epoch <= client.epoch
        BY <2>3, <4>1, Numbers DEF Raised
      <4> HIDE DEF e, n
      <4> QED BY <2>1, <2>2, <4>2, <4>3
    <3> QED BY <2>1, <3>1, <3>2
  <2> QED BY <2>7, <2>8 DEF Raised
<1>2. CASE \E o \in Operators : Publish(o)
  <2> PICK o \in Operators : Publish(o)
    BY <1>2
  <2>1. /\ UNCHANGED <<client, try, tokens>> /\ DOMAIN log' = DOMAIN log
        /\ \A j \in DOMAIN log : /\ log'[j].epoch = log[j].epoch /\ log'[j].kind = log[j].kind
                                 /\ log'[j].serial = log[j].serial
    BY PublishLogs
  <2>2. Serial' <=> Serial
    BY <1>s, <1>t, <2>1
  <2>3. \A j \in DOMAIN log : SerialTo(j)' <=> SerialTo(j)
    BY <1>0, <2>1, SerialStays
  <2> QED BY <2>1, <2>2, <2>3 DEF Raised
<1>3. CASE Calm
  <2>1. UNCHANGED <<client, log>>
    BY <1>3 DEF Calm
  <2>2. Serial' <=> Serial
    BY <1>s, <1>t, <2>1
  <2>3. \A j \in DOMAIN log : SerialTo(j)' <=> SerialTo(j)
    BY <1>0, <2>1, SerialStays
  <2>4. ASSUME NEW a \in Attempts, try'[a] # Idle
        PROVE  /\ Serial => try'[a].epoch <= client.epoch
               /\ \A j \in DOMAIN log : (SerialTo(j) /\ log[j].kind # "revoke" /\ j > try'[a].seen)
                                           => try'[a].epoch < log[j].epoch
    <3>1. CASE try'[a] = try[a]
      BY <3>1, <2>4 DEF Raised
    <3>2. CASE JustLoaded(a)
      <4>1. try'[a].epoch = client.epoch /\ try'[a].seen = Len(log)
        BY <3>2 DEF JustLoaded
      <4>2. \A j \in DOMAIN log : ~(j > Len(log))
        BY Numbers
      <4>3. client.epoch <= client.epoch
        BY Numbers
      <4> QED BY <4>1, <4>2, <4>3
    <3> QED BY <3>1, <3>2, <2>4, <1>3 DEF Calm
  <2>5. ASSUME NEW t \in tokens'
        PROVE  /\ Serial => t.epoch <= client.epoch
               /\ \A j \in DOMAIN log : (SerialTo(j) /\ log[j].kind # "revoke" /\ j > t.seen)
                                           => t.epoch < log[j].epoch
    <3>1. CASE t \in tokens
      BY <3>1 DEF Raised
    <3>2. CASE \E a \in Attempts : MadeFrom(t, a)
      BY <3>2 DEF Raised, MadeFrom
    <3> QED BY <3>1, <3>2, <1>3 DEF Calm
  <2> QED BY <2>1, <2>2, <2>3, <2>4, <2>5 DEF Raised
<1> QED BY <1>1, <1>2, <1>3, CalmOr

\* What was minted before a publication ends with its key.
LEMMA MintedBeforeKept ==
    AuthTyped /\ Numbered /\ Reads /\ Dated /\ MintedBefore /\ AuthTyped' /\ [Next]_vars => MintedBefore'
<1> SUFFICES ASSUME AuthTyped, Numbered, Reads, Dated, MintedBefore, AuthTyped', [Next]_vars
             PROVE  MintedBefore'
  OBVIOUS
<1>1. CASE \E o \in Operators : Commit(o)
  <2> PICK o \in Operators : Commit(o)
    BY <1>1
  <2>1. /\ UNCHANGED <<now, try, tokens>>
        /\ \A j \in DOMAIN log' : (j \in DOMAIN log /\ log'[j] = log[j]) \/ log'[j].pub = Never
    BY CommitLogs
  <2> QED BY <2>1 DEF MintedBefore
<1>2. CASE \E o \in Operators : Publish(o)
  <2> PICK o \in Operators : Publish(o)
    BY <1>2
  <2>1. /\ UNCHANGED <<now, try, tokens>> /\ DOMAIN log' = DOMAIN log
        /\ \A j \in DOMAIN log : log'[j] = log[j] \/ log'[j].pub = now
    BY PublishLogs
  <2>2. \A t \in tokens : t.exp <= now + TokenTtl
    BY DEF Dated
  <2> QED BY <2>1, <2>2 DEF MintedBefore
<1>3. CASE Calm
  <2>1. log' = log /\ \A j \in DOMAIN log : ~(j > Len(log))
    BY <1>3, Numbers DEF Calm
  <2>2. ASSUME NEW a \in Attempts, NEW j \in DOMAIN log, try'[a] # Idle, j > try'[a].seen, log[j].pub # Never
        PROVE  log[j].pub = now'
    <3>1. now' = now
      BY <1>3, <2>2 DEF Calm
    <3>2. CASE try'[a] = try[a]
      BY <3>1, <3>2, <2>2 DEF MintedBefore
    <3>3. CASE JustLoaded(a)
      BY <3>3, <2>1, <2>2 DEF JustLoaded
    <3> QED BY <3>2, <3>3, <2>2, <1>3 DEF Calm
  <2>3. ASSUME NEW t \in tokens', NEW j \in DOMAIN log, j > t.seen, log[j].pub # Never
        PROVE  t.exp <= log[j].pub + TokenTtl
    <3>1. CASE t \in tokens
      BY <3>1, <2>3 DEF MintedBefore
    <3>2. CASE \E a \in Attempts : MadeFrom(t, a)
      <4> PICK a \in Attempts : MadeFrom(t, a)
        BY <3>2
      <4>1. log[j].pub = now /\ t.exp = now + TokenTtl
        BY <2>3 DEF MadeFrom, MintedBefore
      <4> QED BY <4>1, Numbers
    <3> QED BY <3>1, <3>2, <1>3 DEF Calm
  <2> QED BY <2>1, <2>2, <2>3 DEF MintedBefore
<1> QED BY <1>1, <1>2, <1>3, CalmOr

\* Keys last as long as the tokens they refuse.
LEMMA KeysLastKept ==
    AuthTyped /\ Numbered /\ Reads /\ Dated /\ KeysLast /\ AuthTyped' /\ [Next]_vars => KeysLast'
<1> SUFFICES ASSUME AuthTyped, Numbered, Reads, Dated, KeysLast, AuthTyped', [Next]_vars
             PROVE  KeysLast'
  OBVIOUS
<1>1. CASE \E o \in Operators : Commit(o)
  <2> PICK o \in Operators : Commit(o)
    BY <1>1
  <2>1. /\ UNCHANGED keys
        /\ \A j \in DOMAIN log' : (j \in DOMAIN log /\ log'[j] = log[j]) \/ log'[j].pub = Never
    BY CommitLogs
  <2> QED BY <2>1 DEF KeysLast
<1>2. CASE \E o \in Operators : Publish(o)
  <2> PICK o \in Operators : Publish(o)
    BY <1>2
  <2> DEFINE c == cmd[o]
  <2>1. /\ DOMAIN log' = DOMAIN log /\ c.after \in DOMAIN log
        /\ \A j \in DOMAIN log : /\ log'[j].kind = log[j].kind /\ log'[j].sid = log[j].sid
                                 /\ j # c.after => log'[j] = log[j]
        /\ log'[c.after].pub = now /\ log[c.after].kind = c.kind /\ log[c.after].sid = c.sid
    BY PublishLogs
  <2>2. /\ keys'.epoch = [value |-> NewEpoch(c), until |-> now + TokenTtl]
        /\ keys'.revoked = IF c.kind = "revoke" THEN [keys.revoked EXCEPT ![c.sid] = now + TokenTtl]
                           ELSE keys.revoked
    BY PublishedShape
  <2>3. keys'.epoch.until = now + TokenTtl
    BY <2>2
  <2>4. keys.revoked \in [Sids -> Nat]
    BY DEF AuthTyped, KeySet
  <2>5. now \in Nat /\ TokenTtl \in Nat /\ \A j \in DOMAIN log : log[j].pub \in Int /\ log[j].pub <= now /\ log[j].sid \in Sids
    BY Numbers DEF Dated
  <2> HIDE DEF c
  <2>6. ASSUME NEW j \in DOMAIN log, log'[j].pub # Never
        PROVE  log'[j].pub + TokenTtl <= keys'.epoch.until
    <3>1. log'[j].pub \in Int /\ log'[j].pub <= now
      BY <2>1, <2>5
    <3> QED BY <3>1, <2>3, <2>5
  <2>7. ASSUME NEW j \in DOMAIN log, log'[j].pub # Never, log[j].kind = "revoke"
        PROVE  log'[j].pub + TokenTtl <= keys'.revoked[log[j].sid]
    <3>1. CASE c.kind = "revoke" /\ log[j].sid = c.sid
      <4>1. keys'.revoked[log[j].sid] = now + TokenTtl
        BY <2>2, <2>4, <2>5, <3>1
      <4>2. log'[j].pub \in Int /\ log'[j].pub <= now
        BY <2>1, <2>5
      <4> QED BY <4>1, <4>2, <2>5
    <3>2. CASE ~(c.kind = "revoke" /\ log[j].sid = c.sid)
      <4>1. keys'.revoked[log[j].sid] = keys.revoked[log[j].sid]
        BY <2>2, <2>4, <2>5, <3>2
      <4>2. log'[j] = log[j]
        BY <2>1, <2>7, <3>2
      <4> QED BY <4>1, <4>2, <2>7 DEF KeysLast
    <3> QED BY <3>1, <3>2
  <2> QED BY <2>1, <2>6, <2>7 DEF KeysLast
<1>3. CASE Calm
  BY <1>3 DEF Calm, KeysLast
<1> QED BY <1>1, <1>2, <1>3, CalmOr

\* The flag of a client that was switched off lasts as long, or it was switched on.
LEMMA FlagLastsKept ==
    AuthTyped /\ Numbered /\ Reads /\ Dated /\ FlagLasts /\ AuthTyped' /\ [Next]_vars => FlagLasts'
<1> SUFFICES ASSUME AuthTyped, Numbered, Reads, Dated, FlagLasts, AuthTyped', [Next]_vars
             PROVE  FlagLasts'
  OBVIOUS
<1>1. CASE \E o \in Operators : Commit(o)
  <2> PICK o \in Operators : Commit(o)
    BY <1>1
  <2>1. /\ UNCHANGED keys
        /\ \A j \in DOMAIN log' : (j \in DOMAIN log /\ log'[j] = log[j]) \/ log'[j].pub = Never
        /\ \A j \in DOMAIN log : j \in DOMAIN log' /\ log'[j] = log[j]
    BY CommitLogs
  <2> QED BY <2>1 DEF FlagLasts
<1>2. CASE \E o \in Operators : Publish(o)
  <2> PICK o \in Operators : Publish(o)
    BY <1>2
  <2> DEFINE c == cmd[o]
             k == log'
  <2>1. /\ DOMAIN k = DOMAIN log /\ c.after \in DOMAIN log
        /\ \A j \in DOMAIN log : k[j].kind = log[j].kind /\ (j # c.after => k[j] = log[j])
        /\ k[c.after].pub = now /\ log[c.after].kind = c.kind
    BY PublishLogs
  <2>2. keys'.disabled = CASE c.kind = "disable" -> now + TokenTtl [] c.kind = "enable" -> 0
                           [] OTHER -> keys.disabled
    BY PublishedShape
  <2>3. now \in Nat /\ TokenTtl \in Nat /\ keys.disabled \in Nat
        /\ \A j \in DOMAIN log : log[j].pub \in Int /\ log[j].pub <= now
    BY Numbers DEF Dated
  <2> HIDE DEF c, k
  <2>4. \A j \in DOMAIN log : k[j].pub \in Int /\ k[j].pub <= now /\ log[j].pub <= k[j].pub
    BY <2>1, <2>3
  <2>5. ASSUME NEW j \in DOMAIN log, k[j].kind = "disable", k[j].pub # Never
        PROVE  \/ \E i \in DOMAIN log : k[i].kind = "enable" /\ k[i].pub >= k[j].pub
               \/ k[j].pub + TokenTtl <= keys'.disabled
    <3>1. CASE c.kind = "enable"
      BY <2>1, <2>3, <2>4, <3>1
    <3>2. CASE c.kind = "disable"
      <4>1. keys'.disabled = now + TokenTtl
        BY <2>2, <3>2
      <4> QED BY <2>3, <2>4, <4>1
    <3>3. CASE c.kind # "enable" /\ c.kind # "disable"
      <4>1. keys'.disabled = keys.disabled
        BY <2>2, <3>3
      <4>2. k[j] = log[j]
        BY <2>1, <2>5, <3>3
      <4>3. \/ \E i \in DOMAIN log : log[i].kind = "enable" /\ log[i].pub >= log[j].pub
            \/ log[j].pub + TokenTtl <= keys.disabled
        BY <2>5, <4>2 DEF FlagLasts
      <4>4. \A i \in DOMAIN log : log[i].kind = "enable" => k[i] = log[i]
        BY <2>1, <3>3
      <4> QED BY <4>1, <4>2, <4>3, <4>4
    <3> QED BY <3>1, <3>2, <3>3
  <2> QED BY <2>1, <2>5 DEF FlagLasts, k
<1>3. CASE Calm
  BY <1>3 DEF Calm, FlagLasts
<1> QED BY <1>1, <1>2, <1>3, CalmOr

\* A revoked secret stays dead.
LEMMA DeadSecretsKept ==
    AuthTyped /\ Numbered /\ Reads /\ Dated /\ DeadSecrets /\ AuthTyped' /\ [Next]_vars => DeadSecrets'
<1> SUFFICES ASSUME AuthTyped, Numbered, Reads, Dated, DeadSecrets, AuthTyped', [Next]_vars
             PROVE  DeadSecrets'
  OBVIOUS
<1>1. CASE \E o \in Operators : Commit(o)
  <2> PICK o \in Operators : Commit(o)
    BY <1>1
  <2> DEFINE n == Len(log)
  <2>1. /\ UNCHANGED <<try, tokens, keys>>
        /\ \A j \in DOMAIN log' : j \in DOMAIN log \/ j = n + 1
        /\ \A j \in DOMAIN log : log'[j] = log[j]
        /\ log'[n + 1].kind = cmd[o].kind /\ log'[n + 1].sid = cmd[o].sid
    BY CommitLogs
  <2>2. /\ \A j \in DOMAIN secrets : j \in DOMAIN secrets' /\ (secrets[j].revoked => secrets'[j].revoked)
        /\ cmd[o].kind = "revoke" => secrets' = [secrets EXCEPT ![cmd[o].sid].revoked = TRUE]
    BY SecretsKept
  <2>3. cmd[o].kind = "revoke" => cmd[o].sid \in DOMAIN secrets' /\ secrets'[cmd[o].sid].revoked
    <3>1. cmd[o] \in Command /\ cmd[o] # Idle
      BY Committed, Commands
    <3>2. cmd[o].sid \in Sids /\ cmd[o].sid <= Len(secrets)
      BY <3>1 DEF Numbered, Command
    <3>3. cmd[o].sid \in DOMAIN secrets
      BY <3>2, Numbers, Sizes DEF Sids
    <3>4. secrets[cmd[o].sid] \in SecretRow
      BY <3>3 DEF AuthTyped
    <3> QED BY <3>3, <3>4, <2>2 DEF SecretRow
  <2>4. /\ \A a \in Attempts : try[a] # Idle => try[a].seen < n + 1
        /\ \A t \in tokens : t.seen < n + 1
    <3>1. n \in Nat /\ \A a \in Attempts : try[a] # Idle => try[a].seen \in Nat /\ try[a].seen <= n
      BY Numbers DEF Dated
    <3>2. \A t \in tokens : t.seen \in Nat /\ t.seen <= n
      BY Numbers DEF Dated
    <3> HIDE DEF n
    <3> QED BY <3>1, <3>2
  <2> HIDE DEF n
  <2>5. ASSUME NEW j \in DOMAIN log', log'[j].kind = "revoke"
        PROVE  /\ log'[j].sid \in DOMAIN secrets' /\ secrets'[log'[j].sid].revoked
               /\ \A a \in Attempts : (try[a] # Idle /\ try[a].ok /\ try[a].sid = log'[j].sid) => try[a].seen < j
               /\ \A t \in tokens : t.sid = log'[j].sid => t.seen < j
    <3>1. CASE j \in DOMAIN log
      BY <2>1, <2>2, <2>5, <3>1 DEF DeadSecrets
    <3>2. CASE j = n + 1
      BY <2>1, <2>3, <2>4, <2>5, <3>2
    <3> QED BY <2>1, <3>1, <3>2
  <2>6. \A i \in Sids : keys.revoked[i] > 0 => i \in DOMAIN secrets' /\ secrets'[i].revoked
    BY <2>2 DEF DeadSecrets
  <2> QED BY <2>1, <2>5, <2>6 DEF DeadSecrets
<1>2. CASE \E o \in Operators : Publish(o)
  <2> PICK o \in Operators : Publish(o)
    BY <1>2
  <2>1. /\ UNCHANGED <<secrets, try, tokens>> /\ DOMAIN log' = DOMAIN log
        /\ \A j \in DOMAIN log : log'[j].kind = log[j].kind /\ log'[j].sid = log[j].sid
        /\ cmd[o].after \in DOMAIN log
        /\ log[cmd[o].after].kind = cmd[o].kind /\ log[cmd[o].after].sid = cmd[o].sid
    BY PublishLogs
  <2>2. keys'.revoked = IF cmd[o].kind = "revoke" THEN [keys.revoked EXCEPT ![cmd[o].sid] = now + TokenTtl]
                        ELSE keys.revoked
    BY PublishedShape
  <2>3. keys.revoked \in [Sids -> Nat]
    BY DEF AuthTyped, KeySet
  <2>4. ASSUME NEW i \in Sids, keys'.revoked[i] > 0
        PROVE  i \in DOMAIN secrets /\ secrets[i].revoked
    <3>1. CASE cmd[o].kind = "revoke" /\ i = cmd[o].sid
      BY <2>1, <3>1 DEF DeadSecrets
    <3>2. CASE ~(cmd[o].kind = "revoke" /\ i = cmd[o].sid)
      <4>1. keys'.revoked[i] = keys.revoked[i]
        BY <2>2, <2>3, <3>2
      <4> QED BY <2>4, <4>1 DEF DeadSecrets
    <3> QED BY <3>1, <3>2
  <2> QED BY <2>1, <2>4 DEF DeadSecrets
<1>3. CASE Calm
  <2>1. UNCHANGED <<secrets, log>> /\ keys'.revoked = keys.revoked
    BY <1>3 DEF Calm
  <2>2. ASSUME NEW j \in DOMAIN log, log[j].kind = "revoke"
        PROVE  /\ \A a \in Attempts : (try'[a] # Idle /\ try'[a].ok /\ try'[a].sid = log[j].sid) => try'[a].seen < j
               /\ \A t \in tokens' : t.sid = log[j].sid => t.seen < j
    <3>1. secrets[log[j].sid].revoked
      BY <2>2 DEF DeadSecrets
    <3>2. ASSUME NEW a \in Attempts, try'[a] # Idle, try'[a].ok, try'[a].sid = log[j].sid
          PROVE  try'[a].seen < j
      <4>1. try'[a] = try[a] \/ JustLoaded(a)
        BY <1>3, <3>2 DEF Calm
      <4>2. ~JustLoaded(a)
        BY <3>1, <3>2 DEF JustLoaded, Live
      <4> QED BY <4>1, <4>2, <3>2, <2>2 DEF DeadSecrets
    <3>3. ASSUME NEW t \in tokens', t.sid = log[j].sid
          PROVE  t.seen < j
      <4>1. CASE t \in tokens
        BY <4>1, <3>3, <2>2 DEF DeadSecrets
      <4>2. CASE \E a \in Attempts : MadeFrom(t, a)
        BY <4>2, <3>3, <2>2 DEF DeadSecrets, MadeFrom
      <4> QED BY <4>1, <4>2, <1>3 DEF Calm
    <3> QED BY <3>2, <3>3
  <2> QED BY <2>1, <2>2 DEF DeadSecrets
<1> QED BY <1>1, <1>2, <1>3, CalmOr

--------------------------------------------------------------------------------
(* Commands that run alone. *)

\* How a step changes the commands.
LEMMA CommandSteps ==
    ASSUME AuthTyped, Numbered, Reads, [Next]_vars
    PROVE  \/ \E o \in Operators, k \in Kinds, i \in DOMAIN secrets : Begin(o, k, i)
           \/ \E o \in Operators : Commit(o) \/ Publish(o)
           \/ \E o \in Operators : PublishFails(o)
           \/ /\ UNCHANGED <<client, secrets, cmd, log>>
              /\ keys'.epoch = keys.epoch /\ keys'.disabled = keys.disabled
<1>1. ASSUME \E a \in Attempts : \E i \in {0} \cup DOMAIN secrets : Ask(a, i) \/ AskDegraded(a, i)
      PROVE  /\ UNCHANGED <<client, secrets, cmd, log>>
             /\ keys'.epoch = keys.epoch /\ keys'.disabled = keys.disabled
  BY <1>1, Asked
<1>2. ASSUME \E a \in Attempts : Deny(a) \/ Mint(a)
      PROVE  /\ UNCHANGED <<client, secrets, cmd, log>>
             /\ keys'.epoch = keys.epoch /\ keys'.disabled = keys.disabled
  <2>1. UNCHANGED <<client, secrets, cmd, log>>
    BY <1>2 DEF Deny, Mint
  <2> QED BY <1>2, <2>1, Denied, Minted
<1>3. ASSUME AuthTick \/ Elsewhere
      PROVE  /\ UNCHANGED <<client, secrets, cmd, log>>
             /\ keys'.epoch = keys.epoch /\ keys'.disabled = keys.disabled
  BY <1>3 DEF AuthTick, Elsewhere
<1> QED BY <1>1, <1>2, <1>3, AuthSteps, OneSecret DEF AuthStep, Kinds

\* The operator whose command ends.
LEMMA Ended ==
    ASSUME AuthTyped, Numbered, Reads, NEW o \in Operators, Publish(o) \/ PublishFails(o)
    PROVE  /\ cmd[o].pc = "committed" /\ cmd[o] \in Command
           /\ cmd'[o] = Idle /\ cmd'[o].pc = "idle"
           /\ \A x \in Operators : x # o => cmd'[x] = cmd[x]
           /\ UNCHANGED <<client, secrets>>
<1>1. cmd[o].pc = "committed" /\ cmd' = [cmd EXCEPT ![o] = Idle] /\ UNCHANGED <<client, secrets>>
  BY DEF Publish, PublishFails
<1>2. cmd'[o] = Idle /\ \A x \in Operators : x # o => cmd'[x] = cmd[x]
  BY <1>1 DEF AuthTyped
<1>3. cmd[o] \in Command
  BY <1>1, Commands
<1> QED BY <1>1, <1>2, <1>3 DEF Idle

\* The operator whose command commits.
LEMMA CommitsAs ==
    ASSUME AuthTyped, Numbered, Reads, NEW o \in Operators, Commit(o)
    PROVE  /\ cmd[o] \in Command /\ cmd[o] # Idle /\ cmd[o].pc = "read"
           /\ cmd'[o] \in Command /\ cmd'[o] # Idle /\ cmd'[o].pc = "committed" /\ cmd'[o].after = Len(log) + 1
           /\ cmd'[o].kind = cmd[o].kind /\ cmd'[o].alone = cmd[o].alone
           /\ NewEpoch(cmd'[o]) = NewEpoch(cmd[o])
           /\ \A x \in Operators : x # o => cmd'[x] = cmd[x]
<1>1. /\ cmd[o] \in Command /\ cmd[o].pc = "read" /\ cmd'[o] \in Command
      /\ cmd'[o] = [cmd[o] EXCEPT !.pc = "committed", !.after = Len(log) + 1]
      /\ \A x \in Operators : x # o => cmd'[x] = cmd[x]
  BY Committed
<1>2. /\ cmd'[o].pc = "committed" /\ cmd'[o].after = Len(log) + 1 /\ cmd'[o].kind = cmd[o].kind
      /\ cmd'[o].alone = cmd[o].alone /\ cmd'[o].done = cmd[o].done /\ cmd'[o].epoch = cmd[o].epoch
  BY <1>1 DEF Command
<1>3. cmd[o] # Idle
  BY <1>1, Commands
<1>4. cmd'[o] # Idle
  BY <1>2 DEF Idle
<1>5. NewEpoch(cmd'[o]) = NewEpoch(cmd[o])
  BY <1>2 DEF NewEpoch
<1> QED BY <1>1, <1>2, <1>3, <1>4, <1>5

\* No commit is published twice.
LEMMA UnpublishedKept ==
    AuthTyped /\ Numbered /\ Reads /\ Unpublished /\ [Next]_vars => Unpublished'
<1> SUFFICES ASSUME AuthTyped, Numbered, Reads, Unpublished, [Next]_vars
             PROVE  Unpublished'
  OBVIOUS
<1>1. ASSUME NEW o \in Operators, NEW k \in Kinds, NEW i \in DOMAIN secrets, Begin(o, k, i)
      PROVE  Unpublished'
  <2>1. log' = log /\ cmd'[o].pc = "read"
    BY <1>1, Began DEF Begin
  <2>2. \A x \in Operators : cmd'[x].pc = "committed" =>
            cmd[x].pc = "committed" /\ cmd'[x].after = cmd[x].after
    <3> TAKE x \in Operators
    <3>1. CASE x = o
      BY <2>1, <3>1
    <3>2. CASE x # o /\ cmd[x] = Idle
      <4>1. cmd'[x] = Idle
        BY <1>1, <3>2, Began
      <4> QED BY <4>1 DEF Idle
    <3>3. CASE x # o /\ cmd[x] # Idle
      <4>1. SameButShared(cmd'[x], cmd[x])
        BY <1>1, <3>3, Began
      <4> QED BY <4>1 DEF SameButShared
    <3> QED BY <3>1, <3>2, <3>3
  <2> QED BY <2>1, <2>2 DEF Unpublished
<1>2. ASSUME NEW o \in Operators, Commit(o)
      PROVE  Unpublished'
  <2>1. /\ cmd'[o].pc = "committed" /\ cmd'[o].after = Len(log) + 1
        /\ \A x \in Operators : x # o => cmd'[x] = cmd[x]
    BY <1>2, CommitsAs
  <2>2. /\ \A j \in DOMAIN log : log'[j] = log[j]
        /\ log'[Len(log) + 1].pub = Never
    BY <1>2, CommitLogs
  <2>3. \A x \in Operators : (x # o /\ cmd[x].pc = "committed") => cmd[x].after \in DOMAIN log /\ cmd[x].after # Len(log) + 1
    <3>1. \A j \in DOMAIN log : j # Len(log) + 1
      BY Numbers
    <3> QED BY <3>1 DEF Reads
  <2> QED BY <2>1, <2>2, <2>3 DEF Unpublished
<1>3. ASSUME NEW o \in Operators, Publish(o)
      PROVE  Unpublished'
  <2>1. cmd[o].pc = "committed" /\ cmd'[o].pc = "idle" /\ \A x \in Operators : x # o => cmd'[x] = cmd[x]
    BY <1>3, Ended
  <2>2. \A j \in DOMAIN log : j # cmd[o].after => log'[j] = log[j]
    BY <1>3, PublishLogs
  <2>3. \A x \in Operators : cmd[x].pc = "committed" => cmd[x].after \in DOMAIN log
    BY DEF Reads
  <2> QED BY <2>1, <2>2, <2>3 DEF Unpublished
<1>4. ASSUME NEW o \in Operators, PublishFails(o)
      PROVE  Unpublished'
  <2>1. cmd'[o].pc = "idle" /\ \A x \in Operators : x # o => cmd'[x] = cmd[x]
    BY <1>4, Ended
  <2>2. log' = log
    BY <1>4 DEF PublishFails
  <2> QED BY <2>1, <2>2 DEF Unpublished
<1>5. CASE UNCHANGED <<cmd, log>>
  BY <1>5 DEF Unpublished
<1> QED BY <1>1, <1>2, <1>3, <1>4, <1>5, CommandSteps

\* Commands that know they are alone.
Alone == \A o, x \in Operators : (cmd[o] # Idle /\ cmd[o].alone /\ x # o) => cmd[x] = Idle
AsRead ==
    \A o \in Operators : (cmd[o] # Idle /\ cmd[o].alone) =>
        IF cmd[o].pc = "read" THEN cmd[o].epoch = client.epoch /\ cmd[o].active = client.active
        ELSE /\ NewEpoch(cmd[o]) = client.epoch
             /\ cmd[o].kind = "disable" => ~client.active
Follows ==
    /\ keys.epoch.value <= client.epoch
    /\ (client.active /\ keys.disabled > 0) =>
          \E o \in Operators : cmd[o].pc = "committed" /\ cmd[o].kind = "enable"

\* KeysFollow, in parts.
LEMMA KeysFollowIs == KeysFollow <=> Alone /\ AsRead /\ (OrderlySoFar => Follows)
BY DEF KeysFollow, Alone, AsRead, Follows

\* A command that is alone finds the row as it read it.
LEMMA AloneKept ==
    ASSUME AuthTyped, Numbered, Reads, Alone, AsRead, [Next]_vars
    PROVE  Alone' /\ AsRead'
<1>1. ASSUME NEW o \in Operators, NEW k \in Kinds, NEW i \in DOMAIN secrets, Begin(o, k, i)
      PROVE  Alone' /\ AsRead'
  <2>1. /\ cmd'[o].pc = "read" /\ cmd'[o].epoch = client.epoch /\ cmd'[o].active = client.active
        /\ cmd'[o].alone = Quiet /\ UNCHANGED client
    BY <1>1, Began DEF Begin
  <2>2. \A x \in Operators : x # o => (cmd[x] = Idle => cmd'[x] = Idle) /\ (cmd'[x] # Idle => ~cmd'[x].alone)
    BY <1>1, Began, ZenonT(60) DEF SameButShared
  <2> QED BY <2>1, <2>2 DEF Alone, AsRead, Quiet
<1>2. ASSUME NEW o \in Operators, Commit(o)
      PROVE  Alone' /\ AsRead'
  <2> DEFINE c == cmd[o]
  <2>1. /\ c \in Command /\ c # Idle /\ c.pc = "read"
        /\ cmd'[o] # Idle /\ cmd'[o].pc = "committed" /\ cmd'[o].kind = c.kind /\ cmd'[o].alone = c.alone
        /\ NewEpoch(cmd'[o]) = NewEpoch(c)
        /\ \A x \in Operators : x # o => cmd'[x] = cmd[x]
    BY <1>2, CommitsAs
  <2>2. client'.epoch = IF NewEpoch(c) # c.epoch THEN NewEpoch(c) ELSE client.epoch
    BY <1>2, CommitLogs
  <2>3. c.alone /\ c.kind = "disable" => ~client'.active
    <3>1. client' = [active |-> client'.active, epoch |-> client'.epoch] /\ c.active \in BOOLEAN
      BY <2>1, <1>2 DEF Commit, Command
    <3>2. ASSUME c.alone, c.kind = "disable"
          PROVE  ~client'.active
      <4>1. c.active = client.active
        BY <2>1, <3>2 DEF AsRead
      <4>2. client'.active = (IF FALSE # c.active THEN FALSE ELSE client.active)
        BY <1>2, <3>2 DEF Commit
      <4> QED BY <4>1, <4>2, <3>1
    <3> QED BY <3>2
  <2>4. c.alone => NewEpoch(c) = client'.epoch
    BY <2>1, <2>2 DEF AsRead
  <2> HIDE DEF c
  <2>5. Alone'
    BY <2>1 DEF Alone, c
  <2>6. AsRead'
    <3> SUFFICES ASSUME NEW x \in Operators, cmd'[x] # Idle, cmd'[x].alone
                 PROVE  IF cmd'[x].pc = "read" THEN cmd'[x].epoch = client'.epoch /\ cmd'[x].active = client'.active
                        ELSE /\ NewEpoch(cmd'[x]) = client'.epoch
                             /\ cmd'[x].kind = "disable" => ~client'.active
      BY DEF AsRead, NewEpoch
    <3>1. CASE x = o
      BY <2>1, <2>3, <2>4, <3>1
    <3>2. CASE x # o
      BY <2>1, <3>2 DEF Alone, c
    <3> QED BY <3>1, <3>2
  <2> QED BY <2>5, <2>6
<1>3. ASSUME NEW o \in Operators, Publish(o) \/ PublishFails(o)
      PROVE  Alone' /\ AsRead'
  <2>1. cmd'[o] = Idle /\ (\A x \in Operators : x # o => cmd'[x] = cmd[x]) /\ UNCHANGED client
    BY <1>3, Ended
  <2>2. Alone'
    BY <2>1 DEF Alone
  <2>3. AsRead'
    BY <2>1 DEF AsRead, NewEpoch
  <2> QED BY <2>2, <2>3
<1>4. CASE UNCHANGED <<client, cmd>>
  BY <1>4 DEF Alone, AsRead, NewEpoch
<1> QED BY <1>1, <1>2, <1>3, <1>4, CommandSteps

\* After orderly commands the keys are those of the last one.
LEMMA FollowsKept ==
    ASSUME AuthTyped, Numbered, Reads, Unpublished, Alone, AsRead, OrderlySoFar => Follows,
           OrderlySoFar', [Next]_vars
    PROVE  Follows'
<1>0. keys.epoch.value \in Nat /\ keys.disabled \in Nat /\ client.epoch \in Nat
  BY Numbers
<1>1. ASSUME NEW o \in Operators, NEW k \in Kinds, NEW i \in DOMAIN secrets, Begin(o, k, i)
      PROVE  Follows'
  <2>1. UNCHANGED <<client, keys, log>>
    BY <1>1 DEF Begin
  <2>2. \A x \in Operators : cmd'[x].pc = "committed" => ~cmd'[x].alone
    <3> TAKE x \in Operators
    <3>1. CASE x = o
      BY <1>1, <3>1, Began
    <3>2. CASE x # o /\ cmd[x] = Idle
      <4>1. cmd'[x] = Idle
        BY <1>1, <3>2, Began
      <4> QED BY <4>1 DEF Idle
    <3>3. CASE x # o /\ cmd[x] # Idle
      <4>1. SameButShared(cmd'[x], cmd[x])
        BY <1>1, <3>3, Began
      <4> QED BY <4>1 DEF SameButShared
    <3> QED BY <3>1, <3>2, <3>3
  <2>3. Follows
    BY <2>1, <2>2 DEF OrderlySoFar
  <2>4. \A x \in Operators : cmd[x].pc = "committed" => cmd'[x].pc = "committed" /\ cmd'[x].kind = cmd[x].kind
    <3> TAKE x \in Operators
    <3> HAVE cmd[x].pc = "committed"
    <3>1. x # o /\ cmd[x] # Idle
      <4>1. cmd[o] = Idle /\ Idle.pc = "idle"
        BY <1>1, Began DEF Idle
      <4> QED BY <4>1
    <3>2. SameButShared(cmd'[x], cmd[x])
      BY <1>1, <3>1, Began
    <3> QED BY <3>2 DEF SameButShared
  <2> QED BY <2>1, <2>3, <2>4 DEF Follows
<1>2. ASSUME NEW o \in Operators, Commit(o)
      PROVE  Follows'
  <2> DEFINE c == cmd[o]
             n == Len(log)
  <2>1. /\ c \in Command /\ c # Idle /\ c.pc = "read" /\ cmd'[o].pc = "committed" /\ cmd'[o].after = n + 1
        /\ cmd'[o].kind = c.kind /\ cmd'[o].alone = c.alone
        /\ \A x \in Operators : x # o => cmd'[x] = cmd[x]
    BY <1>2, CommitsAs
  <2>2. /\ UNCHANGED keys /\ n + 1 \in DOMAIN log' /\ log'[n + 1].pub = Never
        /\ \A j \in DOMAIN log : j \in DOMAIN log' /\ log'[j] = log[j] /\ j # n + 1
        /\ NewEpoch(c) \in {c.epoch, c.epoch + 1}
        /\ client'.epoch = IF NewEpoch(c) # c.epoch THEN NewEpoch(c) ELSE client.epoch
    BY <1>2, CommitLogs, Numbers
  <2>3. \A x \in Operators : cmd[x].pc = "committed" => cmd[x].after # n + 1
    BY <2>2 DEF Reads
  <2>4. c.alone
    <3>1. PICK x \in Operators : cmd'[x].pc = "committed" /\ cmd'[x].after = n + 1 /\ cmd'[x].alone
      BY <2>2 DEF OrderlySoFar
    <3> HIDE DEF c, n
    <3>2. x = o
      BY <2>1, <2>3, <3>1
    <3> QED BY <2>1, <3>1, <3>2
  <2>5. \A x \in Operators : x # o => cmd[x] = Idle /\ cmd[x].pc = "idle"
    BY <2>1, <2>4 DEF Alone, Idle
  <2>6. OrderlySoFar
    <3>1. \A j \in DOMAIN log : log'[j].pub # Never /\ log'[j].alone
      <4> TAKE j \in DOMAIN log
      <4>1. \A x \in Operators : ~(cmd'[x].pc = "committed" /\ cmd'[x].after = j)
        <5> HIDE DEF c, n
        <5> QED BY <2>1, <2>2, <2>5
      <4> QED BY <4>1, <2>2 DEF OrderlySoFar
    <3> QED BY <3>1, <2>2 DEF OrderlySoFar
  <2>7. Follows /\ c.epoch = client.epoch /\ c.active = client.active
    BY <2>1, <2>4, <2>6 DEF AsRead
  <2>8. keys'.epoch.value <= client'.epoch
    <3>1. keys.epoch.value <= client.epoch
      BY <2>7 DEF Follows
    <3> HIDE DEF c
    <3> QED BY <1>0, <2>2, <2>7, <3>1
  <2>9. ~(client.active /\ keys.disabled > 0)
    <3>1. \A x \in Operators : cmd[x].pc # "committed"
      BY <2>1, <2>5
    <3> QED BY <3>1, <2>7 DEF Follows
  <2>10. CASE c.kind = "enable"
    BY <2>1, <2>8, <2>10 DEF Follows
  <2>11. CASE c.kind = "disable"
    <3>1. client'.active = (IF FALSE # c.active THEN FALSE ELSE client.active)
      BY <1>2, <2>11 DEF Commit
    <3>2. c.active \in BOOLEAN
      BY <2>1 DEF Command
    <3> QED BY <2>7, <2>8, <3>1, <3>2 DEF Follows
  <2>12. CASE c.kind \notin {"enable", "disable"}
    <3>1. client'.active = client.active
      BY <1>2, <2>12 DEF Commit
    <3> QED BY <2>2, <2>8, <2>9, <3>1 DEF Follows
  <2> QED BY <2>10, <2>11, <2>12
<1>3. ASSUME NEW o \in Operators, Publish(o)
      PROVE  Follows'
  <2> DEFINE c == cmd[o]
  <2>1. /\ c.pc = "committed" /\ c \in Command /\ c # Idle /\ cmd'[o].pc = "idle" /\ UNCHANGED client
        /\ \A x \in Operators : x # o => cmd'[x] = cmd[x]
    BY <1>3, Ended, Commands
  <2>2. /\ DOMAIN log' = DOMAIN log /\ c.after \in DOMAIN log
        /\ \A j \in DOMAIN log : j # c.after => log'[j] = log[j]
        /\ log'[c.after].alone = c.alone
    BY <1>3, PublishLogs
  <2>3. c.alone
    <3>1. \/ log'[c.after].alone
          \/ \E x \in Operators : cmd'[x].pc = "committed" /\ cmd'[x].alone
      BY <2>2 DEF OrderlySoFar
    <3> HIDE DEF c
    <3>2. ASSUME NEW x \in Operators, cmd'[x].pc = "committed", cmd'[x].alone
          PROVE  FALSE
      <4>1. x # o /\ cmd[x].alone /\ cmd[x].pc = "committed"
        BY <2>1, <3>2
      <4>2. cmd[x] # Idle
        BY <4>1 DEF Idle
      <4> QED BY <4>1, <4>2, <2>1 DEF Alone, c
    <3> QED BY <2>2, <3>1, <3>2
  <2>4. \A x \in Operators : x # o => cmd[x] = Idle /\ cmd[x].pc = "idle"
    BY <2>1, <2>3 DEF Alone, Idle
  <2>5. OrderlySoFar
    <3>1. ASSUME NEW j \in DOMAIN log, j # c.after
          PROVE  log[j].pub # Never /\ log[j].alone
      <4>1. \A x \in Operators : cmd'[x].pc # "committed"
        BY <2>1, <2>4
      <4> HIDE DEF c
      <4> QED BY <4>1, <2>2, <3>1 DEF OrderlySoFar
    <3> QED BY <2>1, <2>2, <2>3, <3>1 DEF OrderlySoFar
  <2>6. Follows /\ NewEpoch(c) = client.epoch /\ (c.kind = "disable" => ~client.active)
    BY <2>1, <2>3, <2>5 DEF AsRead
  <2>7. /\ keys'.epoch = [value |-> NewEpoch(c), until |-> now + TokenTtl]
        /\ keys'.disabled = CASE c.kind = "disable" -> now + TokenTtl
                              [] c.kind = "enable" -> 0
                              [] OTHER -> keys.disabled
    BY <1>3, PublishedShape
  <2>8. keys'.epoch.value <= client'.epoch
    <3>1. keys'.epoch.value = NewEpoch(c)
      BY <2>7
    <3> HIDE DEF c
    <3> QED BY <2>1, <2>6, <3>1, <1>0
  <2>9. ~(client'.active /\ keys'.disabled > 0)
    <3>1. CASE c.kind = "disable"
      BY <2>1, <2>6, <3>1
    <3>2. CASE c.kind = "enable"
      BY <2>7, <3>2
    <3>3. CASE c.kind \notin {"disable", "enable"}
      <4>1. keys'.disabled = keys.disabled
        BY <2>7, <3>3
      <4>2. \A x \in Operators : ~(cmd[x].pc = "committed" /\ cmd[x].kind = "enable")
        BY <2>4, <3>3
      <4> QED BY <2>1, <2>6, <4>1, <4>2 DEF Follows
    <3> QED BY <3>1, <3>2, <3>3
  <2> QED BY <2>8, <2>9 DEF Follows
<1>4. ASSUME NEW o \in Operators, PublishFails(o)
      PROVE  Follows'
  <2>1. /\ cmd[o].pc = "committed" /\ cmd[o] # Idle /\ cmd'[o].pc = "idle" /\ UNCHANGED <<client, keys, log>>
        /\ \A x \in Operators : x # o => cmd'[x] = cmd[x]
    <3>1. UNCHANGED <<keys, log>>
      BY <1>4 DEF PublishFails
    <3> QED BY <1>4, <3>1, Ended, Commands
  <2>2. \E x \in Operators : cmd'[x].pc = "committed" /\ cmd'[x].alone
    <3>1. cmd[o].after \in DOMAIN log /\ log[cmd[o].after].pub = Never
      BY <2>1 DEF Reads, Unpublished
    <3> QED BY <2>1, <3>1 DEF OrderlySoFar
  <2>3. PICK x \in Operators : cmd'[x].pc = "committed" /\ cmd'[x].alone
    BY <2>2
  <2>4. x # o /\ cmd[x].pc = "committed" /\ cmd[x].alone
    BY <2>1, <2>3
  <2>5. cmd[x] # Idle
    BY <2>4 DEF Idle
  <2> QED BY <2>1, <2>4, <2>5 DEF Alone
<1>5. ASSUME UNCHANGED <<client, cmd, log>>, keys'.epoch = keys.epoch, keys'.disabled = keys.disabled
      PROVE  Follows'
  <2>1. OrderlySoFar
    BY <1>5 DEF OrderlySoFar
  <2> QED BY <1>5, <2>1 DEF Follows
<1> QED BY <1>1, <1>2, <1>3, <1>4, <1>5, CommandSteps

\* The keys follow orderly commands.
LEMMA KeysFollowKept ==
    AuthTyped /\ Numbered /\ Reads /\ Unpublished /\ KeysFollow /\ [Next]_vars => KeysFollow'
<1> SUFFICES ASSUME AuthTyped, Numbered, Reads, Unpublished, KeysFollow, [Next]_vars
             PROVE  KeysFollow'
  OBVIOUS
<1>1. Alone /\ AsRead /\ (OrderlySoFar => Follows)
  BY KeysFollowIs
<1>2. Alone' /\ AsRead'
  BY <1>1, AloneKept
<1>3. OrderlySoFar' => Follows'
  BY <1>1, FollowsKept
<1>4. (KeysFollow <=> Alone /\ AsRead /\ (OrderlySoFar => Follows))'
  BY KeysFollowIs, PTL
<1> QED BY <1>2, <1>3, <1>4

\* The live secrets stay bounded.
LEMMA LiveBoundedKept ==
    AuthTyped /\ Numbered /\ Reads /\ LiveBounded /\ AuthTyped' /\ [Next]_vars => LiveBounded'
<1> SUFFICES ASSUME AuthTyped, Numbered, Reads, LiveBounded, AuthTyped', [Next]_vars, Serial'
             PROVE  Cardinality(Live') <= MaxLive
  BY DEF LiveBounded
<1>s. /\ Serial <=> \A j \in DOMAIN log : log[j].serial
      /\ \A j \in DOMAIN log' : log'[j].serial
  BY SerialIs, SerialWas DEF AuthTyped
<1>0. MaxLive \in Nat /\ IsFiniteSet(Live)
  <2>1. Live \subseteq 1..Len(secrets) /\ Len(secrets) \in Nat
    BY Numbers DEF Live
  <2>2. IsFiniteSet(1..Len(secrets))
    BY <2>1, FS_Interval
  <2> QED BY <2>1, <2>2, Sizes, FS_Subset
<1>1. ASSUME Serial, Live' \subseteq Live
      PROVE  Cardinality(Live') <= MaxLive
  <2>1. Cardinality(Live) \in Nat /\ Cardinality(Live) <= MaxLive
    BY <1>0, <1>1, FS_CardinalityType DEF LiveBounded
  <2>2. Cardinality(Live') \in Nat /\ Cardinality(Live') <= Cardinality(Live)
    BY <1>0, <1>1, FS_Subset, FS_CardinalityType
  <2> QED BY <1>0, <2>1, <2>2
<1>2. CASE \E o \in Operators : Commit(o)
  <2> PICK o \in Operators : Commit(o)
    BY <1>2
  <2> DEFINE c == cmd[o]
             n == Len(log)
  <2>1. Serial /\ c.after = n
    <3>1. /\ \A j \in DOMAIN log : j \in DOMAIN log' /\ log'[j] = log[j]
          /\ n + 1 \in DOMAIN log' /\ (log'[n + 1].serial <=> c.after = n)
      BY CommitLogs
    <3> HIDE DEF n, c
    <3> QED BY <1>s, <3>1
  <2>2. Live' \subseteq Live \cup (IF c.kind = "rotate" THEN {Len(secrets) + 1} ELSE {})
    BY <2>1, LiveGrows
  <2>3. CASE c.kind # "rotate"
    <3>1. Live' \subseteq Live
      BY <2>2, <2>3
    <3> QED BY <1>1, <2>1, <3>1
  <2>4. CASE c.kind = "rotate"
    <3>1. c \in Command /\ c # Idle /\ c.pc = "read"
      BY CommitsAs
    <3>2. Live \subseteq c.live /\ Cardinality(c.live) < MaxLive
      BY <2>1, <2>4, <3>1 DEF Reads
    <3>3. IsFiniteSet(c.live)
      <4>1. c.live \subseteq 1..MaxSecrets /\ MaxSecrets \in Nat
        BY <3>1, Sizes DEF Command, Sids
      <4>2. IsFiniteSet(1..MaxSecrets)
        <5>1. 1 \in Int /\ MaxSecrets \in Int
          BY <4>1
        <5> QED BY <5>1, FS_Interval
      <4> QED BY <4>1, <4>2, FS_Subset
    <3>4. Live' \subseteq c.live \cup {Len(secrets) + 1}
      BY <2>2, <2>4, <3>2
    <3>5. /\ IsFiniteSet(c.live \cup {Len(secrets) + 1})
          /\ Cardinality(c.live \cup {Len(secrets) + 1}) <= Cardinality(c.live) + 1
          /\ Cardinality(c.live) \in Nat
      <4>1. Cardinality(c.live) \in Nat
        BY <3>3, FS_CardinalityType
      <4>2. /\ IsFiniteSet(c.live \cup {Len(secrets) + 1})
            /\ Cardinality(c.live \cup {Len(secrets) + 1}) \in {Cardinality(c.live), Cardinality(c.live) + 1}
        BY <3>3, FS_AddElement
      <4> QED BY <4>1, <4>2
    <3>6. Cardinality(Live') <= Cardinality(c.live \cup {Len(secrets) + 1}) /\ Cardinality(Live') \in Nat
          /\ Cardinality(c.live \cup {Len(secrets) + 1}) \in Nat
      BY <3>4, <3>5, FS_Subset, FS_CardinalityType
    <3> DEFINE p == Cardinality(c.live)
               q == Cardinality(c.live \cup {Len(secrets) + 1})
               r == Cardinality(Live')
    <3>7. p \in Nat /\ q \in Nat /\ r \in Nat /\ p < MaxLive /\ q <= p + 1 /\ r <= q
      BY <3>2, <3>5, <3>6
    <3> HIDE DEF p, q, r
    <3>8. r <= MaxLive
      BY <1>0, <3>7
    <3> QED BY <3>8 DEF r
  <2> QED BY <2>3, <2>4
<1>3. CASE \E o \in Operators : Publish(o)
  <2> PICK o \in Operators : Publish(o)
    BY <1>3
  <2>1. /\ UNCHANGED <<now, secrets>> /\ DOMAIN log' = DOMAIN log
        /\ \A j \in DOMAIN log : log'[j].serial = log[j].serial
    BY PublishLogs
  <2>2. Serial
    BY <1>s, <2>1
  <2>3. Live' \subseteq Live
    BY <2>1 DEF Live
  <2> QED BY <1>1, <2>2, <2>3
<1>4. CASE Calm
  <2>1. UNCHANGED <<secrets, log>> /\ (now' = now \/ now' = now + 1)
    BY <1>4 DEF Calm
  <2>2. now' \in Nat /\ now <= now'
    BY <2>1, Numbers
  <2>3. Live' \subseteq Live
    BY <2>1, <2>2, LiveShrinks
  <2>4. Serial
    BY <1>s, <2>1
  <2> QED BY <1>1, <2>3, <2>4
<1> QED BY <1>2, <1>3, <1>4, CalmOr

--------------------------------------------------------------------------------
(* Wrong secrets. *)

\* Attempts are finitely many.
LEMMA Tryers ==
    /\ IsFiniteSet(Trying) /\ Cardinality(Trying) \in Nat
    /\ Cardinality(Attempts) \in Nat /\ Cardinality(Trying) <= Cardinality(Attempts)
<1>1. Trying \subseteq Attempts /\ IsFiniteSet(Attempts)
  BY Sizes DEF Trying
<1> QED BY <1>1, FS_Subset, FS_CardinalityType

\* What is kept of each wrong secret while it counts, k attempts being under way.
WindowOf(i, k) ==
    now < tries[i] + FailureBlock =>
        /\ now < keys.fail.until
        /\ Len(tries) - i + 1 <= keys.fail.n
        /\ Len(tries) - i + 1 + k <= FailureLimit - 1 + Cardinality(Attempts)

\* Windows, secret by secret.
LEMMA WindowsAre ==
    Windows <=> /\ \A i, j \in DOMAIN tries : i <= j => tries[i] <= tries[j]
                /\ \A i \in DOMAIN tries : tries[i] <= now
                /\ \A i \in DOMAIN tries : WindowOf(i, Cardinality(Trying))
                /\ \A i \in DOMAIN tries : tries[i] + FailureBlock <= keys.fail.until
BY DEF Windows, WindowOf

\* What is a number among the failures.
LEMMA TryTypes ==
    ASSUME AuthTyped
    PROVE  /\ tries \in Seq(0..MaxNow) /\ Len(tries) \in Nat /\ DOMAIN tries = 1..Len(tries)
           /\ \A i \in DOMAIN tries : tries[i] \in Nat
           /\ keys.fail.until \in Nat /\ keys.fail.n \in Nat /\ now \in Nat
           /\ FailureBlock \in Nat \ {0} /\ FailureLimit \in Nat \ {0}
<1>1. tries \in Seq(0..MaxNow)
  BY DEF AuthTyped
<1>2. Len(tries) \in Nat /\ DOMAIN tries = 1..Len(tries) /\ \A i \in DOMAIN tries : tries[i] \in 0..MaxNow
  <2> DEFINE T == 0..MaxNow
  <2>1. tries \in Seq(T)
    BY <1>1
  <2> HIDE DEF T
  <2>2. Len(tries) \in Nat /\ DOMAIN tries = 1..Len(tries) /\ \A i \in DOMAIN tries : tries[i] \in T
    BY <2>1
  <2> QED BY <2>2 DEF T
<1>3. \A i \in DOMAIN tries : tries[i] \in Nat
  BY <1>2, Sizes
<1>4. keys.fail.until \in Nat /\ keys.fail.n \in Nat
  BY DEF AuthTyped, KeySet
<1> QED BY <1>1, <1>2, <1>3, <1>4, Numbers, Sizes

\* A step that verifies nothing: the clock may move, attempts may be answered.
LEMMA WindowsStay ==
    ASSUME AuthTyped, Windows, VerificationsBounded, UNCHANGED <<keys, tries>>,
           now' \in Nat, now <= now', Cardinality(Trying') <= Cardinality(Trying), Cardinality(Trying') \in Nat
    PROVE  Windows' /\ VerificationsBounded'
<1> DEFINE k == Cardinality(Trying)
           l == Cardinality(Trying')
           h == Cardinality(Attempts)
<1>1. k \in Nat /\ l \in Nat /\ l <= k /\ h \in Nat
  BY Tryers
<1>2. ASSUME NEW i \in DOMAIN tries, now' < tries[i] + FailureBlock
      PROVE  /\ now' < keys.fail.until
             /\ Len(tries) - i + 1 <= keys.fail.n
             /\ Len(tries) - i + 1 + l <= FailureLimit - 1 + h
  <2>1. now < tries[i] + FailureBlock /\ now \in Nat /\ tries[i] \in Nat /\ FailureBlock \in Nat
        /\ keys.fail.until \in Nat /\ Len(tries) \in Nat /\ i \in Nat /\ FailureLimit \in Nat
    BY <1>2, TryTypes
  <2>2. /\ Len(tries) - i + 1 <= keys.fail.n
        /\ Len(tries) - i + 1 + k <= FailureLimit - 1 + h
        /\ tries[i] + FailureBlock <= keys.fail.until
    BY <2>1 DEF Windows
  <2> HIDE DEF k, l, h
  <2>3. now' < keys.fail.until
    BY SMTT(30), <1>2, <2>1, <2>2
  <2>4. Len(tries) - i + 1 + l <= FailureLimit - 1 + h
    <3> DEFINE n == Len(tries)
    <3>1. n \in Nat /\ n - i + 1 + k <= FailureLimit - 1 + h
      BY <2>1, <2>2
    <3> HIDE DEF n
    <3>2. n - i + 1 + l <= FailureLimit - 1 + h
      BY <1>1, <2>1, <3>1, SMTT(30)
    <3> QED BY <3>2 DEF n
  <2> QED BY <2>2, <2>3, <2>4
<1>3. \A i \in DOMAIN tries : tries[i] <= now'
  <2>1. \A i \in DOMAIN tries : tries[i] <= now /\ tries[i] \in Nat
    BY TryTypes DEF Windows
  <2> QED BY <2>1, TryTypes
<1> HIDE DEF k, l, h
<1>4. Windows'
  BY <1>2, <1>3 DEF Windows, l, h
<1> QED BY <1>4 DEF VerificationsBounded

\* An attempt passes the limiter only below the limit.
LEMMA WindowsOpen ==
    ASSUME AuthTyped, Windows, VerificationsBounded, UNCHANGED <<now, keys, tries>>,
           Failures < FailureLimit, Cardinality(Trying') <= Cardinality(Attempts), Cardinality(Trying') \in Nat
    PROVE  Windows' /\ VerificationsBounded'
<1> DEFINE l == Cardinality(Trying')
           h == Cardinality(Attempts)
           n == Len(tries)
<1>1. l \in Nat /\ l <= h /\ h \in Nat
  BY Tryers
<1>2. ASSUME NEW i \in DOMAIN tries, now < tries[i] + FailureBlock
      PROVE  /\ now < keys.fail.until
             /\ n - i + 1 <= keys.fail.n
             /\ n - i + 1 + l <= FailureLimit - 1 + h
  <2>1. now < keys.fail.until /\ n - i + 1 <= keys.fail.n
    BY <1>2 DEF Windows
  <2>2. n \in Nat /\ i \in Nat /\ keys.fail.n \in Nat /\ keys.fail.until \in Nat /\ now \in Nat /\ FailureLimit \in Nat
    BY TryTypes
  <2>3. Failures = keys.fail.n
    BY <2>1, <2>2 DEF Failures
  <2> HIDE DEF l, h, n
  <2> QED BY <1>1, <2>1, <2>2, <2>3
<1> HIDE DEF l, h
<1>3. Windows'
  BY <1>2 DEF Windows, l, h
<1> QED BY <1>3 DEF VerificationsBounded

\* A refusal takes the place of the attempt among the tries.
LEMMA WindowsCount ==
    ASSUME AuthTyped, Windows, VerificationsBounded, now' = now, Failures \in Nat,
           keys'.fail = [n |-> Failures + 1, until |-> now + FailureBlock],
           \/ tries' = tries /\ Cardinality(Trying') = Cardinality(Trying)
           \/ tries' = Append(tries, now) /\ Cardinality(Trying') = Cardinality(Trying) - 1
              /\ Cardinality(Trying) >= 1
    PROVE  Windows' /\ VerificationsBounded'
<1> DEFINE k == Cardinality(Trying)
           l == Cardinality(Trying')
           h == Cardinality(Attempts)
           n == Len(tries)
           m == Len(tries')
<1>1. k \in Nat /\ h \in Nat /\ k <= h
  BY Tryers
<1>2. /\ n \in Nat /\ DOMAIN tries = 1..n /\ now \in Nat /\ FailureBlock \in Nat \ {0} /\ FailureLimit \in Nat \ {0}
      /\ keys.fail.until \in Nat /\ keys.fail.n \in Nat
      /\ \A i \in DOMAIN tries : tries[i] \in Nat
  BY TryTypes
<1>3. keys'.fail.n = Failures + 1 /\ keys'.fail.until = now + FailureBlock
  OBVIOUS
<1>4. \A i \in DOMAIN tries : now < tries[i] + FailureBlock => n - i + 1 <= Failures
  <2>1. \A i \in DOMAIN tries : now < tries[i] + FailureBlock => now < keys.fail.until /\ n - i + 1 <= keys.fail.n
    BY DEF Windows
  <2>2. now < keys.fail.until => Failures = keys.fail.n
    BY <1>2 DEF Failures
  <2> HIDE DEF n
  <2> QED BY <2>1, <2>2
<1>5. /\ \A i, j \in DOMAIN tries : i <= j => tries[i] <= tries[j]
      /\ \A i \in DOMAIN tries : tries[i] <= now
      /\ \A i \in DOMAIN tries : now < tries[i] + FailureBlock => n - i + 1 + k <= FailureLimit - 1 + h
      /\ \A i, j \in DOMAIN tries :
            (i <= j /\ tries[j] < tries[i] + FailureBlock) => j - i + 1 <= FailureLimit + h - 1
  BY DEF Windows, VerificationsBounded
<1>6. CASE tries' = tries /\ l = k
  <2>1. \A i \in DOMAIN tries : tries[i] + FailureBlock <= now + FailureBlock
    BY <1>2, <1>5
  <2>2. now < now + FailureBlock
    BY <1>2
  <2>3. \A i \in DOMAIN tries : now < tries[i] + FailureBlock => n - i + 1 <= Failures + 1
    <3> HIDE DEF n
    <3> QED BY <1>2, <1>4
  <2>4. Windows'
    BY <1>3, <1>5, <1>6, <2>1, <2>2, <2>3 DEF Windows
  <2> QED BY <1>6, <2>4 DEF VerificationsBounded
<1>7. CASE tries' = Append(tries, now) /\ l = k - 1 /\ k >= 1
  <2>1. /\ m = n + 1 /\ DOMAIN tries' = 1..(n + 1) /\ tries'[n + 1] = now
        /\ \A i \in 1..n : tries'[i] = tries[i]
    <3>1. tries \in Seq(0..MaxNow)
      BY TryTypes
    <3>2. now \in 0..MaxNow
      BY DEF AuthTyped
    <3> DEFINE T == 0..MaxNow
    <3>3. tries \in Seq(T) /\ now \in T
      BY <3>1, <3>2
    <3> HIDE DEF T
    <3>4. Append(tries, now) \in Seq(T)
      BY <3>3
    <3> QED BY <1>7, <3>3, <3>4
  <2> HIDE DEF k, l, h, n, m
  <2>2. \A i \in 1..(n + 1) : /\ i \in DOMAIN tries \/ i = n + 1
                              /\ i \in DOMAIN tries => i \in 1..n /\ tries'[i] = tries[i] /\ i < n + 1
    BY <1>2, <2>1
  <2>3. \A i \in 1..(n + 1) : tries'[i] \in Nat /\ tries'[i] <= now
    <3>1. \A i \in DOMAIN tries : tries[i] \in Nat /\ tries[i] <= now
      BY <1>2, <1>5
    <3>2. now \in Nat /\ now <= now
      BY <1>2
    <3> QED BY <2>1, <2>2, <3>1, <3>2
  <2>4. \A i, j \in 1..(n + 1) : i <= j => tries'[i] <= tries'[j]
    <3> TAKE i, j \in 1..(n + 1)
    <3> HAVE i <= j
    <3>1. CASE j = n + 1
      BY <2>1, <2>3, <3>1
    <3>2. CASE j \in DOMAIN tries
      <4>1. i \in DOMAIN tries
        BY <1>2, <3>2
      <4> QED BY <1>5, <2>2, <3>2, <4>1
    <3> QED BY <2>2, <3>1, <3>2
  <2>5. \A i \in 1..(n + 1) : now < tries'[i] + FailureBlock =>
            m - i + 1 <= Failures + 1 /\ m - i + 1 + l <= FailureLimit - 1 + h
    <3> TAKE i \in 1..(n + 1)
    <3> HAVE now < tries'[i] + FailureBlock
    <3>0. i \in Nat
      BY <1>2
    <3>1. CASE i = n + 1
      <4>1. m - i + 1 = 1
        BY <1>2, <2>1, <3>1
      <4> QED BY <1>1, <1>2, <1>7, <4>1
    <3>2. CASE i \in DOMAIN tries
      <4>1. n - i + 1 <= Failures /\ n - i + 1 + k <= FailureLimit - 1 + h
        BY <1>4, <1>5, <2>2, <3>2
      <4> QED BY <1>1, <1>2, <1>7, <2>1, <3>0, <4>1
    <3> QED BY <2>2, <3>1, <3>2
  <2>6. \A i \in 1..(n + 1) : tries'[i] + FailureBlock <= now + FailureBlock
    BY <1>2, <2>3
  <2>7. now < now + FailureBlock
    BY <1>2
  <2>8. \A i, j \in 1..(n + 1) :
            (i <= j /\ tries'[j] < tries'[i] + FailureBlock) => j - i + 1 <= FailureLimit + h - 1
    <3> TAKE i, j \in 1..(n + 1)
    <3> HAVE i <= j /\ tries'[j] < tries'[i] + FailureBlock
    <3>1. CASE j = n + 1
      <4>1. m - i + 1 + l <= FailureLimit - 1 + h /\ m = j /\ l = k - 1
        BY <1>7, <2>1, <2>5, <3>1
      <4>2. k >= 1
        BY <1>7
      <4>3. i \in Nat /\ j \in Nat
        BY <1>2
      <4> QED BY <1>1, <1>2, <4>1, <4>2, <4>3
    <3>2. CASE j \in DOMAIN tries
      <4>1. i \in DOMAIN tries
        BY <1>2, <3>2
      <4> QED BY <1>5, <2>2, <3>2, <4>1
    <3> QED BY <2>2, <3>1, <3>2
  <2>9. Windows'
    BY <1>3, <2>1, <2>3, <2>4, <2>5, <2>6, <2>7 DEF Windows, m, l, h
  <2>10. VerificationsBounded'
    BY <2>1, <2>8 DEF VerificationsBounded, h
  <2> QED BY <2>9, <2>10
<1> QED BY <1>6, <1>7

\* The failures of a block stay counted.
LEMMA WindowsKept ==
    AuthTyped /\ Numbered /\ Reads /\ Windows /\ VerificationsBounded /\ AuthTyped' /\ [Next]_vars
    => Windows' /\ VerificationsBounded'
<1> SUFFICES ASSUME AuthTyped, Numbered, Reads, Windows, VerificationsBounded, AuthTyped', [Next]_vars
             PROVE  Windows' /\ VerificationsBounded'
  OBVIOUS
<1>0. /\ Cardinality(Trying) \in Nat /\ IsFiniteSet(Trying) /\ now \in Nat
      /\ Cardinality(Trying) <= Cardinality(Trying) /\ now <= now
  BY Tryers, Numbers
<1>1. CASE UNCHANGED <<now, keys, tries, try>>
  <2>1. Trying' = Trying
    BY <1>1 DEF Trying
  <2> QED BY <1>0, <1>1, <2>1, WindowsStay
<1>2. ASSUME NEW o \in Operators, Publish(o)
      PROVE  Windows' /\ VerificationsBounded'
  <2>1. keys'.fail = keys.fail
    BY <1>2, PublishedShape
  <2>2. UNCHANGED <<now, try, tries>>
    BY <1>2 DEF Publish
  <2>3. Trying' = Trying
    BY <2>2 DEF Trying
  <2>4. Windows'
    BY <2>1, <2>2, <2>3 DEF Windows
  <2> QED BY <2>2, <2>4 DEF VerificationsBounded
<1>3. ASSUME NEW a \in Attempts, NEW i \in {0} \cup DOMAIN secrets, Ask(a, i) \/ AskDegraded(a, i)
      PROVE  Windows' /\ VerificationsBounded'
  <2>1. UNCHANGED <<now, keys, tries>> /\ try[a] = Idle
    BY <1>3, Asked
  <2>2. CASE try' = try
    BY <1>1, <2>1, <2>2
  <2>3. ASSUME Load(a, i, TRUE)
        PROVE  Windows' /\ VerificationsBounded'
    <3>1. try'[a].degraded /\ \A x \in Attempts : x # a => try'[x] = try[x]
      BY <2>3, Loaded
    <3>2. Trying' = Trying
      BY <2>1, <3>1 DEF Trying
    <3> QED BY <1>0, <2>1, <3>2, WindowsStay
  <2>4. ASSUME Load(a, i, FALSE), Failures < FailureLimit
        PROVE  Windows' /\ VerificationsBounded'
    <3>1. Cardinality(Trying') \in Nat /\ Cardinality(Trying') <= Cardinality(Attempts)
      <4>1. Trying' \subseteq Attempts /\ IsFiniteSet(Attempts)
        BY Sizes DEF Trying
      <4> QED BY <4>1, FS_Subset, FS_CardinalityType
    <3> QED BY <2>1, <2>4, <3>1, WindowsOpen
  <2> QED BY <1>3, <2>2, <2>3, <2>4, Asked
<1>4. ASSUME NEW a \in Attempts, Deny(a)
      PROVE  Windows' /\ VerificationsBounded'
  <2>1. /\ try[a] \in Attempt /\ Failures \in Nat
        /\ keys'.fail = [n |-> Failures + 1, until |-> now + FailureBlock]
        /\ tries' = IF try[a].degraded THEN tries ELSE Append(tries, now)
        /\ try' = [try EXCEPT ![a] = Idle]
    BY <1>4, Denied
  <2>2. now' = now
    BY <1>4 DEF Deny
  <2>3. Trying' = Trying \ {a}
    BY <2>1 DEF Trying, AuthTyped
  <2>4. a \in Trying <=> ~try[a].degraded
    <3>1. try[a] # Idle
      BY <2>1, Attempting DEF Attempt
    <3> QED BY <3>1 DEF Trying
  <2>5. CASE try[a].degraded
    <3>1. Trying' = Trying
      BY <2>3, <2>4, <2>5
    <3> QED BY <2>1, <2>2, <2>5, <3>1, WindowsCount
  <2>6. CASE ~try[a].degraded
    <3>1. Cardinality(Trying') = Cardinality(Trying) - 1
      BY <1>0, <2>3, <2>4, <2>6, FS_RemoveElement
    <3>2. Cardinality(Trying) >= 1
      <4>1. Cardinality(Trying) # 0
        BY <1>0, <2>4, <2>6, FS_EmptySet
      <4> QED BY <1>0, <4>1
    <3> QED BY <2>1, <2>2, <2>6, <3>1, <3>2, WindowsCount
  <2> QED BY <2>5, <2>6
<1>5. ASSUME NEW a \in Attempts, Mint(a)
      PROVE  Windows' /\ VerificationsBounded'
  <2>1. tries' = <<>>
    BY <1>5, Minted
  <2>2. DOMAIN tries' = {}
    BY <2>1
  <2> QED BY <2>2 DEF Windows, VerificationsBounded
<1>6. CASE AuthTick
  <2>1. UNCHANGED <<keys, tries, try>> /\ now' = now + 1
    BY <1>6 DEF AuthTick
  <2>2. Trying' = Trying
    BY <2>1 DEF Trying
  <2>3. now' \in Nat /\ now <= now'
    BY <1>0, <2>1
  <2> QED BY <1>0, <2>1, <2>2, <2>3, WindowsStay
<1>7. ASSUME \/ \E o \in Operators, k \in Kinds, i \in DOMAIN secrets : Begin(o, k, i)
             \/ \E o \in Operators : Commit(o) \/ PublishFails(o)
             \/ Elsewhere
      PROVE  UNCHANGED <<now, keys, tries, try>>
  BY <1>7 DEF Begin, Commit, PublishFails, Elsewhere
<1> QED BY <1>1, <1>2, <1>3, <1>4, <1>5, <1>6, <1>7, AuthSteps, OneSecret DEF AuthStep, Kinds

--------------------------------------------------------------------------------
\* A client starts with one secret, one token and no change.
LEMMA AuthStarts == Init => AuthInv
<1> SUFFICES ASSUME Init PROVE AuthInv
  OBVIOUS
<1>1. /\ now \in 0..MaxNow /\ now \in Nat /\ left \in Budgets /\ AuthInit
  <2>1. now = 0 \/ now = MaxNow
    BY DEF Init
  <2>2. now \in 0..MaxNow /\ now \in Nat
    BY <2>1, Sizes
  <2> QED BY <2>2 DEF Init
<1>2. /\ client = [active |-> TRUE, epoch |-> 1] /\ secrets = <<Secret>> /\ log = <<>> /\ tries = <<>>
      /\ cmd = [o \in Operators |-> Idle] /\ try = [a \in Attempts |-> Idle]
      /\ tokens = {[sid |-> 1, epoch |-> 1, seen |-> 0, exp |-> now + TokenTtl]}
      /\ keys = [epoch |-> [value |-> 0, until |-> 0], disabled |-> 0,
                 revoked |-> [i \in 1..MaxSecrets |-> 0], fail |-> [n |-> 0, until |-> 0]]
  BY <1>1 DEF AuthInit
<1>3. /\ Len(log) = 0 /\ DOMAIN log = {} /\ Len(tries) = 0 /\ DOMAIN tries = {}
      /\ Len(secrets) = 1 /\ DOMAIN secrets = {1} /\ secrets[1] = Secret
  <2>1. Len(secrets) = 1 /\ secrets[1] = Secret
    BY <1>2
  <2>2. DOMAIN secrets = {1}
    BY <1>2
  <2>3. Len(log) = 0 /\ DOMAIN log = {} /\ Len(tries) = 0 /\ DOMAIN tries = {}
    BY <1>2
  <2> QED BY <2>1, <2>2, <2>3
<1>4. AuthTyped
  <2>1. secrets \in Seq(SecretRow)
    <3>1. Secret \in SecretRow
      BY DEF Secret, SecretRow
    <3> QED BY <1>2, <3>1
  <2>2. keys \in KeySet
    BY <1>2 DEF KeySet, Sids
  <2>3. tokens \subseteq Token
    <3>1. 1 \in Sids
      BY Sizes DEF Sids
    <3>2. now + TokenTtl \in Nat
      BY <1>1, Sizes
    <3>3. [sid |-> 1, epoch |-> 1, seen |-> 0, exp |-> now + TokenTtl] \in Token
      BY <3>1, <3>2 DEF Token
    <3> QED BY <1>2, <3>3
  <2>4. cmd \in [Operators -> {Idle} \cup Command] /\ try \in [Attempts -> {Idle} \cup Attempt]
    BY <1>2
  <2>5. now \in 0..MaxNow /\ client \in [active : BOOLEAN, epoch : Nat \ {0}]
    BY <1>1, <1>2, Sizes
  <2>6. log \in Seq(Change) /\ tries \in Seq(0..MaxNow)
    BY <1>2
  <2> QED BY <2>1, <2>2, <2>3, <2>4, <2>5, <2>6 DEF AuthTyped
<1>5. /\ \A o \in Operators : cmd[o] = Idle /\ cmd[o].pc = "idle"
      /\ \A a \in Attempts : try[a] = Idle
  BY <1>2 DEF Idle
<1>6. Numbered
  <2>1. Rotating = {}
    BY <1>5 DEF Rotating
  <2>2. "changes" \in DOMAIN left /\ left["changes"] \in Nat /\ left["changes"] < MaxSecrets
    BY <1>1, ApiAssumption DEF ApiAssumption
  <2>3. Cardinality(Rotating) = 0
    BY <2>1, FS_EmptySet
  <2>4. 1 + left["changes"] <= MaxSecrets
    BY <2>2, Sizes
  <2> QED BY <1>3, <1>5, <2>2, <2>3, <2>4 DEF Numbered
<1>7. Reads /\ Unpublished
  BY <1>5 DEF Reads, Unpublished
<1>8. Dated /\ Raised /\ MintedBefore /\ KeysLast /\ FlagLasts
  <2>1. tokens = {[sid |-> 1, epoch |-> 1, seen |-> 0, exp |-> now + TokenTtl]}
    BY <1>2
  <2>2. client.epoch = 1 /\ now + TokenTtl <= now + TokenTtl
    BY <1>1, <1>2, Sizes
  <2>3. \A t \in tokens : t.epoch = 1 /\ t.seen = 0 /\ t.exp = now + TokenTtl
    BY <2>1
  <2>4. Dated
    BY <1>3, <1>5, <2>2, <2>3 DEF Dated
  <2>5. Raised /\ MintedBefore /\ KeysLast /\ FlagLasts
    BY <1>3, <1>5, <2>2, <2>3 DEF Raised, MintedBefore, KeysLast, FlagLasts
  <2> QED BY <2>4, <2>5
<1>9. DeadSecrets
  <2>1. \A i \in Sids : keys.revoked[i] = 0
    BY <1>2 DEF Sids
  <2> QED BY <1>3, <2>1 DEF DeadSecrets
<1>10. KeysFollow
  BY <1>2, <1>5 DEF KeysFollow
<1>11. LiveBounded
  <2>1. Live \subseteq {1}
    BY <1>3 DEF Live
  <2>2. IsFiniteSet({1}) /\ Cardinality({1}) = 1
    BY FS_Singleton
  <2>3. Cardinality(Live) <= 1 /\ Cardinality(Live) \in Nat
    BY <2>1, <2>2, FS_Subset, FS_CardinalityType
  <2> QED BY <2>3, Sizes DEF LiveBounded
<1>12. Windows /\ VerificationsBounded
  BY <1>3 DEF Windows, VerificationsBounded
<1> QED BY <1>4, <1>6, <1>7, <1>8, <1>9, <1>10, <1>11, <1>12 DEF AuthInv

\* The invariant of the clients is kept.
LEMMA AuthKept == AuthInv /\ [Next]_vars => AuthInv'
<1> SUFFICES ASSUME AuthInv, [Next]_vars PROVE AuthInv'
  OBVIOUS
<1>1. AuthTyped' /\ Numbered'
  BY AuthTypedKept, NumberedKept DEF AuthInv
<1>2. Reads' /\ Dated' /\ Unpublished'
  BY <1>1, ReadsKept, DatedKept, UnpublishedKept DEF AuthInv
<1>3. Raised' /\ MintedBefore' /\ KeysLast' /\ FlagLasts' /\ DeadSecrets'
  BY <1>1, RaisedKept, MintedBeforeKept, KeysLastKept, FlagLastsKept, DeadSecretsKept DEF AuthInv
<1>4. KeysFollow' /\ LiveBounded' /\ Windows' /\ VerificationsBounded'
  BY <1>1, KeysFollowKept, LiveBoundedKept, WindowsKept DEF AuthInv
<1> QED BY <1>1, <1>2, <1>3, <1>4 DEF AuthInv

\* The rows, the keys and the tokens of a client keep their invariant.
THEOREM Authorised == Spec => []AuthInv
<1>1. Init => AuthInv
  BY AuthStarts
<1>2. AuthInv /\ [Next]_vars => AuthInv'
  BY AuthKept
<1> QED BY <1>1, <1>2, PTL DEF Spec

--------------------------------------------------------------------------------
(* What the invariant is for. *)

\* Whatever minted it, a token of before a change is refused while the key of the
\* change lasts, one of a revoked secret while the key of the secret does, and no key
\* of an earlier state stands in the way of a client whose commands were orderly.
THEOREM RevocationIsKept == Spec => []RevocationHolds
<1>1. AuthInv => StaleRefused
  <2> SUFFICES ASSUME AuthInv, NEW t \in tokens, NEW j \in DOMAIN log, SerialTo(j), log[j].kind # "revoke",
                      log[j].pub # Never, j > t.seen, ~(keys.epoch.value < log[j].epoch), Accepted(t)
               PROVE  OnlyLeeway(j)
    BY DEF StaleRefused
  <2>1. /\ now \in Nat /\ TokenTtl \in Nat /\ Leeway \in Nat /\ t.epoch \in Nat /\ t.exp \in Nat
        /\ log[j].epoch \in Nat /\ log[j].pub \in Nat
        /\ keys.epoch.until \in Nat /\ keys.epoch.value \in Nat
    BY Numbers, Sizes DEF AuthInv
  <2>2. t.epoch < log[j].epoch
    BY DEF AuthInv, Raised
  <2>3. t.epoch < keys.epoch.value
    BY <2>1, <2>2
  <2>4. ~(keys.epoch.until > now)
    BY <2>3 DEF Accepted, Revoked
  <2>5. log[j].pub + TokenTtl <= keys.epoch.until
    BY DEF AuthInv, KeysLast
  <2>6. t.exp <= log[j].pub + TokenTtl
    BY DEF AuthInv, MintedBefore
  <2>7. now < t.exp + Leeway
    BY DEF Accepted, Unexpired
  <2> QED BY <2>1, <2>4, <2>5, <2>6, <2>7 DEF OnlyLeeway
<1>d. AuthInv => DisabledRefused
  <2> SUFFICES ASSUME AuthInv, NEW t \in tokens, NEW j \in DOMAIN log,
                      log[j].kind = "disable", log[j].pub # Never,
                      \A i \in DOMAIN log : log[i].kind = "enable" => log[i].pub < log[j].pub, Accepted(t)
               PROVE  now >= log[j].pub + TokenTtl /\ (j > t.seen => OnlyLeeway(j))
    BY DEF DisabledRefused
  <2>1. /\ now \in Nat /\ TokenTtl \in Nat /\ Leeway \in Nat /\ t.exp \in Nat
        /\ log[j].pub \in Nat /\ keys.disabled \in Nat
        /\ \A i \in DOMAIN log : log[i].pub \in Int
    BY Numbers, Sizes DEF AuthInv
  <2>2. ~(\E i \in DOMAIN log : log[i].kind = "enable" /\ log[i].pub >= log[j].pub)
    BY <2>1
  <2>3. log[j].pub + TokenTtl <= keys.disabled
    BY <2>2 DEF AuthInv, FlagLasts
  <2>4. ~(keys.disabled > now)
    BY DEF Accepted, Revoked
  <2>5. j > t.seen => t.exp <= log[j].pub + TokenTtl
    BY DEF AuthInv, MintedBefore
  <2>6. now < t.exp + Leeway
    BY DEF Accepted, Unexpired
  <2> QED BY <2>1, <2>3, <2>4, <2>5, <2>6 DEF OnlyLeeway
<1>2. AuthInv => SecretRefused
  <2> SUFFICES ASSUME AuthInv, NEW t \in tokens, NEW j \in DOMAIN log,
                      log[j].kind = "revoke", log[j].pub # Never, t.sid = log[j].sid, Accepted(t)
               PROVE  now >= log[j].pub + TokenTtl /\ now < log[j].pub + TokenTtl + Leeway
    BY DEF SecretRefused, OnlyLeeway
  <2>1. /\ now \in Nat /\ TokenTtl \in Nat /\ Leeway \in Nat /\ t.exp \in Nat /\ t.seen \in Nat /\ j \in Nat
        /\ log[j].pub \in Nat /\ t.sid \in Sids /\ keys.revoked[t.sid] \in Nat
    BY Numbers, Sizes DEF AuthInv
  <2>2. j > t.seen
    <3>1. t.seen < j
      BY DEF AuthInv, DeadSecrets
    <3> QED BY <2>1, <3>1
  <2>3. ~(keys.revoked[t.sid] > now)
    BY DEF Accepted, Revoked
  <2>4. log[j].pub + TokenTtl <= keys.revoked[t.sid]
    BY DEF AuthInv, KeysLast
  <2>5. t.exp <= log[j].pub + TokenTtl
    BY <2>2 DEF AuthInv, MintedBefore
  <2>6. now < t.exp + Leeway
    BY DEF Accepted, Unexpired
  <2> QED BY <2>1, <2>3, <2>4, <2>5, <2>6
<1>3. AuthInv => FreshAccepted
  <2> SUFFICES ASSUME AuthInv, Orderly, Quiet, client.active, NEW i \in Live,
                      Revoked([sid |-> i, epoch |-> client.epoch])
               PROVE  FALSE
    BY DEF FreshAccepted
  <2>1. /\ now \in Nat /\ keys.disabled \in Nat /\ client.epoch \in Nat /\ keys.epoch.value \in Nat
        /\ i \in DOMAIN secrets /\ ~secrets[i].revoked /\ i \in Sids /\ keys.revoked[i] \in Nat
    <3>1. i \in DOMAIN secrets /\ ~secrets[i].revoked /\ DOMAIN secrets = 1..Len(secrets) /\ Len(secrets) \in Nat
      BY Numbers DEF Live, AuthInv
    <3>2. Len(secrets) <= MaxSecrets
      <4> DEFINE n == Len(secrets)
                 c == Cardinality(Rotating)
      <4>1. n + c + left["changes"] <= MaxSecrets /\ left["changes"] \in Nat /\ n \in Nat /\ MaxSecrets \in Nat
        BY <3>1, Sizes DEF Numbered, AuthInv
      <4>2. c \in Nat
        BY Rotators DEF Rotating
      <4> HIDE DEF n, c
      <4>3. n <= MaxSecrets
        BY <4>1, <4>2
      <4> QED BY <4>3 DEF n
    <3>3. i \in Sids
      BY <3>1, <3>2, Sizes DEF Sids
    <3> QED BY <3>1, <3>3, Numbers DEF AuthInv
  <2>2. Follows
    <3>1. OrderlySoFar
      BY DEF Orderly, OrderlySoFar
    <3> QED BY <3>1, KeysFollowIs DEF AuthInv
  <2>3. ~(keys.disabled > 0) /\ keys.epoch.value <= client.epoch
    BY <2>2 DEF Follows, Quiet, Idle
  <2>4. ~(keys.revoked[i] > 0)
    BY <2>1 DEF AuthInv, DeadSecrets
  <2>5. keys.disabled > now \/ keys.revoked[i] > now \/ client.epoch < keys.epoch.value
    BY DEF Revoked
  <2> QED BY <2>1, <2>3, <2>4, <2>5
<1>4. AuthInv => RevocationHolds
  BY <1>1, <1>d, <1>2, <1>3 DEF RevocationHolds
<1> QED BY <1>4, Authorised, PTL

\* The limits of the clients' side.
LEMMA AuthLimits == AuthInv => AuthTypeOK /\ LiveBounded /\ VerificationsBounded
<1> SUFFICES ASSUME AuthInv PROVE AuthTypeOK
  BY DEF AuthInv
<1>1. /\ AuthTyped /\ Numbered /\ Dated
  BY DEF AuthInv
<1>2. Len(secrets) \in 1..MaxSecrets
  <2> DEFINE n == Len(secrets)
             c == Cardinality(Rotating)
  <2>1. n + c + left["changes"] <= MaxSecrets /\ left["changes"] \in Nat /\ n \in Nat /\ MaxSecrets \in Nat /\ n >= 1
    BY <1>1, Numbers, Sizes DEF Numbered
  <2>2. c \in Nat
    BY Rotators DEF Rotating
  <2> HIDE DEF n, c
  <2>3. n \in 1..MaxSecrets
    BY <2>1, <2>2
  <2> QED BY <2>3 DEF n
<1>3. \A i \in DOMAIN secrets : secrets[i] \in [revoked : BOOLEAN, expires : Nat]
  <2>1. \A i \in DOMAIN secrets : secrets[i] \in SecretRow
    BY <1>1 DEF AuthTyped
  <2> QED BY <2>1 DEF SecretRow
<1>4. /\ keys.epoch \in [value : Nat, until : Nat]
      /\ keys.disabled \in Nat /\ keys.fail \in [n : Nat, until : Nat]
  BY <1>1 DEF AuthTyped, KeySet
<1>5. \A o \in Operators : cmd[o] = Idle \/ cmd[o].pc \in {"read", "committed"}
  BY <1>1, Commands
<1>6. \A j \in DOMAIN log : log[j].pub \in {Never} \cup 0..now
  <2>1. \A j \in DOMAIN log : log[j].pub # Never => log[j].pub \in Nat /\ log[j].pub <= now
    BY <1>1, Numbers DEF Dated
  <2>2. now \in Nat
    BY <1>1, Numbers
  <2> QED BY <2>1, <2>2
<1>7. \A t \in tokens : t.epoch \in 1..(Len(log) + 1) /\ t.exp <= now + TokenTtl
  <2>1. Len(log) \in Nat /\ \A t \in tokens : t.epoch \in Nat \ {0} /\ t.epoch <= Len(log) + 1 /\ t.exp <= now + TokenTtl
    BY <1>1, Numbers DEF Dated
  <2> DEFINE n == Len(log)
  <2> HIDE DEF n
  <2>2. n \in Nat /\ \A t \in tokens : t.epoch \in Nat \ {0} /\ t.epoch <= n + 1 /\ t.exp <= now + TokenTtl
    BY <2>1 DEF n
  <2>3. \A t \in tokens : t.epoch \in 1..(n + 1)
    BY <2>2
  <2> QED BY <2>2, <2>3 DEF n
<1>8. now \in 0..MaxNow /\ client \in [active : BOOLEAN, epoch : Nat]
  BY <1>1 DEF AuthTyped
<1> QED BY <1>2, <1>3, <1>4, <1>5, <1>6, <1>7, <1>8 DEF AuthTypeOK

--------------------------------------------------------------------------------
(* The invariant of a walk. *)

\* The collections whose sort key tells their rows apart.
WholeKey == \A n \in Routes \cup {"symbols"} : \E rest : Collection[n].rest = {rest}

Walk == [at : {"idle", "reading", "done"}, limit : Nat, cursor : {NoCursor} \cup [key : Keys, size : Nat],
         size : Nat, answer : {200, 404, 422}]

WalkTyped ==
    /\ route \in {Collection[n] : n \in Routes \cup {"symbols"}}
    /\ rows \subseteq Rows /\ got \subseteq Rows /\ twice \subseteq got
    /\ stayed \subseteq rows
    /\ listed \in BOOLEAN /\ cap \in Nat
    /\ walk \in Walk

\* What has been served is up to the cursor, and what stayed and is not is after it.
CursorBetween ==
    IF walk.at = "done" THEN stayed \subseteq got
    ELSE IF walk.cursor = NoCursor THEN got = {}
    ELSE /\ \A r \in got : Sorted(r.key, walk.cursor.key)
         /\ \A r \in stayed \ got : Keyset(walk.cursor.key, r.key)

ReadInv == WalkTyped /\ twice = {} /\ CursorBetween

--------------------------------------------------------------------------------
(* The order of a collection. *)

\* A collection sorts on one column or two, each up or down.
LEMMA RouteShape ==
    ASSUME WalkTyped
    PROVE  /\ Len(route.directions) \in {1, 2}
           /\ \A i \in 1..Len(route.directions) : route.directions[i] \in {"asc", "desc"}
           /\ WholeKey => \E rest : route.rest = {rest}
           /\ route.ofSymbol \in BOOLEAN
<1>1. PICK n \in DOMAIN Collection : route = Collection[n] /\ n \in Routes \cup {"symbols"}
  <2>1. Routes \subseteq DOMAIN Collection /\ "symbols" \in DOMAIN Collection
    BY ApiAssumption DEF ApiAssumption, Collection
  <2> QED BY <2>1 DEF WalkTyped
<1>2. route \in {Symbols, Bars, Actions, Financials, Holders, EconomicCalendar}
  BY <1>1 DEF Collection
<1>3. route.directions \in {<<"asc">>, <<"asc", "asc">>, <<"desc", "asc">>, <<"desc", "desc">>}
      /\ route.ofSymbol \in BOOLEAN
  <2>1. \A d, o, x : Route(d, o, x).directions = d /\ Route(d, o, x).ofSymbol = o
    BY DEF Route
  <2>2. /\ Symbols.directions = <<"asc">> /\ Bars.directions = <<"asc">> /\ Actions.directions = <<"asc", "asc">>
        /\ Financials.directions = <<"desc", "asc">> /\ Holders.directions = <<"desc", "desc">>
        /\ EconomicCalendar.directions = <<"desc", "desc">>
    BY <2>1 DEF Symbols, Bars, Actions, Financials, Holders, EconomicCalendar
  <2>3. \A c \in {Symbols, Bars, Actions, Financials, Holders, EconomicCalendar} : c.ofSymbol \in BOOLEAN
    <3>1. /\ Symbols.ofSymbol = FALSE /\ Bars.ofSymbol = TRUE /\ Actions.ofSymbol = TRUE
          /\ Financials.ofSymbol = TRUE /\ Holders.ofSymbol = FALSE /\ EconomicCalendar.ofSymbol = FALSE
      BY <2>1 DEF Symbols, Bars, Actions, Financials, Holders, EconomicCalendar
    <3> QED BY <3>1
  <2> QED BY <1>2, <2>2, <2>3
<1>4. Len(route.directions) \in {1, 2} /\ \A i \in 1..Len(route.directions) : route.directions[i] \in {"asc", "desc"}
  <2>1. CASE route.directions = <<"asc">>
    BY <2>1
  <2>2. CASE route.directions = <<"asc", "asc">>
    BY <2>2
  <2>3. CASE route.directions = <<"desc", "asc">>
    BY <2>3
  <2>4. CASE route.directions = <<"desc", "desc">>
    BY <2>4
  <2> QED BY <1>3, <2>1, <2>2, <2>3, <2>4
<1>5. WholeKey => \E rest : route.rest = {rest}
  BY <1>1 DEF WholeKey
<1> QED BY <1>3, <1>4, <1>5

\* The order of one column.
Before(i, x, y) == IF route.directions[i] = "desc" THEN y < x ELSE y > x

\* A key is one value or two.
LEMMA KeysAre ==
    ASSUME WalkTyped, NEW a \in Keys
    PROVE  /\ DOMAIN a = 1..Len(route.directions)
           /\ Len(route.directions) = 1 => DOMAIN a = {1} /\ a[1] \in Int
           /\ Len(route.directions) = 2 => DOMAIN a = {1, 2} /\ a[1] \in Int /\ a[2] \in Int
           /\ \A i \in DOMAIN a : a[i] \in Values
<1>1. Values \subseteq Int
  BY ApiAssumption DEF ApiAssumption
<1>2. a \in [1..Len(route.directions) -> Values]
  BY DEF Keys
<1>3. 1..1 = {1} /\ 1..2 = {1, 2}
  OBVIOUS
<1> QED BY <1>1, <1>2, <1>3

\* The keyset comparison is the lexicographic order.
LEMMA KeysetIs ==
    ASSUME WalkTyped, NEW a \in Keys, NEW b \in Keys
    PROVE  /\ Len(route.directions) = 1 => (Keyset(a, b) <=> Before(1, a[1], b[1]))
           /\ Len(route.directions) = 2 =>
                 (Keyset(a, b) <=> Before(1, a[1], b[1]) \/ (b[1] = a[1] /\ Before(2, a[2], b[2])))
<1>1. Keyset(a, b) <=> \E i \in DOMAIN b : (\A j \in 1..(i - 1) : b[j] = a[j]) /\ Before(i, a[i], b[i])
  BY DEF Keyset, Before
<1>2. 1..(1 - 1) = {} /\ 1..(2 - 1) = {1}
  OBVIOUS
<1>3. CASE Len(route.directions) = 1
  <2>1. DOMAIN b = {1}
    BY <1>3, KeysAre
  <2>2. (\E i \in {1} : (\A j \in 1..(i - 1) : b[j] = a[j]) /\ Before(i, a[i], b[i])) <=> Before(1, a[1], b[1])
    BY <1>2 DEF Before
  <2> QED BY <1>1, <1>3, <2>1, <2>2
<1>4. CASE Len(route.directions) = 2
  <2>1. DOMAIN b = {1, 2}
    BY <1>4, KeysAre
  <2>2. (\E i \in {1, 2} : (\A j \in 1..(i - 1) : b[j] = a[j]) /\ Before(i, a[i], b[i]))
        <=> Before(1, a[1], b[1]) \/ (b[1] = a[1] /\ Before(2, a[2], b[2]))
    BY <1>2 DEF Before
  <2> QED BY <1>1, <1>4, <2>1, <2>2
<1> QED BY <1>3, <1>4

\* The order of a column is strict and total.
LEMMA BeforeIsStrict ==
    ASSUME NEW i, NEW x \in Int, NEW y \in Int, NEW z \in Int
    PROVE  /\ ~Before(i, x, x)
           /\ x # y => Before(i, x, y) \/ Before(i, y, x)
           /\ Before(i, x, y) /\ Before(i, y, z) => Before(i, x, z)
BY DEF Before

\* The order of keys is strict and total.
LEMMA KeysetIsStrict ==
    ASSUME WalkTyped, NEW a \in Keys, NEW b \in Keys, NEW c \in Keys
    PROVE  /\ ~Keyset(a, a)
           /\ a # b => Keyset(a, b) \/ Keyset(b, a)
           /\ Keyset(a, b) /\ Keyset(b, c) => Keyset(a, c)
<1>1. CASE Len(route.directions) = 1
  <2>1. /\ a[1] \in Int /\ b[1] \in Int /\ c[1] \in Int /\ DOMAIN a = {1} /\ DOMAIN b = {1}
    BY <1>1, KeysAre
  <2>2. a # b => a[1] # b[1]
    BY <1>1, <2>1 DEF Keys
  <2>3. \A x, y \in {a, b, c} : Keyset(x, y) <=> Before(1, x[1], y[1])
    BY <1>1, KeysetIs
  <2> QED BY <2>1, <2>2, <2>3, BeforeIsStrict
<1>2. CASE Len(route.directions) = 2
  <2>1. /\ a[1] \in Int /\ b[1] \in Int /\ c[1] \in Int /\ DOMAIN a = {1, 2} /\ DOMAIN b = {1, 2}
        /\ a[2] \in Int /\ b[2] \in Int /\ c[2] \in Int
    BY <1>2, KeysAre
  <2>2. a # b => a[1] # b[1] \/ a[2] # b[2]
    BY <1>2, <2>1 DEF Keys
  <2>3. \A x, y \in {a, b, c} : Keyset(x, y) <=> Before(1, x[1], y[1]) \/ (y[1] = x[1] /\ Before(2, x[2], y[2]))
    BY <1>2, KeysetIs
  <2>4. ~Keyset(a, a)
    BY <2>1, <2>3, BeforeIsStrict
  <2>5. a # b => Keyset(a, b) \/ Keyset(b, a)
    BY <2>1, <2>2, <2>3, BeforeIsStrict
  <2>6. Keyset(a, b) /\ Keyset(b, c) => Keyset(a, c)
    BY <2>1, <2>3, BeforeIsStrict
  <2> QED BY <2>4, <2>5, <2>6
<1> QED BY <1>1, <1>2, RouteShape

\* ORDER BY is the same order, equal keys apart.
LEMMA SortedIs ==
    ASSUME WalkTyped, NEW a \in Keys, NEW b \in Keys
    PROVE  Sorted(a, b) <=> a = b \/ Keyset(a, b)
<1> DEFINE apart == {c \in DOMAIN a : a[c] # b[c]}
<1>1. a # b => (Sorted(a, b) <=> ((route.directions[Min(apart)] = "asc") = (a[Min(apart)] < b[Min(apart)])))
  BY DEF Sorted
<1>2. a = b => Sorted(a, b)
  BY DEF Sorted
<1>3. ASSUME NEW i \in {1, 2}, i <= Len(route.directions), a[i] \in Int, b[i] \in Int, a[i] # b[i]
      PROVE  ((route.directions[i] = "asc") = (a[i] < b[i])) <=> Before(i, a[i], b[i])
  <2>1. route.directions[i] \in {"asc", "desc"}
    BY <1>3, RouteShape
  <2> QED BY <1>3, <2>1 DEF Before
<1>4. CASE a # b /\ Len(route.directions) = 1
  <2>1. a[1] \in Int /\ b[1] \in Int /\ DOMAIN a = {1} /\ DOMAIN b = {1}
    BY <1>4, KeysAre
  <2>2. a[1] # b[1]
    BY <1>4, <2>1 DEF Keys
  <2>3. apart = {1, 1}
    BY <2>1, <2>2
  <2>4. Min(apart) = 1
    BY <2>3, OfTwo
  <2> QED BY <1>1, <1>3, <1>4, <2>1, <2>2, <2>4, KeysetIs
<1>5. CASE a # b /\ Len(route.directions) = 2
  <2>1. /\ a[1] \in Int /\ b[1] \in Int /\ DOMAIN a = {1, 2} /\ DOMAIN b = {1, 2}
        /\ a[2] \in Int /\ b[2] \in Int
    BY <1>5, KeysAre
  <2>2. CASE a[1] # b[1]
    <3>1. Min(apart) = 1
      <4>1. CASE a[2] = b[2]
        <5>1. apart = {1, 1}
          BY <2>1, <2>2, <4>1
        <5> QED BY <5>1, OfTwo
      <4>2. CASE a[2] # b[2]
        <5>1. apart = {1, 2}
          BY <2>1, <2>2, <4>2
        <5> QED BY <5>1, OfTwo
      <4> QED BY <4>1, <4>2
    <3> QED BY <1>1, <1>3, <1>5, <2>1, <2>2, <3>1, KeysetIs
  <2>3. CASE a[1] = b[1]
    <3>1. a[2] # b[2]
      BY <1>5, <2>1, <2>3 DEF Keys
    <3>2. apart = {2, 2}
      BY <2>1, <2>3, <3>1
    <3>3. Min(apart) = 2
      BY <3>2, OfTwo
    <3>4. ~Before(1, a[1], b[1])
      BY <2>1, <2>3, BeforeIsStrict
    <3> QED BY <1>1, <1>3, <1>5, <2>1, <2>3, <3>1, <3>3, <3>4, KeysetIs
  <2> QED BY <2>2, <2>3
<1>6. CASE a = b
  BY <1>2, <1>6
<1> QED BY <1>4, <1>5, <1>6, RouteShape

\* There are finitely many rows, and a row of such a collection is its key.
LEMMA RowsAre ==
    ASSUME WalkTyped, WholeKey
    PROVE  /\ IsFiniteSet(Rows)
           /\ \A r, s \in Rows : r.key = s.key => r = s
<1>1. IsFiniteSet(Values)
  BY ApiAssumption DEF ApiAssumption
<1>2. IsFiniteSet(Keys)
  <2>1. CASE Len(route.directions) = 1
    <3> DEFINE f == [k \in Keys |-> k[1]]
    <3>1. \A k \in Keys : DOMAIN k = {1} /\ k[1] \in Values
      BY <2>1, KeysAre
    <3>2. \A k, l \in Keys : k[1] = l[1] => k = l
      BY <2>1, <3>1 DEF Keys
    <3>3. f \in Injection(Keys, Values)
      BY <3>1, <3>2 DEF Injection, IsInjective
    <3> HIDE DEF f
    <3> QED BY <1>1, <3>3, FS_Injection
  <2>2. CASE Len(route.directions) = 2
    <3> DEFINE f == [k \in Keys |-> <<k[1], k[2]>>]
    <3>1. \A k \in Keys : DOMAIN k = {1, 2} /\ k[1] \in Values /\ k[2] \in Values
      BY <2>2, KeysAre
    <3>2. \A k, l \in Keys : (k[1] = l[1] /\ k[2] = l[2]) => k = l
      BY <2>2, <3>1 DEF Keys
    <3>3. f \in Injection(Keys, Values \X Values)
      BY <3>1, <3>2 DEF Injection, IsInjective
    <3>4. IsFiniteSet(Values \X Values)
      BY <1>1, FS_Product
    <3> HIDE DEF f
    <3> QED BY <3>3, <3>4, FS_Injection
  <2> QED BY <2>1, <2>2, RouteShape
<1>3. PICK rest : route.rest = {rest}
  BY RouteShape
<1>4. \A r, s \in Rows : r.key = s.key => r = s
  BY <1>3 DEF Rows
<1>5. IsFiniteSet(Rows)
  <2> DEFINE f == [r \in Rows |-> r.key]
  <2>1. \A r \in Rows : r.key \in Keys
    BY DEF Rows
  <2>2. f \in Injection(Rows, Keys)
    BY <1>4, <2>1 DEF Injection, IsInjective
  <2> HIDE DEF f
  <2> QED BY <1>2, <2>2, FS_Injection
<1> QED BY <1>4, <1>5

--------------------------------------------------------------------------------
(* The steps of a walk. *)

\* A step of the API is one of the walk, or leaves it alone.
LEMMA ReadSteps == [Next]_vars => ReadStep \/ UNCHANGED reading
BY DEF Next, vars

\* The size of a page is a number.
LEMMA SizeIs == WalkTyped => Size \in Nat
<1> SUFFICES ASSUME WalkTyped PROVE Size \in Nat
  OBVIOUS
<1>1. walk.limit \in Nat /\ cap \in Nat /\ DefaultSize \in Nat
  BY Sizes DEF WalkTyped, Walk
<1>2. Min({DefaultSize, cap}) \in Nat
  BY <1>1, OfTwo
<1> QED BY <1>1, <1>2 DEF Size

\* What a page is: rows after the cursor and not after any left out, up to the new
\* cursor; all there are when there is no more.
Paged(selected, page, last) ==
    /\ walk.at = "reading"
    /\ selected = IF walk.cursor = NoCursor THEN rows ELSE {r \in rows : Keyset(walk.cursor.key, r.key)}
    /\ page \in SUBSET selected
    /\ \A p \in page, r \in selected \ page : Sorted(p.key, r.key)
    /\ got' = got \cup page /\ twice' = twice \cup (got \cap page)
    /\ \/ /\ last \in page /\ last \in Rows /\ \A p \in page : Sorted(p.key, last.key)
          /\ walk' = [walk EXCEPT !.at = "idle", !.size = 0, !.cursor = [key |-> last.key, size |-> walk.size]]
       \/ /\ Cardinality(page) = Min({walk.size, Cardinality(selected)})
          /\ ~(Cardinality(selected) > walk.size)
          /\ walk' = [walk EXCEPT !.at = "done", !.size = 0, !.cursor = NoCursor]

\* A page that is read is such a page.
LEMMA PageRead ==
    ASSUME ReadPage
    PROVE  /\ \E selected, page, last : Paged(selected, page, last)
           /\ UNCHANGED <<left, route, rows, listed, cap, stayed>>
<1> DEFINE selected == IF walk.cursor = NoCursor THEN rows ELSE {r \in rows : Keyset(walk.cursor.key, r.key)}
           more == Cardinality(selected) > walk.size
<1>1. PICK page \in Firsts(selected, walk.size), last \in (IF more THEN Rows ELSE {<<>>}) :
             /\ more => last \in page /\ \A p \in page : Sorted(p.key, last.key)
             /\ got' = got \cup page
             /\ twice' = twice \cup (got \cap page)
             /\ walk' = [walk EXCEPT !.at = IF more THEN "idle" ELSE "done", !.size = 0,
                                     !.cursor = IF more THEN [key |-> last.key, size |-> walk.size]
                                                ELSE NoCursor]
  BY DEF ReadPage
<1>2. walk.at = "reading" /\ UNCHANGED <<left, route, rows, listed, cap, stayed>>
  BY DEF ReadPage
<1>3. /\ page \in SUBSET selected /\ Cardinality(page) = Min({walk.size, Cardinality(selected)})
      /\ \A p \in page, r \in selected \ page : Sorted(p.key, r.key)
  BY <1>1 DEF Firsts, kSubset
<1>4. Paged(selected, page, last)
  <2>1. CASE more
    BY <1>1, <1>2, <1>3, <2>1 DEF Paged
  <2>2. CASE ~more
    BY <1>1, <1>2, <1>3, <2>2 DEF Paged
  <2> QED BY <2>1, <2>2
<1> QED BY <1>2, <1>4, SMTT(30)

\* Asking changes the walk, and neither its cursor nor what it served.
LEMMA PageAsked ==
    ASSUME WalkTyped, AskPage
    PROVE  /\ walk.at = "idle" /\ walk'.at \in {"idle", "reading"} /\ walk'.cursor = walk.cursor
           /\ walk' \in Walk
           /\ UNCHANGED <<route, rows, listed, cap, got, twice, stayed>>
<1>1. walk \in Walk /\ Size \in Nat
  BY SizeIs DEF WalkTyped
<1>2. Answer \in {200, 404, 422}
  BY DEF Answer
<1>3. /\ walk.at = "idle"
      /\ walk' = [walk EXCEPT !.at = IF Answer = 200 THEN "reading" ELSE "idle",
                              !.answer = Answer, !.size = IF Answer = 200 THEN Size ELSE 0]
      /\ UNCHANGED <<route, rows, listed, cap, got, twice, stayed>>
  BY DEF AskPage
<1>4. walk' \in Walk
  <2> DEFINE P == {"idle", "reading", "done"}
             C == {NoCursor} \cup [key : Keys, size : Nat]
             A == {200, 404, 422}
  <2>1. walk \in [at : P, limit : Nat, cursor : C, size : Nat, answer : A]
    BY <1>1 DEF Walk
  <2>2. \A x \in [at : P, limit : Nat, cursor : C, size : Nat, answer : A] : x \in Walk
    BY DEF Walk
  <2>3. /\ (IF Answer = 200 THEN "reading" ELSE "idle") \in P
        /\ (IF Answer = 200 THEN Size ELSE 0) \in Nat /\ Answer \in A
    BY <1>1, <1>2
  <2> HIDE DEF P, C, A
  <2>4. \A at \in P, x \in A, n \in Nat :
            [walk EXCEPT !.at = at, !.answer = x, !.size = n] \in [at : P, limit : Nat, cursor : C, size : Nat, answer : A]
    BY <2>1
  <2>5. walk' \in [at : P, limit : Nat, cursor : C, size : Nat, answer : A]
    BY <1>3, <2>3, <2>4
  <2> QED BY <2>2, <2>5
<1>5. walk'.at \in {"idle", "reading"} /\ walk'.cursor = walk.cursor
  BY <1>1, <1>3 DEF Walk
<1> QED BY <1>3, <1>4, <1>5

\* What other sessions do to the rows and the plan between the pages.
Edited ==
    /\ UNCHANGED <<route, walk, got, twice>>
    /\ rows' \subseteq Rows /\ stayed' \subseteq stayed /\ stayed' \subseteq rows'
    /\ listed' \in BOOLEAN /\ cap' \in Nat

\* A step of the reads asks, reads or edits.
LEMMA Edits ==
    ASSUME WalkTyped, ReadStep
    PROVE  AskPage \/ ReadPage \/ Edited
<1>0. rows \subseteq Rows /\ stayed \subseteq rows /\ listed \in BOOLEAN /\ cap \in Nat
  BY DEF WalkTyped
<1>1. ASSUME NEW r \in Rows, Enters(r) PROVE Edited
  BY <1>0, <1>1 DEF Enters, Edited
<1>2. ASSUME NEW r \in rows, Leaves(r) PROVE Edited
  BY <1>0, <1>2 DEF Leaves, Edited
<1>3. ASSUME Purged PROVE Edited
  BY <1>0, <1>3 DEF Purged, Edited
<1>4. ASSUME NEW n \in Caps, NewPlan(n) PROVE Edited
  <2>1. n \in Nat
    BY ApiAssumption DEF ApiAssumption
  <2> QED BY <1>0, <1>4, <2>1 DEF NewPlan, Edited
<1> QED BY <1>1, <1>2, <1>3, <1>4 DEF ReadStep

\* The types of a walk are kept.
LEMMA WalkTypedKept == WalkTyped /\ [Next]_vars => WalkTyped'
<1> SUFFICES ASSUME WalkTyped, [Next]_vars PROVE WalkTyped'
  OBVIOUS
<1>0. /\ route \in {Collection[n] : n \in Routes \cup {"symbols"}}
      /\ rows \subseteq Rows /\ got \subseteq Rows /\ twice \subseteq got /\ stayed \subseteq rows
      /\ listed \in BOOLEAN /\ cap \in Nat /\ walk \in Walk
  BY DEF WalkTyped
<1>1. CASE AskPage
  <2>1. walk' \in Walk /\ UNCHANGED <<route, rows, listed, cap, got, twice, stayed>>
    BY <1>1, PageAsked
  <2>2. Walk' = Walk /\ Rows' = Rows
    BY <2>1 DEF Walk, Rows, Keys
  <2> QED BY <1>0, <2>1, <2>2 DEF WalkTyped
<1>2. CASE ReadPage
  <2>1. PICK selected, page, last : Paged(selected, page, last)
    BY <1>2, PageRead
  <2>2. UNCHANGED <<route, rows, listed, cap, stayed>>
    BY <1>2, PageRead
  <2>3. Walk' = Walk /\ Rows' = Rows
    BY <2>2 DEF Walk, Rows, Keys
  <2>4. page \subseteq rows
    BY <2>1 DEF Paged
  <2>5. got' \subseteq Rows /\ twice' \subseteq got'
    BY <1>0, <2>1, <2>4, SMTT(30) DEF Paged
  <2>6. walk' \in Walk
    <3> DEFINE C == {NoCursor} \cup [key : Keys, size : Nat]
               W == [at : {"idle", "reading", "done"}, limit : Nat, cursor : C, size : Nat, answer : {200, 404, 422}]
    <3>1. walk \in W /\ NoCursor \in C /\ walk.size \in Nat
      BY <1>0 DEF Walk
    <3>2. last \in Rows => [key |-> last.key, size |-> walk.size] \in C
      BY <3>1 DEF Rows
    <3>3. \A x \in W : x \in Walk
      BY DEF Walk
    <3> HIDE DEF C
    <3>4. ASSUME NEW w \in W, NEW c \in C, NEW at \in {"idle", "done"}
          PROVE  [w EXCEPT !.at = at, !.size = 0, !.cursor = c] \in W
      BY ZenonT(60)
    <3> HIDE DEF W
    <3> QED BY <2>1, <3>1, <3>2, <3>3, <3>4 DEF Paged
  <2> QED BY <1>0, <2>2, <2>3, <2>5, <2>6 DEF WalkTyped
<1>3. CASE Edited
  <2>1. Walk' = Walk /\ Rows' = Rows
    BY <1>3 DEF Edited, Walk, Rows, Keys
  <2> QED BY <1>0, <1>3, <2>1 DEF WalkTyped, Edited
<1>4. CASE UNCHANGED reading
  <2>1. UNCHANGED <<route, rows, listed, cap, walk, got, twice, stayed>>
    BY <1>4 DEF reading
  <2>2. Walk' = Walk /\ Rows' = Rows
    BY <2>1 DEF Walk, Rows, Keys
  <2> QED BY <1>0, <2>1, <2>2 DEF WalkTyped
<1> QED BY <1>1, <1>2, <1>3, <1>4, ReadSteps, Edits

\* The cursor stays between what was served and what is left.
LEMMA BetweenKept ==
    ASSUME WholeKey, ReadInv, WalkTyped', [Next]_vars
    PROVE  twice' = {} /\ CursorBetween'
<1>0. /\ WalkTyped /\ twice = {} /\ CursorBetween
      /\ rows \subseteq Rows /\ got \subseteq Rows /\ stayed \subseteq rows /\ walk \in Walk
      /\ \A r \in Rows : r.key \in Keys
  BY DEF ReadInv, WalkTyped, Rows
<1>1. ASSUME UNCHANGED <<route, got, twice>>, walk'.cursor = walk.cursor, stayed' \subseteq stayed,
             walk'.at = "done" <=> walk.at = "done"
      PROVE  twice' = {} /\ CursorBetween'
  <2>2. \A r \in got : Sorted(r.key, walk.cursor.key)' <=> Sorted(r.key, walk.cursor.key)
    BY <1>1 DEF Sorted
  <2>3. \A r \in stayed \ got : Keyset(walk.cursor.key, r.key)' <=> Keyset(walk.cursor.key, r.key)
    BY <1>1 DEF Keyset
  <2>4. CASE walk.at = "done"
    BY <1>0, <1>1, <2>4 DEF CursorBetween
  <2>5. CASE walk.at # "done" /\ walk.cursor = NoCursor
    BY <1>0, <1>1, <2>5 DEF CursorBetween
  <2>6. CASE walk.at # "done" /\ walk.cursor # NoCursor
    BY <1>0, <1>1, <2>2, <2>3, <2>6 DEF CursorBetween, Sorted, Keyset
  <2> QED BY <2>4, <2>5, <2>6
<1>2. CASE AskPage
  <2>1. /\ walk.at = "idle" /\ walk'.at \in {"idle", "reading"} /\ walk'.cursor = walk.cursor
        /\ UNCHANGED <<route, got, twice, stayed>>
    BY <1>0, <1>2, PageAsked
  <2> QED BY <1>1, <2>1
<1>3. CASE Edited
  BY <1>1, <1>3 DEF Edited
<1>4. CASE UNCHANGED reading
  BY <1>1, <1>4 DEF reading
<1>5. CASE ReadPage
  <2>1. PICK selected, page, last : Paged(selected, page, last)
    BY <1>5, PageRead
  <2>2. UNCHANGED <<route, rows, stayed>>
    BY <1>5, PageRead
  <2>3. /\ walk.at # "done" /\ page \subseteq selected /\ selected \subseteq rows
        /\ got' = got \cup page /\ twice' = got \cap page
        /\ \A p \in page, r \in selected \ page : Sorted(p.key, r.key)
        /\ selected = IF walk.cursor = NoCursor THEN rows ELSE {r \in rows : Keyset(walk.cursor.key, r.key)}
    BY <1>0, <2>1 DEF Paged
  <2>4. walk.cursor # NoCursor => walk.cursor.key \in Keys
    BY <1>0 DEF Walk
  <2>5. \A r \in got, s \in selected : walk.cursor # NoCursor /\ Keyset(r.key, s.key)
    <3> SUFFICES ASSUME NEW r \in got, NEW s \in selected
                 PROVE  walk.cursor # NoCursor /\ Keyset(r.key, s.key)
      OBVIOUS
    <3>1. walk.cursor # NoCursor /\ Sorted(r.key, walk.cursor.key)
      BY <1>0, <2>3 DEF CursorBetween
    <3>2. Keyset(walk.cursor.key, s.key)
      BY <2>3, <3>1
    <3>3. r.key \in Keys /\ s.key \in Keys /\ walk.cursor.key \in Keys
      BY <1>0, <2>3, <2>4, <3>1
    <3>4. r.key = walk.cursor.key \/ Keyset(r.key, walk.cursor.key)
      BY <1>0, <3>1, <3>3, SortedIs
    <3> QED BY <1>0, <3>1, <3>2, <3>3, <3>4, KeysetIsStrict
  <2>6. twice' = {}
    <3>1. \A r \in got : r \notin selected
      <4> SUFFICES ASSUME NEW r \in got, r \in selected PROVE FALSE
        OBVIOUS
      <4>1. Keyset(r.key, r.key) /\ r.key \in Keys
        BY <1>0, <2>5
      <4> QED BY <1>0, <4>1, KeysetIsStrict
    <3> QED BY <2>3, <3>1
  <2>7. stayed \ got \subseteq selected
    <3> SUFFICES ASSUME NEW r \in stayed \ got PROVE r \in selected
      OBVIOUS
    <3>1. r \in rows /\ (walk.cursor # NoCursor => Keyset(walk.cursor.key, r.key))
      BY <1>0, <2>3 DEF CursorBetween
    <3> QED BY <2>3, <3>1
  <2>8. CASE /\ last \in page /\ last \in Rows /\ \A p \in page : Sorted(p.key, last.key)
             /\ walk' = [walk EXCEPT !.at = "idle", !.size = 0, !.cursor = [key |-> last.key, size |-> walk.size]]
    <3>1. walk'.at = "idle" /\ walk'.cursor = [key |-> last.key, size |-> walk.size]
      BY <1>0, <2>8 DEF Walk
    <3>2. walk'.cursor.key = last.key /\ last.key \in Keys
      BY <1>0, <2>8, <3>1
    <3>3. \A r \in got' : Sorted(r.key, last.key)
      <4> SUFFICES ASSUME NEW r \in got PROVE Sorted(r.key, last.key)
        BY <2>3, <2>8
      <4>1. Keyset(r.key, last.key) /\ r.key \in Keys
        BY <1>0, <2>3, <2>5, <2>8
      <4> QED BY <1>0, <3>2, <4>1, SortedIs
    <3>4. \A r \in stayed \ got' : Keyset(last.key, r.key)
      <4> SUFFICES ASSUME NEW r \in stayed \ got' PROVE Keyset(last.key, r.key)
        OBVIOUS
      <4>1. r \in selected \ page /\ r \in Rows /\ r.key \in Keys
        BY <1>0, <2>3, <2>7
      <4>2. Sorted(last.key, r.key)
        BY <2>3, <2>8, <4>1
      <4>3. last.key # r.key
        BY <1>0, <2>8, <4>1, RowsAre
      <4> QED BY <1>0, <3>2, <4>1, <4>2, <4>3, SortedIs
    <3>5. walk'.cursor # NoCursor \/ got' = {}
      <4>1. walk'.cursor # NoCursor
        <5>1. DOMAIN last.key = 1..Len(route.directions) /\ Len(route.directions) \in {1, 2}
          BY <1>0, <3>2, KeysAre, RouteShape
        <5>2. DOMAIN last.key # {}
          BY <5>1
        <5>3. NoCursor.key = <<>> /\ DOMAIN NoCursor.key = {}
          BY DEF NoCursor
        <5> QED BY <3>2, <5>2, <5>3
      <4> QED BY <4>1
    <3>6. CursorBetween'
      <4>1. \A r \in got' : Sorted(r.key, walk.cursor.key)'
        <5>1. \A r \in got' : Sorted(r.key, walk'.cursor.key)
          BY <3>2, <3>3
        <5> QED BY <2>2, <5>1 DEF Sorted
      <4>2. \A r \in stayed' \ got' : Keyset(walk.cursor.key, r.key)'
        BY <2>2, <3>2, <3>4 DEF Keyset
      <4> QED BY <3>1, <3>5, <4>1, <4>2 DEF CursorBetween
    <3> QED BY <2>6, <3>6
  <2>9. CASE /\ Cardinality(page) = Min({walk.size, Cardinality(selected)})
             /\ ~(Cardinality(selected) > walk.size)
             /\ walk' = [walk EXCEPT !.at = "done", !.size = 0, !.cursor = NoCursor]
    <3>1. walk'.at = "done"
      BY <1>0, <2>9 DEF Walk
    <3>2. IsFiniteSet(selected)
      BY <1>0, <2>3, RowsAre, FS_Subset
    <3>3. page = selected
      <4>1. Cardinality(selected) \in Nat /\ walk.size \in Nat
        BY <1>0, <3>2, FS_CardinalityType DEF Walk
      <4>2. Cardinality(page) = Cardinality(selected)
        BY <2>9, <4>1, OfTwo
      <4> QED BY <2>3, <3>2, <4>2, FS_Subset
    <3>4. stayed' \subseteq got'
      BY <2>2, <2>3, <2>7, <3>3
    <3> QED BY <2>6, <3>1, <3>4 DEF CursorBetween
  <2> QED BY <2>1, <2>8, <2>9 DEF Paged
<1> QED BY <1>0, <1>2, <1>3, <1>4, <1>5, ReadSteps, Edits

\* A walk starts with nothing served.
LEMMA WalkStarts == Init => WalkTyped /\ twice = {} /\ CursorBetween
<1> SUFFICES ASSUME Init PROVE WalkTyped /\ twice = {} /\ CursorBetween
  OBVIOUS
<1>1. ReadInit
  BY DEF Init
<1>2. route \in {Collection[n] : n \in Routes \cup {"symbols"}}
  <2>1. Collection["symbols"] = Symbols
    BY DEF Collection
  <2> QED BY <1>1, <2>1 DEF ReadInit
<1>3. rows \subseteq Rows /\ got = {} /\ twice = {} /\ stayed = rows /\ listed = TRUE
  BY <1>1 DEF ReadInit
<1>4. cap \in Nat
  BY <1>1, ApiAssumption DEF ReadInit, ApiAssumption
<1>5. walk \in Walk /\ walk.at = "idle" /\ walk.cursor = NoCursor
  <2>1. PICK limit \in Limits \cup {Unasked} :
            walk = [at |-> "idle", limit |-> limit, cursor |-> NoCursor, size |-> 0, answer |-> 200]
    BY <1>1 DEF ReadInit
  <2>2. limit \in Nat
    BY ApiAssumption DEF ApiAssumption, Unasked
  <2> QED BY <2>1, <2>2 DEF Walk
<1> QED BY <1>2, <1>3, <1>4, <1>5 DEF WalkTyped, CursorBetween

\* Where the shapes of a walk are concerned, for every collection.
THEOREM Walked == Spec => []WalkTyped
<1>1. Init => WalkTyped
  BY WalkStarts
<1>2. WalkTyped /\ [Next]_vars => WalkTyped'
  BY WalkTypedKept
<1> QED BY <1>1, <1>2, PTL DEF Spec

\* Of a collection whose sort key tells its rows apart, whatever is written, deleted or
\* purged between the pages, no row is served twice and none that stayed is missed
\* (api/routers/v1/market.py, datasets.py).
THEOREM PagedExactlyOnce ==
    ASSUME WholeKey
    PROVE  Spec => []PagedOnce
<1>1. Init => ReadInv
  BY WalkStarts DEF ReadInv
<1>2. ReadInv /\ [Next]_vars => ReadInv'
  BY WholeKey, WalkTypedKept, BetweenKept DEF ReadInv
<1>3. ReadInv => PagedOnce
  BY DEF ReadInv, PagedOnce, CursorBetween
<1> QED BY <1>1, <1>2, <1>3, PTL DEF Spec

\* The types of a walk, as the run checks them.
LEMMA WalkLimits == WalkTyped => ReadTypeOK
<1> SUFFICES ASSUME WalkTyped PROVE ReadTypeOK
  OBVIOUS
<1>1. walk \in Walk
  BY DEF WalkTyped
<1>2. /\ walk.at \in {"idle", "reading", "done"} /\ walk.answer \in {200, 404, 422}
      /\ walk.cursor = NoCursor \/ walk.cursor \in [key : Keys, size : Nat]
  BY <1>1 DEF Walk
<1> QED BY <1>2 DEF WalkTyped, ReadTypeOK

--------------------------------------------------------------------------------
\* However calls interleave, fail or are cut short, no counter passes its limit: the
\* bucket, the quota of a month, the slots, the live secrets of a client and the wrong
\* secrets verified in a block (api/ratelimit, api/storage/clients.py).
THEOREM LimitsAreHeld == Spec => []LimitsHeld
<1>1. MeterInv /\ AuthInv /\ WalkTyped => LimitsHeld
  BY MeterLimits, AuthLimits, WalkLimits DEF LimitsHeld
<1> QED BY <1>1, Metered, Authorised, Walked, PTL
================================================================================

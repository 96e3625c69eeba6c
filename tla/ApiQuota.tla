-------------------------------- MODULE ApiQuota --------------------------------
(***************************************************************************)
(* Metering of the read API: what a request of one client does to the      *)
(* counters in Redis (api/ratelimit/limiter.py, concurrency.py, usage.py,  *)
(* dependencies.py), and the flush of the usage buffer into the database.  *)
(*                                                                         *)
(* Requests run in threads of several processes, so every call to Redis is *)
(* a step of its own; a script or a pipeline is one step, a get and a decr *)
(* are two.  A tick is the time one token of the bucket takes, a period    *)
(* (the month of the quota, the day of the usage) is Period ticks.  A call *)
(* that fails may have been executed.  A request may run for longer than   *)
(* its slot lives, and several flushes may run at once: a scheduled one    *)
(* and one started by hand share no lock but the rows they write.          *)
(***************************************************************************)
EXTENDS Integers, FiniteSets, FiniteSetsExt

CONSTANTS Requests,       \* the requests
          Burst,          \* PlanLimits.burst; requests_per_second is one a tick
          QuotaLimit,     \* PlanLimits.monthly_quota
          MaxConcurrency, \* PlanLimits.max_concurrency
          SlotTtl,        \* SLOT_TTL_SECONDS
          Flushers,       \* the processes that run `yfin api usage flush`
          UsageTtl,       \* USAGE_TTL_SECONDS
          Period,         \* ticks of a period
          MaxNow          \* bound: the last tick

VARIABLES now,     \* the clock
          left,    \* bounds: how many more of each kind of event may begin
          req,     \* per request, where it is and what it holds
          bucket,  \* rl:{client}: tokens, ts, and when it expires
          quota,   \* quota:{client}:{period}
          slots,   \* conc:{client}: the count, and when it expires
          buffer,  \* usage:{day}
          expires, \* when the key of a day expires
          table,   \* api_usage_daily, committed
          written, \* what an open transaction has added to a day's row, and whose it is
          flush,   \* per flusher, where it is, the days it has left and what it read
          setback, \* history: by how much the clock of the bucket was set back
          late,    \* history: the requests that had not given their slot back when it expired
          met,     \* history: the requests whose refund overlapped another's
          spoiled  \* history: the days whose count may be wrong, and why

None == -1
PeriodOf(t) == t \div Period
Periods == 0..PeriodOf(MaxNow)

\* A request that has not come yet; `unit` is the period it was charged in,
\* `back` the one a unit was given back in, `day` the one its usage is counted in;
\* it is clean until a call of it fails or its process dies.
Fresh == [pc |-> "new", stamp |-> 0, status |-> "none", holds |-> FALSE, since |-> None,
          unit |-> None, back |-> None, day |-> None, clean |-> TRUE, next |-> "done"]

Use(what) == left[what] > 0 /\ left' = [left EXCEPT ![what] = @ - 1]

Go(r, pc) == req' = [req EXCEPT ![r].pc = pc]

--------------------------------------------------------------------------------
(* meter: the bucket and the quota, in one script. *)

\* consume, up to the call: the clock is read before the script runs.
Arrive(r) ==
    /\ req[r].pc = "new"
    /\ Use("requests")
    /\ req' = [req EXCEPT ![r].pc = "consume", ![r].stamp = now]
    /\ UNCHANGED <<now, bucket, quota, slots, buffer, expires, table, written, flush, setback, late, met, spoiled>>

\* The tokens when the script runs; the key lives until it would be full.
Refilled(r) ==
    IF bucket.until <= now THEN Burst
    ELSE Min({Burst, bucket.tokens + Max({0, req[r].stamp - bucket.ts})})

QuotaLeft(r) == quota[PeriodOf(req[r].stamp)] < QuotaLimit

\* The script: what it does to the bucket and the quota of the period it was given.
Script(r) ==
    LET tokens == Refilled(r)
        go == QuotaLeft(r) /\ tokens >= 1
    IN  /\ bucket' = IF QuotaLeft(r)
                     THEN [tokens |-> IF go THEN tokens - 1 ELSE tokens, ts |-> req[r].stamp,
                           until |-> now + Burst + 1]
                     ELSE bucket
        /\ setback' = IF QuotaLeft(r) /\ bucket.until > now
                      THEN setback + Max({0, bucket.ts - req[r].stamp}) ELSE setback
        /\ quota' = IF go THEN [quota EXCEPT ![PeriodOf(req[r].stamp)] = @ + 1] ELSE quota

Granted(r) == QuotaLeft(r) /\ Refilled(r) >= 1

Consume(r) ==
    /\ req[r].pc = "consume"
    /\ Script(r)
    /\ req' = [req EXCEPT ![r].pc = IF Granted(r) THEN "acquire" ELSE "done",
                          ![r].status = IF Granted(r) THEN "none" ELSE "refused",
                          ![r].unit = IF Granted(r) THEN PeriodOf(req[r].stamp) ELSE None]
    /\ UNCHANGED <<now, left, slots, buffer, expires, table, written, flush, late, met, spoiled>>

\* The call fails, and the request is let through: the script may have run.
ConsumeFails(r) ==
    /\ req[r].pc = "consume"
    /\ Use("faults")
    /\ \E ran \in BOOLEAN :
          /\ IF ran THEN Script(r) ELSE UNCHANGED <<bucket, quota, setback>>
          /\ req' = [req EXCEPT ![r].pc = "acquire", ![r].clean = FALSE,
                                ![r].unit = IF ran /\ Granted(r) THEN PeriodOf(req[r].stamp) ELSE None]
    /\ UNCHANGED <<now, slots, buffer, expires, table, written, flush, late, met, spoiled>>

--------------------------------------------------------------------------------
(* The concurrency slot. *)

Held == IF slots.until > now THEN slots.n ELSE 0

\* INCR and EXPIRE in one pipeline.
Taken == [n |-> Held + 1, until |-> now + SlotTtl]

HasRoom == Held + 1 <= MaxConcurrency

\* One over the limit gives back what it has just taken, and is refused.
Acquire(r) ==
    /\ req[r].pc = "acquire"
    /\ slots' = Taken
    /\ req' = IF HasRoom
              THEN [req EXCEPT ![r].pc = "handler", ![r].holds = TRUE, ![r].since = now]
              ELSE [req EXCEPT ![r].pc = "full", ![r].status = "full", ![r].since = now]
    /\ UNCHANGED <<now, left, bucket, quota, buffer, expires, table, written, flush, setback, late, met, spoiled>>

\* The call fails: the request runs without a slot, which may have been counted.
AcquireFails(r) ==
    /\ req[r].pc = "acquire"
    /\ Use("faults")
    /\ \E ran \in BOOLEAN : slots' = IF ran THEN Taken ELSE slots
    /\ Go(r, "handler")
    /\ UNCHANGED <<now, bucket, quota, buffer, expires, table, written, flush, setback, late, met, spoiled>>

--------------------------------------------------------------------------------
(* UsageMiddleware.dispatch: how the request ends decides the order. *)

\* billed: any response below 500, and the 504 of a query that was too expensive;
\* error: another response from 500 on; raised: an exception, accounted for before
\* the slot is released; cancelled: released, and not accounted for.
First(how) == IF how = "raised" THEN "account" ELSE "release"
After(step, how) ==
    CASE how = "cancelled" -> "done"
      [] how = "raised" -> IF step = "account" THEN "release" ELSE "done"
      [] OTHER -> IF step = "release" THEN "account" ELSE "done"

End(r, how) ==
    /\ req[r].pc = "handler"
    /\ how \in {"error", "raised", "cancelled"} => left["ends"] > 0
    /\ left' = IF how = "billed" THEN left ELSE [left EXCEPT !["ends"] = @ - 1]
    /\ req' = [req EXCEPT ![r].pc = First(how), ![r].status = how]
    /\ UNCHANGED <<now, bucket, quota, slots, buffer, expires, table, written, flush, setback, late, met, spoiled>>

\* release: the count is read, and lowered if it was above zero.
Lower(r, next) == IF Held > 0 THEN [req[r] EXCEPT !.pc = "decr", !.next = next] ELSE [req[r] EXCEPT !.pc = next]

\* _release: a request that holds no slot has none to give back.
Release(r) ==
    LET next == After("release", req[r].status) IN
        /\ req[r].pc = "release"
        /\ req' = [req EXCEPT ![r] = IF @.holds THEN [Lower(r, next) EXCEPT !.holds = FALSE]
                                               ELSE [@ EXCEPT !.pc = next]]
        /\ UNCHANGED <<now, left, bucket, quota, slots, buffer, expires, table, written, flush, setback, late, met, spoiled>>

\* The release of a slot that was one too many.
Withdraw(r) ==
    /\ req[r].pc = "full"
    /\ req' = [req EXCEPT ![r] = Lower(r, "done")]
    /\ UNCHANGED <<now, left, bucket, quota, slots, buffer, expires, table, written, flush, setback, late, met, spoiled>>

\* DECR keeps the life of the key, and makes one without a life if it is gone.
Lowered(r) == IF slots.until > now THEN [slots EXCEPT !.n = @ - 1] ELSE [n |-> -1, until |-> MaxNow + 1]

SlotDecr(r) ==
    /\ req[r].pc = "decr"
    /\ slots' = Lowered(r)
    /\ Go(r, req[r].next)
    /\ UNCHANGED <<now, left, bucket, quota, buffer, expires, table, written, flush, setback, late, met, spoiled>>

\* _account: what a server error took from the quota is given back.
Refunded(r) == req[r].status \in {"error", "raised"}

\* Those that have read the counter of a period, and are about to lower it.
Refunding(p) == {r \in Requests : req[r].pc = "giveback" /\ req[r].back = p}

\* Mutant: the counter is lowered whatever it is.
RefundAnyway(p) == TRUE

\* refund_quota: `if int(redis.get(key) or 0) > 0`
Refundable(p) == quota[p] > 0

\* refund_quota reads the counter of the period it is now, to lower it if it is
\* above zero; record reads the day.
Account(r) ==
    LET p == PeriodOf(now)
        gives == Refunded(r) /\ Refundable(p)
    IN  /\ req[r].pc = "account"
        /\ req' = [req EXCEPT ![r] =
             IF ~Refunded(r) THEN [@ EXCEPT !.pc = "record", !.day = p]
             ELSE IF gives THEN [@ EXCEPT !.pc = "giveback", !.back = p]
             ELSE [@ EXCEPT !.pc = After("account", req[r].status)]]
        /\ met' = IF gives /\ Refunding(p) # {} THEN met \cup Refunding(p) \cup {r} ELSE met
        /\ UNCHANGED <<now, left, bucket, quota, slots, buffer, expires, table, written, flush, setback, late, spoiled>>

GiveBack(r) ==
    /\ req[r].pc = "giveback"
    /\ quota' = [quota EXCEPT ![req[r].back] = @ - 1]
    /\ Go(r, After("account", req[r].status))
    /\ UNCHANGED <<now, left, bucket, slots, buffer, expires, table, written, flush, setback, late, met, spoiled>>

\* record, one pipeline, into the day that was read before it.
Record(r) ==
    LET d == req[r].day IN
        /\ req[r].pc = "record"
        /\ buffer' = [buffer EXCEPT ![d] = @ + 1]
        /\ expires' = [expires EXCEPT ![d] = now + UsageTtl]
        /\ spoiled' = IF d < PeriodOf(now) THEN spoiled \cup {<<d, "late">>} ELSE spoiled
        /\ Go(r, After("account", req[r].status))
        /\ UNCHANGED <<now, left, bucket, quota, slots, table, written, flush, setback, late, met>>

\* What it was about to give back or record, it has not.
Owes(r) == req[r].pc \in {"giveback", "record"}

\* A call of the last steps is lost: none of them is repeated.
CallLost(r) ==
    /\ req[r].pc \in {"full", "decr", "giveback", "record"} \/ (req[r].pc = "account" /\ Refunded(r))
    /\ Use("faults")
    /\ req' = [req EXCEPT ![r].clean = FALSE,
                          ![r].back = IF Owes(r) THEN None ELSE @, ![r].day = IF Owes(r) THEN None ELSE @,
                          ![r].pc = CASE @ = "full" -> "done" [] @ = "decr" -> req[r].next
                                      [] OTHER -> After("account", req[r].status)]
    /\ UNCHANGED <<now, bucket, quota, slots, buffer, expires, table, written, flush, setback, late, met, spoiled>>

\* The process dies: nothing is released or accounted for.
Die(r) ==
    /\ req[r].pc \notin {"new", "done"}
    /\ Use("kills")
    /\ req' = [req EXCEPT ![r].pc = "done", ![r].status = "died", ![r].clean = FALSE,
                          ![r].back = IF Owes(r) THEN None ELSE @, ![r].day = IF Owes(r) THEN None ELSE @]
    /\ UNCHANGED <<now, bucket, quota, slots, buffer, expires, table, written, flush, setback, late, met, spoiled>>

--------------------------------------------------------------------------------
(* flush: a day is read, upserted in the transaction and deleted in Redis; the *)
(* command commits when it has gone through them all.                          *)

Resting == [pc |-> "idle", days |-> {}, counts |-> 0]
Unlocked == [by |-> None, n |-> 0]

\* _pending_days
FlushBegin(f, today) ==
    /\ flush[f].pc = "idle"
    /\ Use("flushes")
    /\ flush' = [flush EXCEPT ![f].pc = "read",
                   ![f].days = {d \in Periods : buffer[d] > 0 /\ (today \/ d # PeriodOf(now))}]
    /\ UNCHANGED <<now, req, bucket, quota, slots, buffer, expires, table, written, setback, late, met, spoiled>>

Day(f) == Min(flush[f].days)

\* A flush has read the day and not deleted it yet.
Reading(g, d) == flush[g].pc = "delete" /\ Day(g) = d

\* hgetall
FlushRead(f) ==
    LET d == Day(f) IN
        /\ flush[f].pc = "read" /\ flush[f].days # {}
        /\ flush' = [flush EXCEPT ![f].pc = "delete", ![f].counts = buffer[d]]
        /\ spoiled' = spoiled \cup {<<d, why>> : why \in
              {w \in {"today", "overlap"} :
                 \/ w = "today" /\ d = PeriodOf(now)
                 \/ w = "overlap" /\ \E g \in Flushers \ {f} : Reading(g, d)}}
        /\ UNCHANGED <<now, left, req, bucket, quota, slots, buffer, expires, table, written, setback, late, met>>

\* Mutant: the day stays in the buffer until the transaction has committed.
KeepsDay(d) == buffer
\* The day's keys are deleted, read empty or not.
Deleted(d) == [buffer EXCEPT ![d] = 0]

\* The upsert, which waits for the transaction that has written the row, and the delete.
FlushDelete(f) ==
    LET d == Day(f) IN
        /\ flush[f].pc = "delete"
        /\ flush[f].counts > 0 => written[d] = Unlocked
        /\ written' = IF flush[f].counts > 0
                      THEN [written EXCEPT ![d] = [by |-> f, n |-> flush[f].counts]] ELSE written
        /\ buffer' = Deleted(d)
        /\ flush' = [flush EXCEPT ![f].pc = "read", ![f].days = @ \ {d}]
        /\ UNCHANGED <<now, left, req, bucket, quota, slots, expires, table, setback, late, met, spoiled>>

Released(f) == [d \in Periods |-> IF written[d].by = f THEN Unlocked ELSE written[d]]

\* The upsert adds to what is there.
Added(d, f) == IF written[d].by = f THEN table[d] + written[d].n ELSE table[d]

FlushCommit(f) ==
    /\ flush[f].pc = "read" /\ flush[f].days = {}
    /\ table' = [d \in Periods |-> Added(d, f)]
    /\ written' = Released(f)
    /\ flush' = [flush EXCEPT ![f] = Resting]
    /\ UNCHANGED <<now, left, req, bucket, quota, slots, buffer, expires, setback, late, met, spoiled>>

\* The database or the process fails anywhere: the transaction is rolled back.
FlushFails(f) ==
    /\ flush[f].pc \in {"read", "delete"}
    /\ Use("faults")
    /\ spoiled' = spoiled \cup {<<d, "failed">> : d \in {e \in Periods : written[e].by = f}}
    /\ written' = Released(f)
    /\ flush' = [flush EXCEPT ![f] = Resting]
    /\ UNCHANGED <<now, req, bucket, quota, slots, buffer, expires, table, setback, late, met>>

--------------------------------------------------------------------------------
\* It has a slot to give back, its own or the one it took over the limit.
Gives(r) == req[r].pc # "done" /\ (req[r].holds \/ req[r].pc \in {"full", "decr"})

\* Those whose slot, and the days whose key, has expired at now + 1.
Overdue == {r \in Requests : Gives(r) /\ req[r].since # None /\ req[r].since + SlotTtl <= now + 1}
Expired == {d \in Periods : buffer[d] > 0 /\ expires[d] <= now + 1}

\* The clock is read less than a tick before the script runs.  Nothing bounds a
\* request: the statement timeout is per statement, and the slot of a request that
\* is still running expires.
QuotaTick ==
    /\ now < MaxNow
    /\ \A r \in Requests : req[r].pc = "consume" => req[r].stamp = now
    /\ now' = now + 1
    /\ late' = late \cup Overdue
    /\ buffer' = [d \in Periods |-> IF d \in Expired THEN 0 ELSE buffer[d]]
    /\ spoiled' = spoiled \cup {<<d, "expired">> : d \in Expired}
    /\ UNCHANGED <<left, req, bucket, quota, slots, expires, table, written, flush, setback, met>>

QuotaInit ==
    /\ req = [r \in Requests |-> Fresh]
    /\ bucket = [tokens |-> Burst, ts |-> 0, until |-> 0]
    /\ quota = [p \in Periods |-> 0]
    /\ slots = [n |-> 0, until |-> 0]
    /\ buffer = [d \in Periods |-> 0]
    /\ expires = [d \in Periods |-> 0]
    /\ table = [d \in Periods |-> 0]
    /\ written = [d \in Periods |-> Unlocked]
    /\ flush = [f \in Flushers |-> Resting]
    /\ setback = 0
    /\ late = {}
    /\ met = {}
    /\ spoiled = {}

RequestStep(r) ==
    \/ Consume(r) \/ ConsumeFails(r) \/ Acquire(r) \/ AcquireFails(r)
    \/ \E how \in {"billed", "error", "raised", "cancelled"} : End(r, how)
    \/ Release(r) \/ Withdraw(r) \/ SlotDecr(r)
    \/ Account(r) \/ GiveBack(r) \/ Record(r)
    \/ CallLost(r) \/ Die(r)

FlushStep ==
    \E f \in Flushers :
        \/ \E today \in BOOLEAN : FlushBegin(f, today)
        \/ FlushRead(f) \/ FlushDelete(f) \/ FlushCommit(f) \/ FlushFails(f)

--------------------------------------------------------------------------------
QuotaTypeOK ==
    /\ \A r \in Requests : req[r].since \in {None} \cup 0..now
    /\ bucket.tokens \in 0..Burst /\ bucket.ts \in 0..now
    /\ quota \in [Periods -> Int]
    /\ slots.n \in Int
    /\ buffer \in [Periods -> Nat] /\ table \in [Periods -> Nat]
    /\ expires \in [Periods -> Nat] /\ \A d \in Periods : written[d].n \in Nat
    /\ \A f \in Flushers : flush[f].pc \in {"idle", "read", "delete"} /\ flush[f].days \subseteq Periods

Units(p) == {r \in Requests : req[r].unit = p}
Backs(p) == {r \in Requests : req[r].back = p /\ req[r].pc # "giveback"}

\* The requests the bucket let through are a burst and what time refilled, however
\* concurrent calls reach Redis; only a call that arrives after a later one may set
\* the bucket's clock back, and by no more than it is late.
RateHeld == Cardinality({r \in Requests : req[r].unit # None}) <= Burst + now + setback

\* A period never grants more than the quota and what was given back in it.
QuotaHeld == \A p \in Periods : Cardinality(Units(p)) <= QuotaLimit + Cardinality(Backs(p))

\* Refunds that had read the counter of a period before another lowered it.
Met(p) == {r \in met : req[r].back = p}

\* refund_quota says "Never below zero" and reads before it lowers: a counter is below
\* zero only after refunds that overlapped, and by fewer than those, so that one refund
\* at a time, whatever month it comes in, never takes it there.
QuotaFloor == \A p \in Periods : quota[p] >= 0 \/ 0 - quota[p] < Cardinality(Met(p))

\* No more requests run than the plan allows, and the counter never forgets one of
\* them, but for one each for the requests that outlived their slots: whatever was
\* refused, lost or killed, and though a slot is given back with a read and a write.
SlotsHeld ==
    LET running == {r \in Requests : req[r].holds /\ req[r].pc # "done"} IN
        /\ Cardinality(running) <= MaxConcurrency + Cardinality(late)
        /\ Held >= Cardinality(running) - Cardinality(late)

\* Charged and not used: refused for want of a slot, cancelled, or failed when the
\* counter of the new period had nothing to give back.
Unbilled == {r \in Requests : req[r].unit # None /\ req[r].status \in {"full", "cancelled"}}
Kept == {r \in Requests : req[r].status \in {"error", "raised"} /\ req[r].back = None}

\* The counter of a period is what was charged in it less what was given back in
\* it, whatever was lost or killed; and a request that is over, none of whose calls
\* was lost, was charged, and kept its charge, if and only if it was counted as used,
\* but for those Unbilled and Kept name: a server error is paid for by nobody, and no
\* exit charges twice.
ChargedIsUsed ==
    /\ \A p \in Periods : quota[p] = Cardinality(Units(p)) - Cardinality(Backs(p))
    /\ \A r \in Requests :
          (req[r].clean /\ req[r].pc \in {"new", "done"})
          => (req[r].unit # None /\ req[r].back = None
              <=> req[r].day # None \/ r \in Unbilled \cup Kept)

\* Usage reaches api_usage_daily at most once, wherever a flush fails, unless two
\* flushes were reading the day at once; and a count is missing only from a day one of
\* whose flushes failed, that was flushed while it was today, that a request wrote to
\* when it was over, or whose key expired.
UsageCounted ==
    \A d \in Periods :
        LET counted == table[d] + written[d].n + buffer[d]
            recorded == Cardinality({r \in Requests : req[r].day = d /\ req[r].pc # "record"})
        IN  /\ counted > recorded => <<d, "overlap">> \in spoiled
            /\ counted < recorded =>
                   \E why \in {"failed", "today", "late", "expired"} : <<d, why>> \in spoiled
================================================================================

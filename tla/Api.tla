---------------------------------- MODULE Api ----------------------------------
(***************************************************************************)
(* A request of the read API, from its bearer token to its last counter:   *)
(* the dependency guard(family) of api/ratelimit/dependencies.py checks    *)
(* the token (ApiAuth) and then meters the client it names (ApiQuota), and *)
(* the pages of a collection a caller walks (ApiReads).  The first two     *)
(* share one Redis and one clock.  `left` is how many events of each kind  *)
(* may still begin; a behaviour starts with one of Budgets.                *)
(***************************************************************************)
EXTENDS Integers, Sequences, FiniteSets

CONSTANTS Operators, Attempts, TokenTtl, Leeway, Grace, MaxLive, FailureLimit, FailureBlock,
          FallbackLimit, MaxSecrets,
          Requests, Burst, QuotaLimit, MaxConcurrency, SlotTtl, Flushers, UsageTtl, Period,
          Routes, Values, Caps, Limits, DefaultSize,
          MaxNow, Budgets

VARIABLES now, left,
          client, secrets, keys, fallback, cmd, try, tokens, log, tries,
          req, bucket, quota, slots, buffer, expires, table, written, flush, setback, late, met, spoiled,
          route, rows, listed, cap, walk, got, twice, stayed

INSTANCE ApiAuth
INSTANCE ApiQuota
INSTANCE ApiReads

\* The sizes are numbers, and nothing is granted, held or blocked for no time; the
\* rotations a behaviour may begin have a number to give their secret; and the columns
\* a route sorts on are ordered.
ApiAssumption ==
    /\ {TokenTtl, Leeway, FallbackLimit, DefaultSize, MaxNow} \subseteq Nat
    /\ {MaxLive, Grace, FailureLimit, FailureBlock, MaxSecrets} \subseteq Nat \ {0}
    /\ {Burst, QuotaLimit, MaxConcurrency, SlotTtl, UsageTtl, Period} \subseteq Nat \ {0}
    /\ IsFiniteSet(Operators) /\ IsFiniteSet(Attempts) /\ IsFiniteSet(Requests)
    /\ Routes \subseteq DOMAIN Collection
    /\ IsFiniteSet(Values) /\ Values \subseteq Int
    /\ Caps \cup Limits \subseteq Nat
    /\ \A budget \in Budgets : \A what \in DOMAIN budget : budget[what] \in Nat
    /\ \A budget \in Budgets : "changes" \in DOMAIN budget /\ budget["changes"] < MaxSecrets

ASSUME ApiAssumption

client_side == <<client, secrets, keys, fallback, cmd, try, tokens, log, tries>>
metering == <<req, bucket, quota, slots, buffer, expires, table, written, flush, setback, late, met, spoiled>>
reading == <<route, rows, listed, cap, walk, got, twice, stayed>>
vars == <<now, left, client_side, metering, reading>>

\* guard: the token is accepted, then the request is metered.
Serve(r) == Arrive(r) /\ (\E t \in tokens : Accepted(t)) /\ UNCHANGED client_side

\* A walk reads no clock: where only pages may begin, none runs.
Init ==
    /\ left \in Budgets
    /\ now = IF left["pages"] > 0 THEN MaxNow ELSE 0
    /\ AuthInit
    /\ QuotaInit
    /\ ReadInit

Next ==
    \/ AuthStep /\ UNCHANGED <<metering, reading>>
    \/ \E r \in Requests : (Serve(r) \/ (RequestStep(r) /\ UNCHANGED client_side)) /\ UNCHANGED reading
    \/ FlushStep /\ UNCHANGED <<client_side, reading>>
    \/ AuthTick /\ QuotaTick /\ UNCHANGED reading
    \/ ReadStep /\ UNCHANGED <<now, client_side, metering>>

Spec == Init /\ [][Next]_vars

\* A change of a client is in force once it is published: a token of a client switched
\* off or of a revoked secret is refused however commands overlap, one of other scopes
\* or another plan unless they overlap in one of two ways, and one minted after orderly
\* commands is served.
RevocationHolds == StaleRefused /\ DisabledRefused /\ SecretRefused /\ FreshAccepted

\* Every counter keeps to its limit however concurrent calls interleave: the bucket,
\* the month's quota, the slots, the live secrets and the secrets verified in a block.
LimitsHeld ==
    /\ AuthTypeOK /\ QuotaTypeOK /\ ReadTypeOK
    /\ LiveBounded /\ VerificationsBounded
    /\ RateHeld /\ QuotaHeld /\ QuotaFloor /\ SlotsHeld

\* What was charged is what was used, and what was used reaches the table once.
UsageHonest == ChargedIsUsed /\ UsageCounted
================================================================================

--------------------------- MODULE StreamScopeProofs ---------------------------
(***************************************************************************)
(* Proofs about StreamScope, for every catalogue, every number of          *)
(* exchanges, every chunk size and limit, and any edits, faults and stops. *)
(*                                                                         *)
(* The planner first: a plan covers the scope, carries each symbol once,   *)
(* keeps exchanges apart and chunks short, and depends, for an exchange,   *)
(* on nothing but its members.  Then the supervisor: a rescan that closes, *)
(* opens and replaces one await at a time ends on the plan it began with.  *)
(***************************************************************************)
EXTENDS StreamScope, Integers, FiniteSetTheorems, TLAPS

--------------------------------------------------------------------------------
(* The inductive invariant. *)

\* TypeOK, one variable to a conjunct.
Types ==
    /\ scope \in [Symbols -> {"out", "quoted", "archived"}]
    /\ exchange \in [Symbols -> Exchanges]
    /\ active \subseteq Symbols /\ disabling \subseteq Symbols /\ archived \subseteq Symbols
    /\ box \subseteq Symbols /\ quotes \subseteq Symbols
    /\ sup \in {"off", "idle", "close", "change", "stop"}
    /\ reading \in Readings
    /\ toClose \subseteq Keys /\ closed \subseteq Keys /\ toChange \subseteq Keys
    /\ heard \subseteq Keys /\ healthBox \subseteq Keys /\ rows \subseteq Keys
    /\ running \in [Keys -> SUBSET Symbols]
    /\ closing \in Keys \cup {NoKey}
    /\ at \in [Keys -> {"none", "dial", "reading", "quiet", "lost", "backoff"}]

\* The connections of the last reading that fits.
Plan == PlanConnections(reading)

\* A task runs for each entry of _running, and for the key being closed, whose
\* entry is popped.
Tasks ==
    /\ \A k \in Keys : at[k] # "none" <=> running[k] # {} \/ k = closing
    /\ closing # NoKey => running[closing] = {}

\* No connection is longer than the setting, and a supervisor that runs has
\* found room for the canary beside it.
Roomy ==
    /\ \A k \in Keys : Cardinality(running[k]) <= PerConnection
    /\ sup = "off" => closing = NoKey /\ running = [k \in Keys |-> {}]
    /\ sup # "off" => PerConnection <= Limit - Cardinality(Canary)

\* Where a rescan is on its way from the old plan to the new one: what is closed
\* has no place in the new plan, what is replaced has another one, and what is
\* left alone has the place it had.
OnPlan ==
    /\ sup = "idle" => closing = NoKey /\ running = Plan
    /\ sup = "close" =>
          \A k \in Keys :
              /\ k = closing => Plan[k] = {}
              /\ k \in toClose <=> Plan[k] = {} /\ running[k] # {}
              /\ k \in toChange <=> Plan[k] # {} /\ running[k] # {} /\ running[k] # Plan[k]
    /\ sup = "change" =>
          \A k \in Keys :
              /\ k = closing => Plan[k] # {}
              /\ k \in toChange => Plan[k] # {} /\ running[k] # {}
              /\ k \in toChange \/ k = closing \/ running[k] = Plan[k]

ScopeInv == Types /\ Tasks /\ Roomy /\ OnPlan
--------------------------------------------------------------------------------
(* The planner.                                                            *)

\* What the constants are.
LEMMA Sizes ==
    /\ Symbols \subseteq Nat /\ IsFiniteSet(Symbols) /\ Cardinality(Symbols) \in Nat
    /\ IsFiniteSet(Canary) /\ Cardinality(Canary) \in Nat
    /\ PerConnection \in Nat \ {0} /\ MaxConnections \in Nat /\ Limit \in Nat
    /\ NoKey \notin Keys
<1>1. /\ Symbols \subseteq Nat /\ IsFiniteSet(Symbols) /\ IsFiniteSet(Canary)
      /\ PerConnection \in Nat /\ MaxConnections \in Nat /\ Limit \in Nat /\ PerConnection > 0
      /\ "none" \notin Exchanges
  BY ScopeAssumption
<1>2. Cardinality(Symbols) \in Nat /\ Cardinality(Canary) \in Nat
  BY <1>1, FS_CardinalityType
<1>3. NoKey \notin Keys
  BY <1>1 DEF NoKey, Keys
<1> QED BY <1>1, <1>2, <1>3

\* Sets of symbols are finite.
LEMMA SymbolSets ==
    ASSUME NEW M \in SUBSET Symbols
    PROVE  IsFiniteSet(M) /\ Cardinality(M) \in Nat /\ Cardinality(M) <= Cardinality(Symbols)
BY Sizes, FS_Subset, FS_CardinalityType

\* Quotient and remainder.
LEMMA Division ==
    ASSUME NEW n \in Nat, NEW d \in Nat \ {0}
    PROVE  /\ n \div d \in Nat
           /\ (n \div d) * d <= n /\ n < (n \div d) * d + d
           /\ n \div d <= n
           /\ CeilDiv(n, d) = 1 <=> n \in 1 .. d
           /\ CeilDiv(n, d) = 0 <=> n = 0
<1>1. /\ n \div d \in Nat
      /\ (n \div d) * d <= n /\ n < (n \div d) * d + d
  BY SMT
<1>2. n \div d <= n
  BY SMT
<1>3. (n + d - 1) \div d = 1 <=> n \in 1 .. d
  BY SMT
<1>4. (n + d - 1) \div d = 0 <=> n = 0
  BY SMT
<1> QED BY <1>1, <1>2, <1>3, <1>4 DEF CeilDiv

\* The place of a symbol among the sorted members.
Rank(M, s) == Cardinality({t \in M : t < s})

\* Places are numbered from zero, and no two symbols share one.
LEMMA Ranked ==
    ASSUME NEW M \in SUBSET Symbols, NEW s \in M
    PROVE  /\ Rank(M, s) \in Nat /\ Rank(M, s) < Cardinality(M)
           /\ \A u \in M : Rank(M, s) = Rank(M, u) => s = u
<1>1. M \subseteq Nat
  BY Sizes
<1>2. ASSUME NEW S \in SUBSET M, NEW T \in SUBSET S, NEW x \in S, x \notin T
      PROVE  Cardinality(T) \in Nat /\ Cardinality(S) \in Nat /\ Cardinality(T) < Cardinality(S)
  <2>1. IsFiniteSet(S) /\ Cardinality(S) \in Nat /\ Cardinality(T) \in Nat
    BY SymbolSets
  <2>2. Cardinality(T) <= Cardinality(S) /\ (Cardinality(S) = Cardinality(T) => S = T)
    BY <2>1, FS_Subset
  <2> QED BY <1>2, <2>1, <2>2
<1>3. Rank(M, s) \in Nat /\ Rank(M, s) < Cardinality(M)
  <2>1. {t \in M : t < s} \subseteq M /\ s \notin {t \in M : t < s}
    BY <1>1
  <2> QED BY <1>2, <2>1 DEF Rank
<1>4. ASSUME NEW x \in M, NEW y \in M, x < y
      PROVE  Rank(M, x) \in Nat /\ Rank(M, y) \in Nat /\ Rank(M, x) < Rank(M, y)
  <2> DEFINE S == {t \in M : t < y}
             T == {t \in M : t < x}
  <2>1. x \in Nat /\ y \in Nat /\ \A t \in M : t \in Nat
    BY <1>1
  <2>2. S \subseteq M /\ x \in S /\ x \notin T
    BY <1>4, <2>1
  <2>3. \A t \in M : t < x => t < y
    BY <1>4, <2>1
  <2>4. T \subseteq S
    BY <2>3
  <2> HIDE DEF S, T
  <2>5. Cardinality(T) \in Nat /\ Cardinality(S) \in Nat /\ Cardinality(T) < Cardinality(S)
    BY <1>2, <2>2, <2>4
  <2> QED BY <2>5 DEF Rank, S, T
<1>5. ASSUME NEW u \in M, Rank(M, s) = Rank(M, u) PROVE s = u
  <2>1. s < u \/ u < s \/ s = u
    BY <1>1
  <2> QED BY <1>4, <1>5, <2>1
<1> QED BY <1>3, <1>5

\* The symbols whose places fall into one chunk are at most PerConnection.
LEMMA ChunkSmall ==
    ASSUME NEW M \in SUBSET Symbols, NEW q \in Nat
    PROVE  Cardinality({s \in M : Rank(M, s) \div PerConnection = q}) <= PerConnection
<1> DEFINE C == {s \in M : Rank(M, s) \div PerConnection = q}
           b == q * PerConnection
           f == [s \in C |-> Rank(M, s) - b]
           T == 0 .. (PerConnection - 1)
<1>1. PerConnection \in Nat \ {0} /\ b \in Nat
  BY Sizes
<1>2. IsFiniteSet(C) /\ Cardinality(C) \in Nat
  BY SymbolSets
<1>3. IsFiniteSet(T) /\ Cardinality(T) = PerConnection
  BY <1>1, FS_Interval
<1>4. ASSUME NEW s \in C PROVE Rank(M, s) \in Nat /\ b <= Rank(M, s) /\ Rank(M, s) < b + PerConnection
  BY <1>1, Ranked, Division
<1>5. f \in [C -> T]
  <2>1. ASSUME NEW s \in C PROVE Rank(M, s) - b \in T
    <3> HIDE DEF C, b
    <3> QED BY <1>1, <1>4, <2>1
  <2> QED BY <2>1
<1>6. ASSUME NEW x \in C, NEW y \in C, f[x] = f[y] PROVE x = y
  <2>1. Rank(M, x) = Rank(M, y)
    BY <1>1, <1>4, <1>6
  <2> QED BY <2>1, Ranked
<1>7. ~ (Cardinality(T) < Cardinality(C))
  <2> HIDE DEF C, T, f
  <2> QED BY <1>2, <1>3, <1>5, <1>6, FS_PigeonHole
<1> QED BY <1>1, <1>2, <1>3, <1>7

\* The members of an exchange.
LEMMA MembersAre ==
    ASSUME NEW r \in Readings, NEW e
    PROVE  /\ Members(r, e) \in SUBSET Symbols /\ Members(r, e) \subseteq Scoped(r)
           /\ \A s \in Members(r, e) : r.exchange[s] = e
BY DEF Members, Scoped

\* A symbol of an exchange that needs several connections has a chunk, and a key of its own.
LEMMA ChunkKey ==
    ASSUME NEW M \in SUBSET Symbols, NEW s \in M
    PROVE  /\ Rank(M, s) \div PerConnection \in Nat
           /\ Rank(M, s) \div PerConnection + 1 \in 0 .. Cardinality(Symbols)
<1>1. Rank(M, s) \in Nat /\ Rank(M, s) < Cardinality(M) /\ PerConnection \in Nat \ {0}
  BY Ranked, Sizes
<1>2. Cardinality(M) \in Nat /\ Cardinality(Symbols) \in Nat /\ Cardinality(M) <= Cardinality(Symbols)
  BY SymbolSets, Sizes
<1>3. Rank(M, s) \div PerConnection \in Nat /\ Rank(M, s) \div PerConnection <= Rank(M, s)
  BY <1>1, Division
<1> QED BY <1>1, <1>2, <1>3

\* An exchange that fits on one connection.
Sole(r, k) == CeilDiv(Cardinality(Members(r, k.exchange)), PerConnection) = 1

\* What a plan says of one key.
LEMMA PlanOf ==
    ASSUME NEW r \in Readings, NEW k \in Keys
    PROVE  PlanConnections(r)[k] =
               IF Sole(r, k) THEN IF k.part = 0 THEN Members(r, k.exchange) ELSE {}
               ELSE {s \in Members(r, k.exchange) :
                        k.part = Rank(Members(r, k.exchange), s) \div PerConnection + 1}
BY DEF PlanConnections, Sole, Rank

\* plan_connections: a plan gives every key symbols of its own exchange, at most
\* PerConnection of them.
LEMMA PlanTyped ==
    ASSUME NEW r \in Readings
    PROVE  /\ PlanConnections(r) \in [Keys -> SUBSET Symbols]
           /\ \A k \in Keys : /\ PlanConnections(r)[k] \subseteq Members(r, k.exchange)
                              /\ Cardinality(PlanConnections(r)[k]) <= PerConnection
<1>1. ASSUME NEW k \in Keys
      PROVE  /\ PlanConnections(r)[k] \subseteq Members(r, k.exchange)
             /\ Cardinality(PlanConnections(r)[k]) <= PerConnection
  <2> DEFINE M == Members(r, k.exchange)
             P == PlanConnections(r)[k]
  <2>1. M \in SUBSET Symbols /\ Cardinality(M) \in Nat /\ PerConnection \in Nat \ {0} /\ k.part \in Int
    <3>1. M \in SUBSET Symbols /\ k.part \in Int /\ PerConnection \in Nat \ {0}
      BY MembersAre, Sizes DEF Keys
    <3> QED BY <3>1, SymbolSets
  <2>2. CASE Sole(r, k)
    <3>1. Cardinality(M) <= PerConnection
      BY <2>1, <2>2, Division DEF Sole
    <3>2. P = M \/ P = {}
      BY <2>2, PlanOf
    <3> QED BY <2>1, <3>1, <3>2, FS_EmptySet
  <2>3. CASE ~ Sole(r, k)
    <3>1. P = {s \in M : k.part = Rank(M, s) \div PerConnection + 1}
      BY <2>3, PlanOf
    <3>2. \A s \in M : Rank(M, s) \div PerConnection \in Nat
      BY <2>1, ChunkKey
    <3> HIDE DEF M, P
    <3>3. CASE k.part >= 1
      <4>1. k.part - 1 \in Nat
        BY <2>1, <3>3
      <4>2. P = {s \in M : Rank(M, s) \div PerConnection = k.part - 1}
        BY <2>1, <3>1, <3>2
      <4> QED BY <2>1, <4>1, <4>2, ChunkSmall DEF M, P
    <3>4. CASE ~ (k.part >= 1)
      <4>1. P = {}
        BY <2>1, <3>1, <3>2, <3>4
      <4> QED BY <2>1, <4>1, FS_EmptySet DEF M, P
    <3> QED BY <3>3, <3>4
  <2> QED BY <2>2, <2>3
<1>2. \A k \in Keys : PlanConnections(r)[k] \in SUBSET Symbols
  BY <1>1, MembersAre
<1>3. DOMAIN PlanConnections(r) = Keys /\ PlanConnections(r) = [k \in Keys |-> PlanConnections(r)[k]]
  BY DEF PlanConnections
<1> QED BY <1>1, <1>2, <1>3

\* Every scoped symbol is on a connection, and on one only.
LEMMA PlanCovers ==
    ASSUME NEW r \in Readings
    PROVE  /\ UNION {PlanConnections(r)[k] : k \in Keys} = Scoped(r)
           /\ \A j, k \in Keys : j # k => PlanConnections(r)[j] \cap PlanConnections(r)[k] = {}
<1> DEFINE P == PlanConnections(r)
<1>1. \A k \in Keys : P[k] \subseteq Members(r, k.exchange)
  BY PlanTyped
<1>2. ASSUME NEW s \in Scoped(r) PROVE \E k \in Keys : s \in P[k]
  <2> DEFINE e == r.exchange[s]
             M == Members(r, e)
             c == Rank(M, s) \div PerConnection + 1
  <2>1. e \in Exchanges /\ s \in M /\ M \in SUBSET Symbols
    BY <1>2, MembersAre DEF Members, Scoped, Readings
  <2>2. c \in 0 .. Cardinality(Symbols) /\ 0 \in 0 .. Cardinality(Symbols)
    <3>1. 0 \in 0 .. Cardinality(Symbols)
      BY Sizes
    <3> HIDE DEF M
    <3> QED BY <2>1, <3>1, ChunkKey
  <2>3. [exchange |-> e, part |-> 0] \in Keys /\ [exchange |-> e, part |-> c] \in Keys
    BY <2>1, <2>2 DEF Keys
  <2>4. CASE Sole(r, [exchange |-> e, part |-> 0])
    <3>1. P[[exchange |-> e, part |-> 0]] = M
      BY <2>3, <2>4, PlanOf
    <3> QED BY <2>1, <2>3, <3>1
  <2>5. CASE ~ Sole(r, [exchange |-> e, part |-> 0])
    <3>1. ~ Sole(r, [exchange |-> e, part |-> c])
      BY <2>5 DEF Sole
    <3>2. ASSUME NEW k \in Keys, k = [exchange |-> e, part |-> c] PROVE s \in P[k]
      <4>1. k.exchange = e /\ k.part = c /\ ~ Sole(r, k)
        BY <3>1, <3>2
      <4>2. P[k] = {t \in Members(r, k.exchange) :
                       k.part = Rank(Members(r, k.exchange), t) \div PerConnection + 1}
        BY <4>1, PlanOf
      <4> HIDE DEF P
      <4> QED BY <2>1, <4>1, <4>2
    <3> QED BY <2>3, <3>2
  <2> QED BY <2>4, <2>5
<1>3. UNION {P[k] : k \in Keys} = Scoped(r)
  BY <1>1, <1>2, MembersAre
<1>4. ASSUME NEW j \in Keys, NEW k \in Keys, NEW s \in P[j] \cap P[k] PROVE j = k
  <2>1. j.exchange = k.exchange
    BY <1>1, <1>4, MembersAre
  <2>2. Sole(r, j) <=> Sole(r, k)
    BY <2>1 DEF Sole
  <2>3. j.part = k.part
    <3>1. CASE Sole(r, j)
      BY <1>4, <2>2, <3>1, PlanOf
    <3>2. CASE ~ Sole(r, j)
      <4> DEFINE M == Members(r, j.exchange)
      <4>1. P[j] = {t \in M : j.part = Rank(M, t) \div PerConnection + 1}
        BY <3>2, PlanOf
      <4>2. P[k] = {t \in Members(r, k.exchange) :
                       k.part = Rank(Members(r, k.exchange), t) \div PerConnection + 1}
        BY <2>2, <3>2, PlanOf
      <4>3. M = Members(r, k.exchange)
        BY <2>1
      <4> HIDE DEF M, P
      <4> QED BY <1>4, <4>1, <4>2, <4>3
    <3> QED BY <3>1, <3>2
  <2> QED BY <2>1, <2>3 DEF Keys
<1>5. \A j, k \in Keys : j # k => P[j] \cap P[k] = {}
  BY <1>4
<1> QED BY <1>3, <1>5

\* plan_diff: what a key carries depends on the members of its exchange alone.
LEMMA PlanLocal ==
    ASSUME NEW r \in Readings, NEW q \in Readings, NEW k \in Keys,
           Members(r, k.exchange) = Members(q, k.exchange)
    PROVE  PlanConnections(r)[k] = PlanConnections(q)[k]
<1> DEFINE M == Members(r, k.exchange)
<1>1. Sole(r, k) <=> Sole(q, k)
  BY DEF Sole
<1>2. PlanConnections(r)[k] = IF Sole(r, k) THEN IF k.part = 0 THEN M ELSE {}
                              ELSE {s \in M : k.part = Rank(M, s) \div PerConnection + 1}
  BY PlanOf
<1>3. PlanConnections(q)[k] = IF Sole(q, k) THEN IF k.part = 0 THEN M ELSE {}
                              ELSE {s \in M : k.part = Rank(M, s) \div PerConnection + 1}
  <2>1. PlanConnections(q)[k] =
            IF Sole(q, k) THEN IF k.part = 0 THEN Members(q, k.exchange) ELSE {}
            ELSE {s \in Members(q, k.exchange) :
                     k.part = Rank(Members(q, k.exchange), s) \div PerConnection + 1}
    BY PlanOf
  <2> QED BY <2>1
<1> HIDE DEF M
<1> QED BY <1>1, <1>2, <1>3

--------------------------------------------------------------------------------
(* The steps.                                                              *)

\* TypeOK says of each variable what Types says.
LEMMA TypesIsTypeOK == TypeOK <=> Types
BY DEF TypeOK, Types

\* What the invariant says beyond types depends on the supervisor's variables and
\* on which tasks there are.
LEMMA PlanStays ==
    ASSUME Tasks, Roomy, OnPlan, UNCHANGED planVars,
           \A k \in Keys : at'[k] # "none" <=> at[k] # "none"
    PROVE  Tasks' /\ Roomy' /\ OnPlan'
<1>1. UNCHANGED <<sup, reading, toClose, toChange, running, closing>> /\ Plan' = Plan
  BY DEF planVars, Plan
<1>2. Tasks'
  BY <1>1 DEF Tasks
<1>3. Roomy'
  BY <1>1 DEF Roomy
<1>4. OnPlan'
  BY <1>1 DEF OnPlan
<1> QED BY <1>2, <1>3, <1>4

\* The command line, the catalogue, the writer and what a socket brings move no
\* connection.
Aside ==
    \/ \E s \in Symbols :
        \/ \E as \in {"quoted", "archived"} : ScopeAdd(s, as)
        \/ ScopeDisable(s)
        \/ Delist(s)
        \/ \E e \in Exchanges : Moves(s, e)
    \/ DisableQuotes \/ BootRefused \/ WriteQuotes
    \/ \E k \in Keys : FlushHealth(k) \/ \E s \in Symbols \cup Canary : Hears(k, s)

\* None of them disturbs the invariant.
LEMMA AsideKeeps == ScopeInv /\ Aside => ScopeInv'
<1> SUFFICES ASSUME ScopeInv, Aside PROVE ScopeInv'
  OBVIOUS
<1>1. Types
  BY DEF ScopeInv
<1>2. UNCHANGED <<planVars, at>>
  BY DEF Aside, ScopeAdd, ScopeDisable, Delist, Moves, DisableQuotes, BootRefused, WriteQuotes,
     FlushHealth, Hears, connVars, planVars
<1>3. UNCHANGED <<sup, reading, archived, toClose, closed, toChange, running, closing, at>>
  BY <1>2 DEF planVars
<1>4. Types'
  <2>1. ASSUME NEW s \in Symbols, NEW as \in {"quoted", "archived"}, ScopeAdd(s, as) PROVE Types'
    BY <1>1, <1>3, <2>1 DEF ScopeAdd, Types, connVars, boxVars
  <2>2. ASSUME NEW s \in Symbols, ScopeDisable(s) PROVE Types'
    BY <1>1, <1>3, <2>2 DEF ScopeDisable, Types, connVars, boxVars
  <2>3. ASSUME NEW s \in Symbols, Delist(s) PROVE Types'
    BY <1>1, <1>3, <2>3 DEF Delist, Types, connVars, boxVars
  <2>4. ASSUME NEW s \in Symbols, NEW e \in Exchanges, Moves(s, e) PROVE Types'
    BY <1>1, <1>3, <2>4 DEF Moves, Types, connVars, boxVars
  <2>5. CASE DisableQuotes
    BY <1>1, <1>3, <2>5 DEF DisableQuotes, Types, connVars
  <2>6. CASE BootRefused
    BY <1>1, <1>3, <2>6 DEF BootRefused, Types, scopeVars, connVars
  <2>7. CASE WriteQuotes
    BY <1>1, <1>3, <2>7 DEF WriteQuotes, Types, scopeVars, connVars
  <2>8. ASSUME NEW k \in Keys, FlushHealth(k) PROVE Types'
    BY <1>1, <1>3, <2>8 DEF FlushHealth, Types, scopeVars, connVars
  <2>9. ASSUME NEW k \in Keys, NEW s \in Symbols \cup Canary, Hears(k, s) PROVE Types'
    <3>1. UNCHANGED <<scope, active, exchange, disabling, rows, quotes>>
      BY <2>9 DEF Hears, scopeVars
    <3>2. heard' \subseteq Keys /\ healthBox' \subseteq Keys
      BY <1>1, <2>9 DEF Hears, Emit, Types
    <3>3. box' \subseteq Symbols
      <4>1. running[k] \subseteq Symbols
        BY <1>1 DEF Types
      <4> QED BY <1>1, <2>9, <4>1 DEF Hears, Types
    <3> QED BY <1>1, <1>3, <3>1, <3>2, <3>3 DEF Types
  <2> QED BY <2>1, <2>2, <2>3, <2>4, <2>5, <2>6, <2>7, <2>8, <2>9 DEF Aside
<1> QED BY <1>2, <1>4, PlanStays DEF ScopeInv

\* A connection that dials, reads, fails or waits stays a task of its entry.
LEMMA GoesKeeps ==
    ASSUME ScopeInv, NEW k \in Keys, NEW from,
           NEW to \in {"dial", "reading", "quiet", "lost", "backoff"},
           Goes(k, from, to), healthBox' = healthBox \/ healthBox' = healthBox \cup {k}
    PROVE  ScopeInv'
<1>1. Types /\ Tasks
  BY DEF ScopeInv
<1>2. UNCHANGED <<scope, active, exchange, disabling, heard, box, rows, quotes>> /\ UNCHANGED planVars
  BY DEF Goes, scopeVars
<1>3. at' = [at EXCEPT ![k] = to] /\ running[k] # {}
  BY DEF Goes, Running
<1>4. Types'
  <2>1. UNCHANGED <<sup, reading, archived, toClose, closed, toChange, running, closing>>
    BY <1>2 DEF planVars
  <2>2. at' \in [Keys -> {"none", "dial", "reading", "quiet", "lost", "backoff"}]
    BY <1>1, <1>3 DEF Types
  <2>3. healthBox' \subseteq Keys
    BY <1>1 DEF Types
  <2> QED BY <1>1, <1>2, <2>1, <2>2, <2>3 DEF Types
<1>5. \A j \in Keys : at'[j] # "none" <=> at[j] # "none"
  <2>1. at[k] # "none"
    BY <1>1, <1>3 DEF Tasks
  <2>2. \A j \in Keys : at'[j] = IF j = k THEN to ELSE at[j]
    BY <1>1, <1>3 DEF Types
  <2> QED BY <2>1, <2>2
<1> QED BY <1>2, <1>4, <1>5, PlanStays DEF ScopeInv

\* What a connection does by itself.
LEMMA ConnectionKeeps ==
    ASSUME ScopeInv, NEW k \in Keys,
           Connect(k) \/ DialFails(k) \/ Loses(k) \/ Quiet(k) \/ ReadsOn(k)
    PROVE  ScopeInv'
<1>2. CASE Opens(k)
  BY <1>2, GoesKeeps DEF Opens, Emit
<1>3. CASE NotesFailure(k)
  BY <1>3, GoesKeeps DEF NotesFailure, Emit
<1>4. CASE Redials(k)
  BY <1>4, GoesKeeps DEF Redials, Emit
<1>5. CASE DialFails(k)
  BY <1>5, GoesKeeps DEF DialFails, Emit
<1>6. CASE Loses(k)
  BY <1>6, GoesKeeps DEF Loses
<1>7. CASE Quiet(k)
  BY <1>7, GoesKeeps DEF Quiet
<1>8. CASE ReadsOn(k)
  BY <1>8, GoesKeeps DEF ReadsOn
<1> QED BY <1>2, <1>3, <1>4, <1>5, <1>6, <1>7, <1>8 DEF Connect

--------------------------------------------------------------------------------
(* The supervisor.                                                         *)

\* The scope as the database has it can be read.
LEMMA ScopeReads == Types => LoadScope \in Readings
<1> SUFFICES ASSUME Types PROVE LoadScope \in Readings
  OBVIOUS
<1>1. [s \in Symbols |-> IF s \in active THEN scope[s] ELSE "out"]
      \in [Symbols -> {"out", "quoted", "archived"}]
  BY DEF Types
<1> QED BY <1>1 DEF Types, LoadScope, Readings

\* run, up to its first sleep: each planned connection is a task.
LEMMA BootKeeps == ScopeInv /\ Boot => ScopeInv'
<1> SUFFICES ASSUME ScopeInv, Boot PROVE ScopeInv'
  OBVIOUS
<1> DEFINE plan == PlanConnections(LoadScope)
<1>1. Types /\ Roomy /\ LoadScope \in Readings
  BY ScopeReads DEF ScopeInv
<1>2. /\ plan \in [Keys -> SUBSET Symbols]
      /\ \A k \in Keys : Cardinality(plan[k]) <= PerConnection
  BY <1>1, PlanTyped
<1>3. Used(plan) \subseteq Keys /\ Archived(LoadScope) \subseteq Symbols
  BY DEF Used, Archived
<1> HIDE DEF plan
<1>4. /\ sup = "off" /\ Fits(plan) /\ sup' = "idle" /\ reading' = LoadScope
      /\ archived' = Archived(LoadScope) /\ running' = plan
      /\ at' = [k \in Keys |-> IF plan[k] = {} THEN "none" ELSE "dial"]
      /\ healthBox' = Used(plan) /\ rows' = {}
      /\ UNCHANGED <<scope, active, exchange, disabling, toClose, closed, toChange, closing, heard, box, quotes>>
  BY DEF Boot, scopeVars, plan
<1>5. Plan' = plan /\ closing' = NoKey
  BY <1>1, <1>4 DEF Plan, Roomy, plan
<1>6. Types'
  BY <1>1, <1>2, <1>3, <1>4 DEF Types
<1>7. Tasks'
  <2>1. \A k \in Keys : at'[k] # "none" <=> plan[k] # {}
    BY <1>4
  <2>2. \A k \in Keys : k # closing'
    BY <1>5, Sizes
  <2> QED BY <1>4, <1>5, <2>1, <2>2 DEF Tasks
<1>8. Roomy'
  BY <1>2, <1>4 DEF Roomy, Fits
<1>9. OnPlan'
  BY <1>4, <1>5 DEF OnPlan
<1> QED BY <1>6, <1>7, <1>8, <1>9 DEF ScopeInv

\* The start of _rescan: plan_diff against the plan that runs.
LEMMA RescanKeeps == ScopeInv /\ Rescan => ScopeInv'
<1> SUFFICES ASSUME ScopeInv, Rescan PROVE ScopeInv'
  OBVIOUS
<1> DEFINE plan == PlanConnections(LoadScope)
<1>1. Types /\ Tasks /\ Roomy /\ OnPlan /\ LoadScope \in Readings
  BY ScopeReads DEF ScopeInv
<1>2. plan \in [Keys -> SUBSET Symbols]
  BY <1>1, PlanTyped
<1> HIDE DEF plan
<1>3. /\ sup = "idle" /\ sup' = "close" /\ reading' = LoadScope
      /\ toClose' = ToClose(plan) /\ closed' = ToClose(plan) /\ toChange' = ToChange(plan)
      /\ UNCHANGED <<scope, active, exchange, disabling, archived, running, closing, at, heard,
                     healthBox, box, rows, quotes>>
  BY DEF Rescan, scopeVars, connVars, boxVars, plan
<1>4. Plan' = plan /\ closing' = NoKey
  BY <1>1, <1>3 DEF Plan, OnPlan, plan
<1>5. /\ \A k \in Keys : k \in toClose' <=> running[k] # {} /\ plan[k] = {}
      /\ \A k \in Keys : k \in toChange' <=> plan[k] # {} /\ running[k] # {} /\ running[k] # plan[k]
      /\ toClose' \subseteq Keys /\ closed' \subseteq Keys /\ toChange' \subseteq Keys
  BY <1>3 DEF ToClose, ToChange, Used
<1>6. Types'
  BY <1>1, <1>3, <1>5 DEF Types
<1>7. Tasks' /\ Roomy'
  BY <1>1, <1>3 DEF Tasks, Roomy
<1>8. OnPlan'
  <2>1. \A k \in Keys : k # closing'
    BY <1>4, Sizes
  <2> QED BY <1>3, <1>4, <1>5, <2>1 DEF OnPlan
<1> QED BY <1>6, <1>7, <1>8 DEF ScopeInv

\* _close pops an entry: the task that is left is the closing one.
LEMMA BeginCloseKeeps == ASSUME ScopeInv, NEW k \in Keys, BeginClose(k) PROVE ScopeInv'
<1>1. Types /\ Tasks /\ Roomy /\ OnPlan
  BY DEF ScopeInv
<1>2. /\ closing = NoKey /\ k \in Due /\ closing' = k
      /\ running' = [running EXCEPT ![k] = {}]
      /\ toClose' = toClose \ {k} /\ toChange' = toChange \ {k}
      /\ UNCHANGED <<scope, active, exchange, disabling, sup, reading, archived, closed, at, heard,
                     healthBox, box, rows, quotes>>
  BY DEF BeginClose, scopeVars, connVars, boxVars
<1>3. Plan' = Plan
  BY <1>2 DEF Plan
<1>4. /\ running' \in [Keys -> SUBSET Symbols]
      /\ \A j \in Keys : running'[j] = IF j = k THEN {} ELSE running[j]
  BY <1>1, <1>2 DEF Types
<1>5. Types'
  BY <1>1, <1>2, <1>4 DEF Types
<1>6. running[k] # {}
  <2>1. CASE sup = "close"
    <3>1. k \in toClose
      BY <1>2, <2>1 DEF Due
    <3> QED BY <1>1, <2>1, <3>1 DEF OnPlan
  <2>2. CASE sup = "change"
    <3>1. k \in toChange
      BY <1>2, <2>2 DEF Due
    <3> QED BY <1>1, <2>2, <3>1 DEF OnPlan
  <2>3. CASE sup = "stop"
    BY <1>2, <2>3 DEF Due, Used
  <2> QED BY <1>2, <2>1, <2>2, <2>3 DEF Due
<1>7. Tasks'
  <2>1. \A j \in Keys : j # closing
    BY <1>2, Sizes
  <2> QED BY <1>1, <1>2, <1>4, <1>6, <2>1 DEF Tasks
<1>8. Roomy'
  <2>1. \A j \in Keys : Cardinality(running'[j]) <= PerConnection
    BY <1>1, <1>4, FS_EmptySet, Sizes DEF Roomy
  <2>2. sup # "off"
    BY <1>2 DEF Due
  <2> QED BY <1>1, <1>2, <2>1, <2>2 DEF Roomy
<1>9. OnPlan'
  <2>1. sup # "idle"
    BY <1>2 DEF Due
  <2>2. sup = "close" => k \in toClose
    BY <1>2 DEF Due
  <2>3. sup = "change" => k \in toChange
    BY <1>2 DEF Due
  <2>4. CASE sup = "close"
    <3>1. ASSUME NEW j \in Keys
          PROVE  /\ j = k => Plan[j] = {}
                 /\ j \in toClose' <=> Plan[j] = {} /\ running'[j] # {}
                 /\ j \in toChange' <=> Plan[j] # {} /\ running'[j] # {} /\ running'[j] # Plan[j]
      BY <1>1, <1>2, <1>4, <2>2, <2>4 DEF OnPlan
    <3> QED BY <1>2, <1>3, <2>4, <3>1 DEF OnPlan
  <2>5. CASE sup = "change"
    <3>1. \A j \in Keys : j # closing
      BY <1>2, Sizes
    <3>2. ASSUME NEW j \in Keys
          PROVE  /\ j = k => Plan[j] # {}
                 /\ j \in toChange' => Plan[j] # {} /\ running'[j] # {}
                 /\ j \in toChange' \/ j = k \/ running'[j] = Plan[j]
      BY <1>1, <1>2, <1>4, <2>3, <2>5, <3>1 DEF OnPlan
    <3> QED BY <1>2, <1>3, <2>5, <3>2 DEF OnPlan
  <2> QED BY <1>2, <2>1, <2>4, <2>5 DEF OnPlan
<1> QED BY <1>5, <1>7, <1>8, <1>9 DEF ScopeInv

\* The closing task has ended; a replaced connection starts at once.
LEMMA UnwoundKeeps == ScopeInv /\ Unwound => ScopeInv'
<1> SUFFICES ASSUME ScopeInv, Unwound PROVE ScopeInv'
  OBVIOUS
<1> DEFINE starts == sup = "change"
<1>1. Types /\ Tasks /\ Roomy /\ OnPlan
  BY DEF ScopeInv
<1>2. /\ closing # NoKey /\ closing' = NoKey /\ heard' = heard \ {closing}
      /\ at' = [at EXCEPT ![closing] = IF starts THEN "dial" ELSE "none"]
      /\ running' = IF starts THEN [running EXCEPT ![closing] = Plan[closing]] ELSE running
      /\ \E last \in LastWords : healthBox' = healthBox \cup (last \cup IF starts THEN {closing} ELSE {})
      /\ UNCHANGED <<scope, active, exchange, disabling, sup, reading, archived, toClose, closed, toChange,
                     box, rows, quotes>>
  BY DEF Unwound, scopeVars, Emit, Plan
<1>3. closing \in Keys /\ running[closing] = {} /\ sup \notin {"off", "idle"}
  BY <1>1, <1>2 DEF Types, Tasks, Roomy, OnPlan
<1>4. /\ Plan \in [Keys -> SUBSET Symbols]
      /\ \A k \in Keys : Cardinality(Plan[k]) <= PerConnection
      /\ Plan' = Plan
  BY <1>1, <1>2, PlanTyped DEF Plan, Types
<1>5. /\ running' \in [Keys -> SUBSET Symbols]
      /\ \A k \in Keys : running'[k] = IF k = closing /\ starts THEN Plan[k] ELSE running[k]
  <2>1. Plan[closing] \in SUBSET Symbols
    BY <1>3, <1>4
  <2> QED BY <1>1, <1>2, <1>3, <2>1 DEF Types
<1>6. /\ at' \in [Keys -> {"none", "dial", "reading", "quiet", "lost", "backoff"}]
      /\ \A k \in Keys : at'[k] = IF k = closing THEN IF starts THEN "dial" ELSE "none" ELSE at[k]
  BY <1>1, <1>2, <1>3 DEF Types
<1>7. Types'
  <2>1. healthBox' \subseteq Keys
    BY <1>1, <1>2, <1>3 DEF LastWords, Types
  <2>2. heard' \subseteq Keys
    BY <1>1, <1>2 DEF Types
  <2> QED BY <1>1, <1>2, <1>5, <1>6, <2>1, <2>2 DEF Types
<1>8. starts => Plan[closing] # {}
  BY <1>1, <1>3 DEF OnPlan
<1>9. Tasks'
  <2>1. \A k \in Keys : k # closing'
    BY <1>2, Sizes
  <2> QED BY <1>1, <1>2, <1>3, <1>5, <1>6, <1>8, <2>1 DEF Tasks
<1>10. Roomy'
  <2>1. \A k \in Keys : Cardinality(running'[k]) <= PerConnection
    BY <1>1, <1>4, <1>5 DEF Roomy
  <2> QED BY <1>1, <1>2, <1>3, <2>1 DEF Roomy
<1>11. OnPlan'
  <2>1. \A k \in Keys : k # closing'
    BY <1>2, Sizes
  <2>2. \A k \in Keys : k = closing => running'[k] = IF starts THEN Plan[k] ELSE {}
    BY <1>3, <1>5
  <2>3. \A k \in Keys : k # closing => running'[k] = running[k]
    BY <1>5
  <2>4. CASE sup = "close"
    BY <1>1, <1>2, <1>3, <1>4, <2>1, <2>2, <2>3, <2>4 DEF OnPlan
  <2>5. CASE sup = "change"
    BY <1>1, <1>2, <1>3, <1>4, <1>8, <2>1, <2>2, <2>3, <2>5 DEF OnPlan
  <2> QED BY <1>2, <1>3, <2>4, <2>5 DEF OnPlan
<1> QED BY <1>7, <1>9, <1>10, <1>11 DEF ScopeInv

\* All closed: what the plan adds starts, and only replacements are left to do.
LEMMA OpenKeeps == ScopeInv /\ Open => ScopeInv'
<1> SUFFICES ASSUME ScopeInv, Open PROVE ScopeInv'
  OBVIOUS
<1>1. Types /\ Tasks /\ Roomy /\ OnPlan
  BY DEF ScopeInv
<1>2. /\ sup = "close" /\ closing = NoKey /\ toClose = {} /\ sup' = "change" /\ closed' = {}
      /\ running' = [k \in Keys |-> IF k \in ToOpen(Plan) THEN Plan[k] ELSE running[k]]
      /\ at' = [k \in Keys |-> IF k \in ToOpen(Plan) THEN "dial" ELSE at[k]]
      /\ rows' = rows \ closed /\ healthBox' = healthBox \cup ToOpen(Plan)
      /\ UNCHANGED <<scope, active, exchange, disabling, reading, archived, toClose, toChange, closing,
                     heard, box, quotes>>
  BY DEF Open, scopeVars, Emit, Plan
<1>3. /\ Plan \in [Keys -> SUBSET Symbols]
      /\ \A k \in Keys : Cardinality(Plan[k]) <= PerConnection
      /\ Plan' = Plan
  BY <1>1, <1>2, PlanTyped DEF Plan, Types
<1>4. /\ ToOpen(Plan) \subseteq Keys
      /\ \A k \in Keys : k \in ToOpen(Plan) <=> Plan[k] # {} /\ running[k] = {}
  BY DEF ToOpen, Used
<1>5. /\ running' \in [Keys -> SUBSET Symbols]
      /\ \A k \in Keys : running'[k] = IF Plan[k] # {} /\ running[k] = {} THEN Plan[k] ELSE running[k]
  BY <1>1, <1>2, <1>3, <1>4 DEF Types
<1>6. /\ at' \in [Keys -> {"none", "dial", "reading", "quiet", "lost", "backoff"}]
      /\ \A k \in Keys : at'[k] = IF Plan[k] # {} /\ running[k] = {} THEN "dial" ELSE at[k]
  BY <1>1, <1>2, <1>4 DEF Types
<1>7. Types'
  BY <1>1, <1>2, <1>4, <1>5, <1>6 DEF Types
<1>8. \A k \in Keys : k # closing /\ k # closing'
  BY <1>2, Sizes
<1>9. Tasks'
  BY <1>1, <1>2, <1>5, <1>6, <1>8 DEF Tasks
<1>10. Roomy'
  <2>1. \A k \in Keys : Cardinality(running'[k]) <= PerConnection
    BY <1>1, <1>3, <1>5 DEF Roomy
  <2> QED BY <1>1, <1>2, <2>1 DEF Roomy
<1>11. OnPlan'
  <2>1. ASSUME NEW k \in Keys
        PROVE  /\ k \in toChange => Plan[k] # {} /\ running'[k] # {}
               /\ k \in toChange \/ running'[k] = Plan[k]
    BY <1>1, <1>2, <1>5 DEF OnPlan
  <2> QED BY <1>2, <1>3, <1>8, <2>1 DEF OnPlan
<1> QED BY <1>7, <1>9, <1>10, <1>11 DEF ScopeInv

\* The end of _rescan: what runs is the plan.
LEMMA DepartKeeps == ScopeInv /\ Depart => ScopeInv'
<1> SUFFICES ASSUME ScopeInv, Depart PROVE ScopeInv'
  OBVIOUS
<1>1. Types /\ Tasks /\ Roomy /\ OnPlan
  BY DEF ScopeInv
<1>2. /\ sup = "change" /\ closing = NoKey /\ toChange = {} /\ sup' = "idle"
      /\ quotes' \subseteq quotes /\ archived' = Archived(reading)
      /\ UNCHANGED <<scope, active, exchange, disabling, reading, toClose, closed, toChange, running,
                     closing, at, heard, healthBox, box, rows>>
  BY DEF Depart, scopeVars, connVars
<1>3. Plan' = Plan /\ Plan \in [Keys -> SUBSET Symbols] /\ running \in [Keys -> SUBSET Symbols]
  BY <1>1, <1>2, PlanTyped DEF Plan, Types
<1>4. Types'
  <2>1. Archived(reading) \subseteq Symbols
    BY DEF Archived
  <2> QED BY <1>1, <1>2, <2>1 DEF Types
<1>5. Tasks' /\ Roomy'
  BY <1>1, <1>2 DEF Tasks, Roomy
<1>6. running = Plan
  <2>1. \A k \in Keys : k # closing
    BY <1>2, Sizes
  <2>2. \A k \in Keys : running[k] = Plan[k]
    BY <1>1, <1>2, <2>1 DEF OnPlan
  <2> QED BY <1>3, <2>2
<1>7. OnPlan'
  BY <1>2, <1>3, <1>6 DEF OnPlan
<1> QED BY <1>4, <1>5, <1>7 DEF ScopeInv

\* A stop, the end of the process, and a kill.
LEMMA EndKeeps == ScopeInv /\ (Ends \/ Ended \/ Crash) => ScopeInv'
<1> SUFFICES ASSUME ScopeInv, Ends \/ Ended \/ Crash PROVE ScopeInv'
  OBVIOUS
<1>1. Types /\ Tasks /\ Roomy /\ OnPlan
  BY DEF ScopeInv
<1>2. CASE Ends
  <2>1. /\ sup # "off" /\ sup' = "stop"
        /\ UNCHANGED <<scope, active, exchange, disabling, reading, archived, toClose, closed, toChange,
                       running, closing, at, heard, healthBox, box, rows, quotes>>
    BY <1>2 DEF Ends, scopeVars, connVars, boxVars
  <2>2. Types'
    BY <1>1, <2>1 DEF Types
  <2>3. Tasks' /\ Roomy' /\ OnPlan'
    BY <1>1, <2>1 DEF Tasks, Roomy, OnPlan
  <2> QED BY <2>2, <2>3 DEF ScopeInv
<1>3. CASE Ended \/ Crash
  <2>1. /\ sup' = "off" /\ closing' = NoKey
        /\ archived' = {} /\ toClose' = {} /\ closed' = {} /\ toChange' = {}
        /\ running' = [k \in Keys |-> {}] /\ at' = [k \in Keys |-> "none"]
        /\ heard' = {} /\ healthBox' = {} /\ box' = {} /\ (rows' = {} \/ rows' = rows)
        /\ UNCHANGED <<scope, active, exchange, disabling, reading, quotes>>
    BY <1>3 DEF Ended, Crash, Forgotten, scopeVars
  <2>2. Types'
    <3>1. [k \in Keys |-> {}] \in [Keys -> SUBSET Symbols]
      OBVIOUS
    <3> QED BY <1>1, <2>1, <3>1 DEF Types
  <2>3. Tasks'
    <3>1. \A k \in Keys : k # NoKey
      BY Sizes
    <3> QED BY <2>1, <3>1 DEF Tasks
  <2>4. Roomy'
    <3>1. Cardinality({}) = 0 /\ PerConnection \in Nat
      BY FS_EmptySet, Sizes
    <3> QED BY <2>1, <3>1 DEF Roomy
  <2>5. OnPlan'
    BY <2>1 DEF OnPlan
  <2> QED BY <2>2, <2>3, <2>4, <2>5 DEF ScopeInv
<1> QED BY <1>2, <1>3

--------------------------------------------------------------------------------
(* The theorems.                                                           *)

\* The invariant holds before the first boot.
LEMMA ScopeStarts == Init => ScopeInv
<1> SUFFICES ASSUME Init PROVE ScopeInv
  OBVIOUS
<1>1. scope \in [Symbols -> {"out", "quoted", "archived"}] /\ exchange \in [Symbols -> Exchanges]
  BY ScopeAssumption DEF Init
<1>2. reading \in Readings
  <2>1. NoRow \in [Symbols -> {"out", "quoted", "archived"}]
    BY DEF NoRow
  <2> QED BY <1>1, <2>1 DEF Init, Readings
<1>3. Types
  <2>1. running \in [Keys -> SUBSET Symbols]
    BY DEF Init
  <2> QED BY <1>1, <1>2, <2>1 DEF Init, Types
<1>4. Tasks
  BY Sizes DEF Init, Tasks
<1>5. Roomy
  <2>1. Cardinality({}) = 0
    BY FS_EmptySet
  <2> QED BY <2>1, Sizes DEF Init, Roomy
<1> QED BY <1>3, <1>4, <1>5 DEF ScopeInv, OnPlan, Init

\* Every step keeps it.
LEMMA ScopeKept == ScopeInv /\ [Next]_vars => ScopeInv'
<1> SUFFICES ASSUME ScopeInv, [Next]_vars PROVE ScopeInv'
  OBVIOUS
<1>1. CASE Aside
  BY <1>1, AsideKeeps
<1>2. CASE Boot \/ Ends \/ Crash
  BY <1>2, BootKeeps, EndKeeps
<1>3. CASE Supervise
  BY <1>3, RescanKeeps, UnwoundKeeps, OpenKeeps, DepartKeeps, EndKeeps, BeginCloseKeeps DEF Supervise
<1>4. ASSUME NEW k \in Keys, Connect(k) \/ DialFails(k) \/ Loses(k) \/ Quiet(k) \/ ReadsOn(k)
      PROVE  ScopeInv'
  BY <1>4, ConnectionKeeps
<1>5. CASE UNCHANGED vars
  <2>1. UNCHANGED planVars /\ UNCHANGED at
    BY <1>5 DEF vars, connVars
  <2>2. Types'
    BY <1>5 DEF ScopeInv, Types, vars, scopeVars, planVars, connVars, boxVars
  <2> QED BY <2>1, <2>2, PlanStays DEF ScopeInv
<1> QED BY <1>1, <1>2, <1>3, <1>4, <1>5 DEF Next, Aside

\* The strengthening holds of every reachable state.
THEOREM ScopeTied == Spec => []ScopeInv
BY ScopeStarts, ScopeKept, PTL DEF Spec

\* Between two rescans the connections are those of the last reading that fits:
\* every scoped symbol on one of them, exchanges apart; and at every instant no
\* subscription, canary included, is longer than what Yahoo keeps, and a task runs
\* only for an entry of _running or for the key being closed.
THEOREM SocketsFollow == Spec => []SocketsFollowPlan
<1>1. ScopeInv => SocketsFollowPlan
  <2> SUFFICES ASSUME ScopeInv PROVE SocketsFollowPlan
    OBVIOUS
  <2>1. Types /\ Tasks /\ Roomy /\ OnPlan
    BY DEF ScopeInv
  <2>2. reading \in Readings
    BY <2>1 DEF Types
  <2>3. ASSUME sup = "idle"
        PROVE  /\ UNION {running[k] : k \in Keys} = Scoped(reading)
               /\ \A j, k \in Keys : j # k => running[j] \cap running[k] = {}
               /\ \A k \in Keys : \A s \in running[k] : reading.exchange[s] = k.exchange
    <3>1. running = PlanConnections(reading)
      BY <2>1, <2>3 DEF OnPlan, Plan
    <3>2. \A k \in Keys : \A s \in running[k] : reading.exchange[s] = k.exchange
      BY <2>2, <3>1, PlanTyped, MembersAre
    <3> QED BY <2>2, <3>1, <3>2, PlanCovers
  <2>4. ASSUME NEW k \in Used(running) PROVE Cardinality(Subscription(k)) <= Limit
    <3>1. k \in Keys /\ running[k] # {} /\ running[k] \in SUBSET Symbols
      BY <2>1 DEF Used, Types
    <3>2. sup # "off"
      BY <2>1, <3>1 DEF Roomy
    <3>3. /\ Cardinality(running[k]) <= PerConnection
          /\ PerConnection <= Limit - Cardinality(Canary)
      BY <2>1, <3>1, <3>2 DEF Roomy
    <3>4. IsFiniteSet(running[k]) /\ Cardinality(running[k]) \in Nat
      BY <3>1, SymbolSets
    <3>5. running[k] \cap Canary \in SUBSET Symbols
      BY <3>1
    <3>6. Cardinality(running[k] \cap Canary) \in Nat
      BY <3>5, SymbolSets
    <3>7. Cardinality(Subscription(k))
          = Cardinality(running[k]) + Cardinality(Canary) - Cardinality(running[k] \cap Canary)
      BY <3>4, Sizes, FS_Union DEF Subscription
    <3> QED BY <3>3, <3>4, <3>6, <3>7, Sizes
  <2>5. \A k \in Keys : at[k] # "none" <=> (running[k] # {} \/ k = closing)
    BY <2>1 DEF Tasks
  <2> QED BY <2>1, <2>3, <2>4, <2>5, TypesIsTypeOK DEF SocketsFollowPlan
<1> QED BY <1>1, ScopeTied, PTL

\* A rescan that begins with the connections of the plan closes or replaces none
\* whose exchange has the members it had, and a quote goes only with the row of its
\* scope, or because `scope disable` takes it.
THEOREM RescanIsLocal == Spec => RescanTakesWhatLeft
<1> DEFINE Local ==
        /\ sup = "idle" /\ sup' = "close" =>
              \A k \in toClose' \cup toChange' :
                  Members(reading, k.exchange) # Members(reading', k.exchange)
        /\ \A s \in quotes \ quotes' : s \in disabling \/ s \notin Scoped(reading)
<1>1. ASSUME ScopeInv, ScopeInv', Next PROVE Local
  <2>1. ASSUME sup = "idle", sup' = "close", NEW k \in toClose' \cup toChange',
               Members(reading, k.exchange) = Members(reading', k.exchange)
        PROVE  FALSE
    <3>1. /\ sup' = "close" /\ reading \in Readings /\ reading' \in Readings /\ k \in Keys
          /\ running = PlanConnections(reading)
      BY <1>1, <2>1 DEF ScopeInv, Types, OnPlan, Plan
    <3>2. running' = running
      <4>1. ~ (Boot \/ Crash \/ Ends)
        BY <2>1 DEF Boot, Crash, Ends, Forgotten
      <4>2. ~ (Unwound \/ Open \/ Depart \/ Ended \/ \E j \in Keys : BeginClose(j))
        BY <2>1 DEF Unwound, Open, Depart, Ended, BeginClose
      <4>3. CASE Rescan
        BY <4>3 DEF Rescan
      <4>4. ASSUME Next, ~ Rescan PROVE sup' = sup
        BY <4>1, <4>2, <4>4 DEF Next, Supervise, ScopeAdd, ScopeDisable, Delist, Moves, DisableQuotes,
           BootRefused, Connect, Opens, NotesFailure, Redials, DialFails, Loses, Quiet, ReadsOn, Hears,
           Goes, FlushHealth, WriteQuotes, planVars
      <4> QED BY <1>1, <2>1, <4>3, <4>4
    <3>3. PlanConnections(reading)[k] = PlanConnections(reading')[k]
      BY <2>1, <3>1, PlanLocal
    <3>4. running'[k] = PlanConnections(reading')[k]
      BY <3>1, <3>2, <3>3
    <3> QED BY <1>1, <2>1, <3>1, <3>4 DEF ScopeInv, OnPlan, Plan
  <2>2. ASSUME NEW s \in quotes \ quotes' PROVE s \in disabling \/ s \notin Scoped(reading)
    <3>1. CASE DisableQuotes
      BY <2>2, <3>1 DEF DisableQuotes
    <3>2. CASE Depart
      BY <2>2, <3>2 DEF Depart, Departed
    <3>3. ASSUME ~ DisableQuotes, ~ Depart PROVE quotes \subseteq quotes'
      BY <1>1, <3>3 DEF Next, Supervise, ScopeAdd, ScopeDisable, Delist, Moves, Boot, BootRefused,
         Rescan, Unwound, Open, Ended, BeginClose, Ends, Crash, Forgotten,
         Connect, Opens, NotesFailure, Redials, DialFails, Loses, Quiet, ReadsOn, Hears,
         Goes, FlushHealth, WriteQuotes, boxVars
    <3> QED BY <2>2, <3>1, <3>2, <3>3
  <2> QED BY <2>1, <2>2
<1>2. ScopeInv /\ ScopeInv' /\ [Next]_vars => [Local]_vars
  BY <1>1
<1> QED BY <1>2, ScopeTied, PTL DEF Spec, RescanTakesWhatLeft
================================================================================

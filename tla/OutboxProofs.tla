----------------------------- MODULE OutboxProofs -----------------------------
(***************************************************************************)
(* Proofs about Outbox, for every set of transactions and keys, both       *)
(* cursors and every value of the bounds.                                  *)
(*                                                                         *)
(* The argument: a row still inside its transaction always lies after the  *)
(* cursor and after the batch in hand (NothingPassed), whichever cursor    *)
(* walks the queue; a batch is a prefix of what is left (BatchIsPrefix);   *)
(* and an acknowledged pass has delivered all of it (PassAccounted).  So   *)
(* moving the cursor to the last message of the batch skips nothing.       *)
(* What the id cursor's cleanup may drop unpublished was committed between *)
(* the two reads of its cutoff and has never been offered to the broker    *)
(* (Unoffered); the xid cursor has no such rows.  With the id cursor the   *)
(* same pass order decides the last message of a key (TailInv): ids grow   *)
(* in commit order, and a late delivery of an old pass is always followed  *)
(* by the newer rows of its key.                                           *)
(***************************************************************************)
EXTENDS Outbox, SequenceTheorems, FiniteSetTheorems, FunctionTheorems, TLAPS

Uncommitted == rows \ committed

\* A row committed between the two reads of the cutoff and in no pass so far.
Unoffered(r) ==
    /\ r \in window
    /\ r \notin delivered
    /\ \A i \in 1..Len(inflight) : r \notin inflight[i]

\* Rows dropped before they were published.
Lost == (committed \ rows) \ delivered

\* The cursor never stands beyond a row of the queue that was not acknowledged.
QueueNotSkipped == \A r \in committed \cap rows : Leq(r, cursor) => r \in delivered

\* A row belongs to one transaction, and only an open one has uncommitted rows.
RowsOwned ==
    /\ \A r, q \in rows \cup committed : r.id = q.id => r = q
    /\ \A r \in rows \cup committed : 0 < r.xid /\ r.xid < nextXid
    /\ \A t \in Txns : Active(t) => 0 < xid[t]
    /\ \A t, u \in Txns : Active(t) /\ Active(u) /\ xid[t] = xid[u] => t = u
    /\ \A r \in Uncommitted : \E t \in Txns : state[t] = "flushed" /\ xid[t] = r.xid
    /\ \A t \in Txns : Active(t) => \A r \in committed : r.xid # xid[t]
    /\ \A t \in Txns : state[t] = "open" => \A r \in rows : r.xid # xid[t]
    /\ SingleWriter => \A t, u \in Txns : Active(t) /\ Active(u) => t = u

\* Whatever is not committed yet will commit after the cursor and the batch.
NothingPassed ==
    /\ batch \subseteq committed
    /\ XidWalk =>
         /\ cursor.xid < nextXid
         /\ \A t \in Txns : Active(t) => cursor.xid < xid[t]
         /\ \A t \in Txns : Active(t) => \A b \in batch : b.xid < xid[t]
    /\ ~XidWalk =>
         /\ cursor.id < nextId
         /\ \A r \in Uncommitted : cursor.id < r.id
         /\ \A r \in Uncommitted : \A q \in committed : q.id < r.id

\* Every committed row listed before one of the batch is done or in the batch.
BatchIsPrefix ==
    /\ \A b \in batch : ~Leq(b, cursor)
    /\ \A b \in batch : \A r \in committed :
          Before(r, b) => Leq(r, cursor) \/ r \in batch \/ r \notin rows
    /\ pc \notin {"flush", "acked"} => batch = {}

\* What happened to the messages of the current pass.
PassAccounted ==
    /\ delivered \subseteq committed
    /\ \A i \in 1..Len(inflight) : inflight[i] \subseteq committed
    /\ pc = "flush" => Len(inflight) > 0
    /\ pc = "flush" /\ ~failed => batch \subseteq delivered \cup inflight[Len(inflight)]
    /\ pc = "acked" => batch \subseteq delivered

\* A dropped row was published, or fell between the two reads of a cutoff, and
\* the pending cutoff will only drop such rows.
CleanupSafe ==
    /\ XidWalk => window = {}
    /\ \A r \in committed \ rows : r \in delivered \/ Unoffered(r)
    /\ \A r \in committed \ rows : Leq(r, cursor) \/ Unoffered(r)
    /\ \A r \in rows : r.created <= clock
    /\ \A r \in Uncommitted : clock <= r.created + OpenLimit
    /\ ~XidWalk => \A r, q \in rows : r.id < q.id => r.created <= q.created
    /\ pc = "newest" => ~XidWalk /\ \A r \in Unpublished : Unoffered(r)
    /\ pc = "drop" =>
         /\ cutoff <= clock
         /\ \A r \in rows : r.created < cutoff =>
               r \in committed /\ (Leq(r, cursor) \/ Unoffered(r))

IInv ==
    /\ TypeOK
    /\ IsFiniteSet(rows)
    /\ RowsOwned
    /\ NothingPassed
    /\ BatchIsPrefix
    /\ PassAccounted
    /\ CleanupSafe
    /\ QueueNotSkipped

-------------------------------------------------------------------------------
(* The order of the walk *)

\* A row recorded as the position covers exactly itself and the rows before it,
\* and a position never loses ground to a row that lies after it.
LEMMA WalkOrder ==
    ASSUME NEW r \in Row, NEW b \in Row, NEW c \in Position
    PROVE  /\ PosOf(b) \in Position
           /\ Leq(r, PosOf(b)) => Before(r, b) \/ r.id = b.id
           /\ Leq(r, c) /\ ~Leq(b, c) => Leq(r, PosOf(b))
BY CursorAssumption DEF Row, Position, PosOf, Leq, Before

\* The walk orders rows transitively.
LEMMA BeforeTransitive ==
    ASSUME NEW r \in Row, NEW q \in Row, NEW b \in Row, Before(r, q), Before(q, b)
    PROVE  Before(r, b)
BY CursorAssumption DEF Row, Before

\* ORDER BY ... LIMIT n returns a prefix: with a row, every row before it.
LEMMA FirstNIsPrefix ==
    ASSUME NEW S, S \subseteq Row, IsFiniteSet(S), NEW n \in Nat,
           NEW b \in FirstN(S, n), NEW r \in S, Before(r, b)
    PROVE  r \in FirstN(S, n)
<1> DEFINE Below(x) == {q \in S : Before(q, x)}
<1>1. Below(r) \subseteq Below(b)
  BY BeforeTransitive DEF FirstN
<1>2. IsFiniteSet(Below(b))
  <2>1. Below(b) \in SUBSET S
    OBVIOUS
  <2>2. QED
    BY <2>1, FS_Subset
<1>3. IsFiniteSet(Below(r)) /\ Cardinality(Below(r)) <= Cardinality(Below(b))
  BY <1>1, <1>2, FS_Subset
<1>4. Cardinality(Below(r)) \in Nat /\ Cardinality(Below(b)) \in Nat
  BY <1>2, <1>3, FS_CardinalityType
<1>5. Cardinality(Below(b)) < n
  BY DEF FirstN
<1>6. Cardinality(Below(r)) < n
  BY <1>3, <1>4, <1>5
<1>7. QED
  BY <1>6 DEF FirstN

\* A row still inside its transaction lies after the cursor and the batch.
LEMMA UncommittedIsAhead ==
    ASSUME IInv, NEW r \in Uncommitted
    PROVE  ~Leq(r, cursor) /\ \A b \in batch : ~Before(r, b)
<1> USE DEF IInv, NothingPassed, TypeOK, Row, Position, Uncommitted
<1>1. CASE XidWalk
  <2>1. PICK t \in Txns : state[t] = "flushed" /\ xid[t] = r.xid
    BY DEF RowsOwned
  <2>2. QED
    BY <1>1, <2>1 DEF Leq, Before, Active
<1>2. CASE ~XidWalk
  BY <1>2 DEF Leq, Before
<1>3. QED
  BY <1>1, <1>2

-------------------------------------------------------------------------------
(* The initial state and the writers *)

LEMMA InitIInv == Init => IInv
<1> SUFFICES ASSUME Init PROVE IInv
  OBVIOUS
<1>1. TypeOK
  <2>1. <<>> \in Seq(Keys) /\ <<>> \in Seq(SUBSET Row)
    BY EmptySeq
  <2>2. events \in [Txns -> Seq(Keys)] /\ inflight \in Seq(SUBSET Row)
    BY <2>1 DEF Init
  <2>3. tail \in [Keys -> Nat] /\ newest \in [Keys -> SUBSET Row]
    BY DEF Init
  <2>4. state \in [Txns -> TxnStates] /\ xid \in [Txns -> Nat]
    BY DEF Init, TxnStates
  <2>5. failed \in BOOLEAN /\ cursor \in Position /\ pc \in RelayStates
    BY DEF Init, Position, RelayStates
  <2>6. \A t \in Txns : xid[t] < nextXid
    BY DEF Init
  <2>7. QED
    BY <2>2, <2>3, <2>4, <2>5, <2>6 DEF Init, TypeOK
<1>2. IsFiniteSet(rows)
  BY FS_EmptySet DEF Init
<1>3. inflight \in Seq(SUBSET Row) /\ Len(inflight) = 0
  BY EmptySeq DEF Init
<1>4. QED
  BY <1>1, <1>2, <1>3 DEF Init, IInv, RowsOwned, NothingPassed, BatchIsPrefix,
     PassAccounted, CleanupSafe, Unoffered, QueueNotSkipped, Uncommitted, Active

LEMMA BeginStep == ASSUME IInv, NEW t \in Txns, Begin(t) PROVE IInv'
<1> USE DEF IInv, Begin, relayVars
<1>1. TypeOK'
  BY DEF TypeOK, TxnStates
<1>2. RowsOwned'
  <2>1. \A r \in rows \cup committed : 0 < r.xid /\ r.xid < nextXid /\ r.xid \in Nat
    BY DEF RowsOwned, TypeOK, Row
  <2>2. nextXid \in Nat /\ nextXid' = nextXid + 1 /\ nextXid > 0
    BY DEF TypeOK
  <2>3. /\ Active(t)' /\ xid'[t] = nextXid /\ ~Active(t) /\ state'[t] = "open"
        /\ \A u \in Txns \ {t} : (Active(u)' <=> Active(u)) /\ xid'[u] = xid[u]
                                  /\ state'[u] = state[u]
        /\ \A u \in Txns : xid[u] \in Nat /\ xid[u] < nextXid
    BY DEF TypeOK, Active
  <2>4. /\ \A r \in (rows \cup committed)' : 0 < r.xid /\ r.xid < nextXid'
        /\ \A u \in Txns : Active(u)' => 0 < xid'[u]
        /\ \A u, v \in Txns : Active(u)' /\ Active(v)' /\ xid'[u] = xid'[v] => u = v
    BY <2>1, <2>2, <2>3 DEF RowsOwned
  <2>5. \A r \in Uncommitted' : \E u \in Txns : state'[u] = "flushed" /\ xid'[u] = r.xid
    BY <2>3 DEF RowsOwned, Uncommitted, Active
  <2>6. /\ \A u \in Txns : Active(u)' => \A r \in committed : r.xid # xid'[u]
        /\ \A u \in Txns : state'[u] = "open" => \A r \in rows : r.xid # xid'[u]
    BY <2>1, <2>3 DEF RowsOwned
  <2>7. SingleWriter => \A u, v \in Txns : Active(u)' /\ Active(v)' => u = v
    BY <2>3
  <2>8. QED
    BY <2>4, <2>5, <2>6, <2>7 DEF RowsOwned
<1>3. NothingPassed'
  <2>1. batch \subseteq committed /\ committed \subseteq Row
    BY DEF NothingPassed, TypeOK
  <2>2. \A b \in batch : b.xid < nextXid
    BY <2>1 DEF RowsOwned
  <2>3. QED
    BY <2>1, <2>2 DEF NothingPassed, TypeOK, Active, Uncommitted, Row, Position
<1>4. BatchIsPrefix' /\ PassAccounted' /\ CleanupSafe' /\ QueueNotSkipped'
  BY DEF BatchIsPrefix, PassAccounted, CleanupSafe, Unoffered, QueueNotSkipped, Uncommitted, Unpublished,
     Visible, Leq, Before
<1>5. QED
  BY <1>1, <1>2, <1>3, <1>4

LEMMA WriteStep == ASSUME IInv, NEW t \in Txns, NEW k \in Keys, Write(t, k) PROVE IInv'
<1> USE DEF IInv, Write, relayVars
<1>1. TypeOK'
  BY DEF TypeOK
<1>2. QED
  BY <1>1 DEF RowsOwned, NothingPassed, BatchIsPrefix, PassAccounted, CleanupSafe, Unoffered,
     QueueNotSkipped, Uncommitted, Unpublished, Visible, Active, Leq, Before

LEMMA FlushStep == ASSUME IInv, NEW t \in Txns, Flush(t) PROVE IInv'
<1> USE DEF IInv, Flush, relayVars
<1> DEFINE New(i) == [xid |-> xid[t], id |-> nextId + i - 1, key |-> events[t][i], created |-> clock]
           Added == {New(i) : i \in DOMAIN events[t]}
<1>1. /\ rows' = rows \cup Added
      /\ nextId \in Nat /\ nextId' = nextId + Len(events[t]) /\ Len(events[t]) \in Nat
      /\ DOMAIN events[t] = 1..Len(events[t])
  BY LenProperties DEF TypeOK
<1>2. \A i \in DOMAIN events[t] :
         New(i) \in Row /\ nextId <= New(i).id /\ New(i).id < nextId'
  BY <1>1 DEF TypeOK, Row
<1>3. TypeOK'
  <2>1. \A r \in Added : r \in Row /\ 0 < r.id /\ r.id < nextId'
    BY <1>1, <1>2 DEF TypeOK
  <2>2. rows' \subseteq Row /\ state' \in [Txns -> TxnStates] /\ nextId' \in Nat \ {0}
    BY <1>1, <2>1 DEF TypeOK, TxnStates
  <2>3. \A r \in (rows \cup committed)' : 0 < r.id /\ r.id < nextId'
    BY <1>1, <2>1 DEF TypeOK, Row
  <2>4. QED
    BY <2>2, <2>3 DEF TypeOK
<1>4. IsFiniteSet(rows')
  <2>1. [i \in DOMAIN events[t] |-> New(i)] \in Surjection(DOMAIN events[t], Added)
    BY Fun_IsSurj
  <2>2. IsFiniteSet(DOMAIN events[t])
    BY <1>1, FS_Interval
  <2>3. IsFiniteSet(Added)
    BY <2>1, <2>2, FS_Surjection
  <2>4. QED
    BY <1>1, <2>3, FS_Union
<1>5. /\ \A r \in Added : r.xid = xid[t] /\ r.created = clock /\ r.id \in Nat
                         /\ nextId <= r.id /\ r \notin rows /\ r \notin committed
      /\ \A r, q \in Added : r.id = q.id => r = q
  <2>1. \A r \in Added : r.xid = xid[t] /\ r.created = clock /\ r.id \in Nat /\ nextId <= r.id
    BY <1>1, <1>2 DEF Row
  <2>2. \A r \in Added : r \notin rows /\ r \notin committed
    BY SMTT(30), <1>1, <2>1 DEF TypeOK, Row
  <2>3. ASSUME NEW i \in DOMAIN events[t], NEW j \in DOMAIN events[t], New(i).id = New(j).id
        PROVE  i = j
    <3>1. i \in Nat /\ j \in Nat /\ nextId + i - 1 = nextId + j - 1
      BY <1>1, <2>3
    <3>2. QED
      BY <1>1, <3>1
  <2>4. \A r, q \in Added : r.id = q.id => r = q
    BY <2>3
  <2>5. QED
    BY <2>1, <2>2, <2>4
<1>6. Uncommitted' = Uncommitted \cup Added
  BY <1>1, <1>5 DEF Uncommitted
<1>7. RowsOwned'
  <2>1. \A r, q \in (rows \cup committed)' : r.id = q.id => r = q
    <3>1. \A r \in rows \cup committed : r.id \in Nat /\ r.id < nextId
      BY DEF TypeOK, Row
    <3>2. \A r \in Added, q \in rows \cup committed : r.id # q.id
      BY <1>1, <1>5, <3>1
    <3>3. QED
      BY <1>1, <1>5, <3>2 DEF RowsOwned
  <2>2. \A r \in (rows \cup committed)' : 0 < r.xid /\ r.xid < nextXid'
    BY <1>1, <1>5 DEF RowsOwned, TypeOK, Active
  <2>3. \A r \in Uncommitted' : \E u \in Txns : state'[u] = "flushed" /\ xid'[u] = r.xid
    BY <1>5, <1>6 DEF RowsOwned, TypeOK
  <2>4. \A u \in Txns : state'[u] = "open" => \A r \in rows' : r.xid # xid'[u]
    BY <1>1, <1>5 DEF RowsOwned, TypeOK, Active
  <2>5. QED
    BY <2>1, <2>2, <2>3, <2>4 DEF RowsOwned, TypeOK, Active
<1>8. NothingPassed'
  <2>1. CASE XidWalk
    BY <2>1 DEF NothingPassed, TypeOK, Active
  <2>2. CASE ~XidWalk
    <3>1. Uncommitted = {}
      BY <2>2, CursorAssumption DEF RowsOwned, Active
    <3>2. cursor.id \in Int /\ nextId \in Int /\ \A q \in committed : q.id \in Int /\ q.id < nextId
      BY <2>2 DEF TypeOK, Row, Position
    <3>3. cursor.id < nextId /\ nextId' \in Int /\ nextId <= nextId'
      BY <1>1, <2>2 DEF NothingPassed
    <3>4. \A r \in Uncommitted' : r.id \in Int /\ nextId <= r.id
      BY <1>5, <1>6, <3>1
    <3>5. batch' \subseteq committed' /\ committed' = committed /\ cursor' = cursor
      BY DEF NothingPassed
    <3>6. /\ cursor.id < nextId'
          /\ \A r \in Uncommitted' : cursor.id < r.id
          /\ \A r \in Uncommitted' : \A q \in committed : q.id < r.id
      BY <3>2, <3>3, <3>4
    <3>7. QED
      BY <2>2, <3>5, <3>6 DEF NothingPassed
  <2>3. QED
    BY <2>1, <2>2
<1>9. BatchIsPrefix' /\ PassAccounted' /\ QueueNotSkipped'
  BY <1>1, <1>5 DEF BatchIsPrefix, PassAccounted, QueueNotSkipped, Leq, Before
<1>10. CleanupSafe'
  <2>0. /\ UNCHANGED <<committed, window, delivered, inflight, cursor, cutoff, clock, pc>>
        /\ committed \ rows' \subseteq committed \ rows
        /\ \A r : Unoffered(r)' <=> Unoffered(r)
    BY <1>1 DEF Unoffered
  <2>1. /\ \A r \in committed \ rows' : r \in delivered \/ Unoffered(r)
        /\ \A r \in committed \ rows' : Leq(r, cursor)' \/ Unoffered(r)
    BY <2>0 DEF CleanupSafe, Leq
  <2>2. \A r \in rows' : r.created <= clock
    BY <1>1, <1>5 DEF CleanupSafe, Unoffered, TypeOK
  <2>3. \A r \in Uncommitted' : clock <= r.created + OpenLimit
    BY SMTT(30), <1>5, <1>6, BoundAssumption DEF CleanupSafe, Unoffered, TypeOK
  <2>4. ~XidWalk => \A r, q \in rows' : r.id < q.id => r.created <= q.created
    BY SMTT(30), <1>1, <1>5 DEF CleanupSafe, Unoffered, TypeOK, Row
  <2>5. pc = "drop" => \A r \in rows' : r.created < cutoff =>
                           r \in committed /\ (Leq(r, cursor) \/ Unoffered(r))
    BY <1>1, <1>5 DEF CleanupSafe, TypeOK
  <2>6. pc = "newest" => ~XidWalk /\ \A r \in Unpublished' : Unoffered(r)
    <3>1. Unpublished' = Unpublished
      BY <1>1, <1>5 DEF Unpublished, Visible, Leq
    <3> QED
      BY <3>1 DEF CleanupSafe
  <2>7. QED
    BY <2>0, <2>1, <2>2, <2>3, <2>4, <2>5, <2>6 DEF CleanupSafe, Unoffered, Leq
<1>11. QED
  BY <1>3, <1>4, <1>7, <1>8, <1>9, <1>10

LEMMA CommitStep == ASSUME IInv, NEW t \in Txns, Commit(t) PROVE IInv'
<1> USE DEF IInv, Commit, relayVars
<1>1. TypeOK'
  BY DEF TypeOK, TxnStates, RowsOf
<1>2. /\ Uncommitted' = Uncommitted \ RowsOf(t)
      /\ \A r \in Uncommitted' : r \in Uncommitted /\ r.xid # xid[t]
      /\ \A r \in RowsOf(t) : r \in Uncommitted /\ r.xid = xid[t]
  BY DEF Uncommitted, RowsOf, RowsOwned, Active
<1>3. RowsOwned'
  <2>1. /\ ~Active(t)' /\ Active(t) /\ (rows \cup committed)' = rows \cup committed
        /\ \A u \in Txns \ {t} : state'[u] = state[u] /\ (Active(u)' <=> Active(u))
        /\ UNCHANGED <<rows, xid, nextXid>>
    BY DEF TypeOK, Active, RowsOf
  <2>2. \A r \in Uncommitted' : \E u \in Txns : state'[u] = "flushed" /\ xid'[u] = r.xid
    BY <1>2, <2>1 DEF RowsOwned
  <2>3. \A u \in Txns : Active(u)' => \A r \in committed' : r.xid # xid'[u]
    BY <1>2, <2>1 DEF RowsOwned
  <2>4. QED
    BY <2>1, <2>2, <2>3 DEF RowsOwned
<1>4. NothingPassed'
  <2>1. CASE XidWalk
    BY <2>1 DEF NothingPassed, TypeOK, Active
  <2>2. CASE ~XidWalk
    <3>1. Uncommitted' = {}
      BY <1>2, <2>2, CursorAssumption DEF RowsOwned, Active
    <3>2. QED
      BY <2>2, <3>1 DEF NothingPassed
  <2>3. QED
    BY <2>1, <2>2
<1>5. \A r \in RowsOf(t) : ~Leq(r, cursor) /\ \A b \in batch : ~Before(r, b)
  BY <1>2, UncommittedIsAhead
<1>6. BatchIsPrefix' /\ QueueNotSkipped'
  BY <1>5 DEF BatchIsPrefix, QueueNotSkipped, Leq, Before
<1>7. PassAccounted'
  BY DEF PassAccounted
<1>8. CleanupSafe'
  <2>1. /\ UNCHANGED <<pc, cursor, cutoff, rows, clock, delivered, inflight>>
        /\ committed' = committed \cup RowsOf(t)
        /\ window' = IF pc = "newest" THEN window \cup RowsOf(t) ELSE window
        /\ RowsOf(t) \subseteq rows
    BY DEF RowsOf
  <2>2. ASSUME NEW r, Unoffered(r) PROVE Unoffered(r)'
    BY <2>1, <2>2 DEF Unoffered
  <2>3. pc = "newest" => \A r \in RowsOf(t) : Unoffered(r)'
    BY <1>2, <2>1 DEF Unoffered, PassAccounted, Uncommitted
  <2>4. committed' \ rows' = committed \ rows
    BY <2>1
  <2>5. Unpublished' \subseteq Unpublished \cup RowsOf(t)
    BY <2>1 DEF Unpublished, Visible, Leq
  <2>6. pc = "newest" => ~XidWalk /\ \A r \in Unpublished' : Unoffered(r)'
    BY <2>2, <2>3, <2>5 DEF CleanupSafe
  <2>7. XidWalk => window' = {}
    BY <2>1 DEF CleanupSafe
  <2>8. /\ \A r \in committed' \ rows' : r \in delivered' \/ Unoffered(r)'
        /\ \A r \in committed' \ rows' : Leq(r, cursor)' \/ Unoffered(r)'
        /\ pc = "drop" => \A r \in rows : r.created < cutoff =>
              r \in committed' /\ (Leq(r, cursor) \/ Unoffered(r)')
    BY <2>1, <2>2, <2>4 DEF CleanupSafe, Leq
  <2> QED
    BY <1>2, <2>1, <2>6, <2>7, <2>8 DEF CleanupSafe, Leq
<1>9. QED
  BY <1>1, <1>3, <1>4, <1>6, <1>7, <1>8

LEMMA AbortStep == ASSUME IInv, NEW t \in Txns, Abort(t) PROVE IInv'
<1> USE DEF IInv, Abort, relayVars
<1>1. TypeOK'
  BY DEF TypeOK, TxnStates
<1>2. /\ rows' \subseteq rows
      /\ Uncommitted' \subseteq Uncommitted
      /\ \A r \in Uncommitted' : r.xid # xid[t]
      /\ committed \ rows' = committed \ rows
  BY DEF Uncommitted, RowsOf, RowsOwned, Active
<1>3. IsFiniteSet(rows')
  BY <1>2, FS_Subset
<1>4. RowsOwned'
  BY <1>2 DEF RowsOwned, TypeOK, Active
<1>5. NothingPassed'
  BY <1>2 DEF NothingPassed, TypeOK, Active
<1>6. BatchIsPrefix' /\ PassAccounted' /\ QueueNotSkipped'
  BY DEF BatchIsPrefix, PassAccounted, QueueNotSkipped, Leq, Before
<1>7. CleanupSafe'
  BY <1>2 DEF CleanupSafe, Unoffered, Unpublished, Visible, Leq
<1>8. QED
  BY <1>1, <1>3, <1>4, <1>5, <1>6, <1>7

LEMMA TickStep == ASSUME IInv, Tick PROVE IInv'
<1> USE DEF IInv, Tick, relayVars
<1>1. TypeOK'
  BY DEF TypeOK
<1>2. CleanupSafe'
  BY SMTT(30), BoundAssumption DEF CleanupSafe, Unoffered, Uncommitted, Unpublished, Visible, Leq, TypeOK, Row
<1>3. QED
  BY <1>1, <1>2 DEF RowsOwned, NothingPassed, BatchIsPrefix, PassAccounted,
     QueueNotSkipped, Uncommitted, Active, Leq, Before

-------------------------------------------------------------------------------
(* The broker *)

\* Taking one message out of one pass of the producer's queue.
LEMMA InflightShrinks ==
    ASSUME TypeOK, NEW i \in DOMAIN inflight, NEW r \in inflight[i],
           inflight' = [inflight EXCEPT ![i] = @ \ {r}]
    PROVE  /\ inflight' \in Seq(SUBSET Row)
           /\ Len(inflight') = Len(inflight)
           /\ DOMAIN inflight = 1..Len(inflight)
           /\ Len(inflight) \in Nat
           /\ r \in Row
           /\ \A j \in 1..Len(inflight) :
                 inflight'[j] = IF j = i THEN inflight[j] \ {r} ELSE inflight[j]
<1>1. inflight \in Seq(SUBSET Row) /\ Len(inflight) \in Nat /\ DOMAIN inflight = 1..Len(inflight)
  BY LenProperties DEF TypeOK
<1>2. inflight[i] \in SUBSET Row
  BY <1>1, ElementOfSeq
<1>3. r \in Row /\ inflight[i] \ {r} \in SUBSET Row /\ i \in 1..Len(inflight)
  BY <1>1, <1>2
<1>4. /\ inflight' = [inflight EXCEPT ![i] = inflight[i] \ {r}]
      /\ [inflight EXCEPT ![i] = inflight[i] \ {r}] \in Seq(SUBSET Row)
      /\ Len([inflight EXCEPT ![i] = inflight[i] \ {r}]) = Len(inflight)
      /\ \A j \in 1..Len(inflight) : [inflight EXCEPT ![i] = inflight[i] \ {r}][j]
                                       = IF j = i THEN inflight[i] \ {r} ELSE inflight[j]
  BY <1>1, <1>3, ExceptSeq
<1>5. QED
  BY <1>1, <1>3, <1>4

LEMMA DeliverStep == ASSUME IInv, Deliver PROVE IInv'
<1> USE DEF IInv
<1> DEFINE Acked(i, r) ==
      /\ inflight' = [inflight EXCEPT ![i] = @ \ {r}]
      /\ delivered' = delivered \cup {r}
      /\ tail' = [tail EXCEPT ![r.key] = r.id]
      /\ UNCHANGED <<dbVars, pc, cursor, batch, failed, cutoff, faults>>
<1>a. PICK i \in DOMAIN inflight : \E r \in inflight[i] : Acked(i, r)
  BY DEF Deliver
<1>1. PICK r \in inflight[i] : Acked(i, r)
  BY <1>a
<1> USE DEF dbVars
<1>2. /\ inflight' \in Seq(SUBSET Row) /\ Len(inflight') = Len(inflight)
      /\ DOMAIN inflight = 1..Len(inflight) /\ Len(inflight) \in Nat /\ r \in Row
      /\ \A j \in 1..Len(inflight) :
            inflight'[j] = IF j = i THEN inflight[j] \ {r} ELSE inflight[j]
  BY <1>1, InflightShrinks
<1>3. TypeOK'
  <2>1. r.key \in Keys /\ r.id \in Nat
    BY <1>2 DEF Row
  <2>2. tail' \in [Keys -> Nat] /\ delivered' \subseteq Row
    BY <1>1, <1>2, <2>1 DEF TypeOK
  <2>3. QED
    BY <1>1, <1>2, <2>2 DEF TypeOK
<1>4. RowsOwned' /\ NothingPassed' /\ BatchIsPrefix' /\ QueueNotSkipped'
  BY <1>1 DEF RowsOwned, NothingPassed, BatchIsPrefix, QueueNotSkipped, Uncommitted, Active, Leq, Before
<1>5. CleanupSafe'
  BY <1>1 DEF CleanupSafe, Unoffered, Uncommitted, Unpublished, Visible, Leq
<1>6. PassAccounted'
  <2>1. delivered' \subseteq committed' /\ \A j \in 1..Len(inflight') : inflight'[j] \subseteq committed'
    BY <1>1, <1>2 DEF PassAccounted
  <2>2. pc = "flush" /\ ~failed => batch \subseteq delivered' \cup inflight'[Len(inflight')]
    BY <1>1, <1>2 DEF PassAccounted
  <2>3. QED
    BY <1>1, <1>2, <2>1, <2>2 DEF PassAccounted
<1>7. QED
  BY <1>1, <1>3, <1>4, <1>5, <1>6

LEMMA FailStep == ASSUME IInv, Fail PROVE IInv'
<1> USE DEF IInv
<1> DEFINE Refused(i, r) ==
      /\ inflight' = [inflight EXCEPT ![i] = @ \ {r}]
      /\ failed' = (failed \/ (pc = "flush" /\ i = Len(inflight)))
      /\ faults' = faults + 1
      /\ UNCHANGED <<dbVars, pc, cursor, batch, cutoff, delivered, tail>>
<1>a. PICK i \in DOMAIN inflight : \E r \in inflight[i] : Refused(i, r)
  BY DEF Fail
<1>1. PICK r \in inflight[i] : Refused(i, r)
  BY <1>a
<1> USE DEF dbVars
<1>2. /\ inflight' \in Seq(SUBSET Row) /\ Len(inflight') = Len(inflight)
      /\ DOMAIN inflight = 1..Len(inflight) /\ Len(inflight) \in Nat
      /\ \A j \in 1..Len(inflight) :
            inflight'[j] = IF j = i THEN inflight[j] \ {r} ELSE inflight[j]
  BY <1>1, InflightShrinks
<1>3. failed' \in BOOLEAN
  BY <1>1
<1>4. TypeOK'
  BY <1>1, <1>2, <1>3 DEF TypeOK
<1>5. RowsOwned' /\ NothingPassed' /\ BatchIsPrefix' /\ QueueNotSkipped'
  BY <1>1 DEF RowsOwned, NothingPassed, BatchIsPrefix, QueueNotSkipped, Uncommitted, Active, Leq, Before
<1>6. CleanupSafe'
  BY <1>1 DEF CleanupSafe, Unoffered, Uncommitted, Unpublished, Visible, Leq
<1>7. PassAccounted'
  <2>1. \A j \in 1..Len(inflight') : inflight'[j] \subseteq committed'
    BY <1>1, <1>2 DEF PassAccounted
  <2>2. pc = "flush" /\ ~failed' => batch \subseteq delivered \cup inflight'[Len(inflight')]
    <3>1. SUFFICES ASSUME pc = "flush", ~failed'
                   PROVE  batch \subseteq delivered \cup inflight'[Len(inflight')]
      OBVIOUS
    <3>2. ~failed /\ i # Len(inflight)
      BY <1>1, <3>1
    <3>3. Len(inflight) \in 1..Len(inflight) /\ batch \subseteq delivered \cup inflight[Len(inflight)]
      BY <1>2, <3>1, <3>2 DEF PassAccounted
    <3>4. QED
      BY <1>2, <3>2, <3>3
  <2>3. QED
    BY <1>1, <1>2, <2>1, <2>2 DEF PassAccounted
<1>8. QED
  BY <1>1, <1>4, <1>5, <1>6, <1>7

-------------------------------------------------------------------------------
(* The relay *)

LEMMA StartPassStep == ASSUME IInv, StartPass PROVE IInv'
<1> USE DEF IInv, dbVars
<1> DEFINE next == FirstN(Eligible, BatchSize)
           queue == IF Drained THEN <<>> ELSE inflight
<1>1. /\ pc = "publish" /\ pc' = "flush" /\ batch' = next /\ failed' = FALSE
      /\ inflight' = Append(queue, next)
      /\ UNCHANGED <<dbVars, cursor, cutoff, delivered, tail, faults>>
  BY DEF StartPass
<1>2. /\ next \subseteq Eligible /\ Eligible \subseteq Unpublished
      /\ Unpublished \subseteq rows \cap committed
      /\ next \subseteq committed /\ Eligible \subseteq Row /\ next \in SUBSET Row
  BY DEF FirstN, Eligible, Unpublished, Visible, TypeOK
<1>3. queue \in Seq(SUBSET Row) /\ Len(queue) \in Nat
  BY EmptySeq, LenProperties DEF TypeOK
<1>4. /\ inflight' \in Seq(SUBSET Row) /\ Len(inflight') = Len(queue) + 1
      /\ \A i \in 1..Len(queue) : inflight'[i] = queue[i]
      /\ inflight'[Len(queue) + 1] = next
  BY <1>1, <1>2, <1>3, AppendProperties
<1>5. TypeOK'
  BY <1>1, <1>2, <1>4 DEF TypeOK, RelayStates
<1>6. RowsOwned' /\ QueueNotSkipped'
  BY <1>1 DEF RowsOwned, QueueNotSkipped, Uncommitted, Active, Leq
<1>7. NothingPassed'
  BY <1>1, <1>2 DEF NothingPassed, Eligible, BelowXmin, Uncommitted, Active
<1>8. BatchIsPrefix'
  <2>1. \A b \in next : ~Leq(b, cursor)
    BY <1>2 DEF Unpublished
  <2>2. ASSUME NEW b \in next, NEW r \in committed, r \in rows, Before(r, b), ~Leq(r, cursor)
        PROVE  r \in next
    <3>1. r \in Unpublished /\ r \in Row /\ b \in Row
      BY <1>2, <2>2 DEF Unpublished, Visible, TypeOK
    <3>2. ASSUME XidWalk PROVE BelowXmin(r)
      <4>1. BelowXmin(b) /\ b \in Row
        BY <1>2, <3>1, <3>2 DEF Eligible
      <4>2. r.xid \in Nat /\ b.xid \in Nat /\ r.xid <= b.xid /\ xid \in [Txns -> Nat]
        BY <2>2, <3>1, <3>2 DEF Before, Row, TypeOK
      <4>3. QED
        BY <4>1, <4>2 DEF BelowXmin
    <3>3. r \in Eligible
      BY <3>1, <3>2 DEF Eligible
    <3>4. IsFiniteSet(Eligible)
      BY <1>2, FS_Subset
    <3>5. QED
      BY <1>2, <2>2, <3>3, <3>4, FirstNIsPrefix, BoundAssumption
  <2>3. QED
    BY <1>1, <2>1, <2>2 DEF BatchIsPrefix, Leq, Before
<1>9. PassAccounted'
  <2>1. \A i \in 1..Len(queue) : queue[i] \subseteq committed
    BY DEF PassAccounted
  <2>2. \A i \in 1..Len(inflight') : inflight'[i] \subseteq committed
    BY <1>2, <1>3, <1>4, <2>1
  <2>3. QED
    BY <1>1, <1>3, <1>4, <2>2 DEF PassAccounted
<1>10. CleanupSafe'
  <2>1. ASSUME NEW r \in committed \ rows, Unoffered(r) PROVE Unoffered(r)'
    <3>1. r \notin next /\ \A i \in 1..Len(queue) : r \notin queue[i]
      BY <1>2, <2>1 DEF Unoffered
    <3>2. ASSUME NEW i \in 1..Len(inflight') PROVE r \notin inflight'[i]
      <4>1. i \in 1..Len(queue) \/ i = Len(queue) + 1
        BY <1>3, <1>4
      <4> HIDE DEF next, queue
      <4> QED
        BY <4>1, <1>4, <3>1
    <3> QED
      BY <1>1, <2>1, <3>2 DEF Unoffered
  <2> QED
    BY <1>1, <2>1 DEF CleanupSafe, Uncommitted, Leq
<1>11. QED
  BY <1>1, <1>5, <1>6, <1>7, <1>8, <1>9, <1>10

\* The steps that move the relay along its loop and leave everything else.
LEMMA LoopStep == ASSUME IInv, EmptyPass \/ SkipCleanup \/ Restart PROVE IInv'
<1> USE DEF IInv, dbVars
<1>1. /\ pc \notin {"flush", "acked"} /\ pc' \in {"publish", "cleanup"}
      /\ UNCHANGED <<dbVars, cursor, batch, failed, cutoff, inflight, delivered, tail, faults>>
  BY DEF EmptyPass, SkipCleanup, Restart
<1>2. TypeOK'
  BY <1>1 DEF TypeOK, RelayStates
<1>3. QED
  BY <1>1, <1>2 DEF RowsOwned, NothingPassed, BatchIsPrefix, PassAccounted,
     CleanupSafe, Unoffered, QueueNotSkipped, Uncommitted, Unpublished, Visible, Active, Leq, Before

\* The relay gives up what it was doing and keeps the cursor where it was.
LEMMA GiveUpStep == ASSUME IInv, FlushTimeout \/ Crash PROVE IInv'
<1> USE DEF IInv, dbVars
<1>1. /\ pc' \in {"cleanup", "dead"} /\ batch' = {} /\ failed' \in BOOLEAN
      /\ inflight' \in {inflight, <<>>} /\ cutoff' \in Nat /\ faults' \in Nat
      /\ UNCHANGED <<dbVars, cursor, delivered, tail>>
  <2>1. CASE FlushTimeout
    <3>1. failed' \in BOOLEAN /\ inflight' = inflight /\ pc' = "cleanup"
      BY <2>1 DEF FlushTimeout, TypeOK
    <3>2. QED
      BY <2>1, <3>1 DEF FlushTimeout, TypeOK
  <2>2. CASE Crash
    <3>1. failed' \in BOOLEAN /\ inflight' = <<>> /\ pc' = "dead"
      BY <2>2 DEF Crash
    <3>2. QED
      BY <2>2, <3>1 DEF Crash, TypeOK
  <2>3. QED
    BY <2>1, <2>2
<1>2. inflight' \in Seq(SUBSET Row) /\ \A i \in 1..Len(inflight') : inflight'[i] \subseteq committed
  <2>1. CASE inflight' = inflight
    BY <2>1 DEF TypeOK, PassAccounted
  <2>2. CASE inflight' = <<>>
    <3>1. <<>> \in Seq(SUBSET Row) /\ Len(<<>>) = 0
      BY EmptySeq
    <3>2. QED
      BY <2>2, <3>1
  <2>3. QED
    BY <1>1, <2>1, <2>2
<1>3. TypeOK'
  BY <1>1, <1>2 DEF TypeOK, RelayStates
<1>4. QED
  BY <1>1, <1>2, <1>3 DEF RowsOwned, NothingPassed, BatchIsPrefix, PassAccounted,
     CleanupSafe, Unoffered, QueueNotSkipped, Uncommitted, Unpublished, Visible, Active, Leq, Before

LEMMA FlushReturnStep == ASSUME IInv, FlushReturn PROVE IInv'
<1> USE DEF IInv, dbVars
<1>1. /\ pc = "flush" /\ Drained
      /\ pc' = IF failed THEN "cleanup" ELSE "acked"
      /\ batch' = IF failed THEN {} ELSE batch
      /\ UNCHANGED <<dbVars, cursor, failed, cutoff, inflight, delivered, tail, faults>>
  BY DEF FlushReturn
<1>2. TypeOK'
  BY <1>1 DEF TypeOK, RelayStates
<1>3. PassAccounted'
  <2>1. ~failed => batch \subseteq delivered
    <3>1. Len(inflight) \in Nat /\ DOMAIN inflight = 1..Len(inflight) /\ Len(inflight) > 0
      BY <1>1, LenProperties DEF TypeOK, PassAccounted
    <3>2. inflight[Len(inflight)] = {}
      BY <1>1, <3>1 DEF Drained
    <3>3. QED
      BY <1>1, <3>2 DEF PassAccounted
  <2>2. QED
    BY <1>1, <2>1 DEF PassAccounted
<1>4. RowsOwned' /\ NothingPassed' /\ BatchIsPrefix' /\ QueueNotSkipped'
  BY <1>1 DEF RowsOwned, NothingPassed, BatchIsPrefix, QueueNotSkipped, Uncommitted, Active, Leq, Before
<1>5. CleanupSafe'
  BY <1>1 DEF CleanupSafe, Unoffered, Uncommitted, Unpublished, Visible, Leq
<1>6. QED
  BY <1>1, <1>2, <1>3, <1>4, <1>5

LEMMA AdvanceStep == ASSUME IInv, Advance PROVE IInv'
<1> USE DEF IInv, dbVars
<1>1. PICK last \in batch : /\ \A r \in batch : r = last \/ Before(r, last)
                           /\ cursor' = PosOf(last)
  BY DEF Advance
<1>2. /\ pc = "acked" /\ pc' = "cleanup" /\ batch' = {}
      /\ UNCHANGED <<dbVars, failed, cutoff, inflight, delivered, tail, faults>>
  BY DEF Advance
<1>3. /\ last \in Row /\ last \in committed /\ ~Leq(last, cursor) /\ cursor \in Position
      /\ cursor' \in Position /\ batch \subseteq delivered
  BY <1>1, <1>2, WalkOrder DEF NothingPassed, BatchIsPrefix, PassAccounted, TypeOK
\* What was at or before the old cursor still is.
<1>4. \A r \in Row : Leq(r, cursor) => Leq(r, cursor')
  BY <1>1, <1>3, WalkOrder
\* What is newly at or before the cursor was delivered.
<1>5. \A r \in committed \cap rows : Leq(r, cursor') => r \in delivered
  <2>1. SUFFICES ASSUME NEW r \in committed \cap rows, Leq(r, cursor') PROVE r \in delivered
    OBVIOUS
  <2>2. r \in Row
    BY DEF TypeOK
  <2>3. Before(r, last) \/ r.id = last.id
    BY <1>1, <1>3, <2>1, <2>2, WalkOrder
  <2>4. CASE r.id = last.id
    BY <1>3, <2>4 DEF RowsOwned
  <2>5. CASE Before(r, last)
    BY <1>1, <1>3, <2>5 DEF BatchIsPrefix, QueueNotSkipped
  <2>6. QED
    BY <2>3, <2>4, <2>5
<1>6. TypeOK'
  BY <1>2, <1>3 DEF TypeOK, RelayStates
<1>7. RowsOwned' /\ PassAccounted' /\ BatchIsPrefix'
  BY <1>2 DEF RowsOwned, PassAccounted, BatchIsPrefix, Uncommitted, Active
<1>8. QueueNotSkipped'
  BY <1>2, <1>5 DEF QueueNotSkipped, Leq
<1>9. NothingPassed'
  <2>1. XidWalk => /\ last.xid < nextXid
                   /\ \A t \in Txns : Active(t) => last.xid < xid[t]
    BY <1>1, <1>3 DEF NothingPassed, RowsOwned
  <2>2. ~XidWalk => /\ last.id < nextId
                    /\ \A r \in Uncommitted : last.id < r.id
    BY <1>3 DEF NothingPassed, TypeOK
  <2>3. (XidWalk => cursor'.xid = last.xid) /\ cursor'.id = last.id
    BY <1>1 DEF PosOf
  <2>4. QED
    BY <1>2, <2>1, <2>2, <2>3 DEF NothingPassed, Active, Uncommitted
<1>10. CleanupSafe'
  <2>1. \A r \in committed \ rows : Leq(r, cursor') \/ Unoffered(r)
    BY <1>4 DEF CleanupSafe, TypeOK
  <2>2. QED
    BY <1>2, <2>1 DEF CleanupSafe, Unoffered, Uncommitted, Leq
<1>11. QED
  BY <1>2, <1>6, <1>7, <1>8, <1>9, <1>10

LEMMA ReadCutoffStep == ASSUME IInv, ReadCutoff PROVE IInv'
<1> USE DEF IInv, dbVars
<1>1. PICK c \in 0..clock : /\ IF XidWalk THEN XidCutoff(c) ELSE IdCutoff(c)
                            /\ cutoff' = c
  BY DEF ReadCutoff
<1>2. /\ pc = "cleanup" /\ pc' = "drop"
      /\ UNCHANGED <<dbVars, cursor, batch, failed, inflight, delivered, tail, faults>>
  BY DEF ReadCutoff
<1>3. c \in Nat /\ c <= clock
  BY <1>1 DEF TypeOK
\* The cutoff is at or below every unpublished row.
<1>4. \A r \in Unpublished : c <= r.created
  BY <1>1 DEF XidCutoff, IdCutoff, IsLeast
\* It is at or below every row whose transaction is still open.
<1>5. \A r \in Uncommitted : c <= r.created
  <2>1. SUFFICES ASSUME NEW r \in Uncommitted PROVE c <= r.created
    OBVIOUS
  <2>2. r \in Row /\ r.created \in Nat /\ clock \in Nat /\ clock <= r.created + OpenLimit
    BY DEF TypeOK, Row, CleanupSafe, Uncommitted
  <2>3. CASE XidWalk
    <3>1. c <= clock - CleanupLag /\ CleanupLag \in Nat /\ OpenLimit \in Nat
      BY <1>1, <2>3, BoundAssumption DEF XidCutoff, IsLeast
    <3>2. QED
      BY <1>3, <2>2, <2>3, <3>1, CursorAssumption
  <2>4. CASE ~XidWalk
    <3>1. PICK v \in Visible : c = v.created
      BY <1>1, <2>4 DEF IdCutoff, IsLeast, Unpublished
    <3>2. v.id < r.id
      BY <2>4 DEF Visible, NothingPassed
    <3>3. QED
      BY <2>4, <3>1, <3>2 DEF CleanupSafe, Unoffered, Visible, Uncommitted
  <2>5. QED
    BY <2>3, <2>4
<1>6. TypeOK'
  BY <1>1, <1>2, <1>3 DEF TypeOK, RelayStates
<1>7. RowsOwned' /\ NothingPassed' /\ BatchIsPrefix' /\ PassAccounted' /\ QueueNotSkipped'
  BY <1>2 DEF RowsOwned, NothingPassed, BatchIsPrefix, PassAccounted, QueueNotSkipped,
     Uncommitted, Active, Leq, Before
<1>8. CleanupSafe'
  <2>1. \A r \in rows : r.created < c => r \in committed /\ Leq(r, cursor)
    BY <1>3, <1>4, <1>5 DEF TypeOK, Row, Unpublished, Visible, Uncommitted
  <2>2. QED
    BY <1>1, <1>2, <1>3, <2>1 DEF CleanupSafe, Unoffered, Uncommitted, Unpublished, Visible, Leq
<1>9. QED
  BY <1>2, <1>6, <1>7, <1>8

\* Nothing unpublished lies before the newest row but what was committed since
\* the first statement found nothing.
LEMMA NewestStep == ASSUME IInv, NothingPending \/ ReadNewest PROVE IInv'
<1> USE DEF IInv, dbVars
<1>1. /\ pc \in {"cleanup", "newest"} /\ ~XidWalk /\ \A r \in Unpublished : Unoffered(r)
      /\ UNCHANGED <<dbVars, cursor, batch, failed, inflight, delivered, tail, faults>>
      /\ \/ pc' \in {"newest", "publish"} /\ cutoff' = cutoff
         \/ pc' = "drop" /\ \E v \in Visible : cutoff' = v.created
  BY DEF NothingPending, ReadNewest, CleanupSafe
<1>2. \A v \in Visible : v.created \in Nat /\ v.created <= clock
  BY DEF CleanupSafe, Visible, TypeOK, Row
<1>3. TypeOK'
  BY <1>1, <1>2 DEF TypeOK, RelayStates
<1>4. RowsOwned' /\ NothingPassed' /\ BatchIsPrefix' /\ PassAccounted' /\ QueueNotSkipped'
  BY <1>1 DEF RowsOwned, NothingPassed, BatchIsPrefix, PassAccounted, QueueNotSkipped,
     Uncommitted, Active, Leq, Before
<1>5. ASSUME NEW v \in Visible, NEW r \in Uncommitted PROVE v.created <= r.created
  BY <1>1, <1>5 DEF NothingPassed, CleanupSafe, Visible, Uncommitted
<1>6. CleanupSafe'
  <2>1. pc' = "drop" => /\ cutoff' <= clock
                        /\ \A r \in rows : r.created < cutoff' =>
                              r \in committed /\ (Leq(r, cursor) \/ Unoffered(r))
    <3>1. \A r \in Uncommitted : r.created \in Nat
      BY DEF TypeOK, Row, Uncommitted
    <3>2. ASSUME NEW v \in Visible, NEW r \in rows, r.created < v.created
          PROVE  r \in committed /\ (Leq(r, cursor) \/ Unoffered(r))
      <4>1. r \in committed
        BY <1>2, <1>5, <3>1, <3>2 DEF Uncommitted
      <4> QED
        BY <1>1, <4>1 DEF Unpublished, Visible
    <3> QED
      BY <1>1, <1>2, <3>2
  <2>2. QED
    BY <1>1, <2>1 DEF CleanupSafe, Unoffered, Uncommitted, Unpublished, Visible, Leq
<1>7. QED
  BY <1>1, <1>3, <1>4, <1>6

LEMMA DropChunksStep == ASSUME IInv, DropChunks PROVE IInv'
<1> USE DEF IInv
<1>1. /\ pc = "drop" /\ pc' = "publish" /\ cutoff' = 0
      /\ rows' = {r \in rows : r.created >= cutoff}
      /\ UNCHANGED <<state, xid, events, committed, window, newest, nextXid, nextId, clock,
                     cursor, batch, failed, inflight, delivered, tail, faults>>
  BY DEF DropChunks
<1>2. rows' \subseteq rows /\ IsFiniteSet(rows')
  BY <1>1, FS_Subset
<1>3. \A r \in rows \ rows' : r \in committed /\ (Leq(r, cursor) \/ Unoffered(r))
  BY <1>1 DEF CleanupSafe, TypeOK, Row
<1>4. TypeOK'
  BY <1>1, <1>2 DEF TypeOK, RelayStates
<1>5. Uncommitted' \subseteq Uncommitted
  BY <1>1, <1>2 DEF Uncommitted
<1>6. RowsOwned' /\ NothingPassed' /\ BatchIsPrefix' /\ PassAccounted' /\ QueueNotSkipped'
  BY <1>1, <1>2, <1>5 DEF RowsOwned, NothingPassed, BatchIsPrefix, PassAccounted, QueueNotSkipped,
     Active, Leq, Before
<1>7. CleanupSafe'
  <2>1. \A r : Unoffered(r)' <=> Unoffered(r)
    BY <1>1 DEF Unoffered
  <2>2. \A r \in committed \ rows' : Leq(r, cursor) \/ Unoffered(r)
    BY <1>3 DEF CleanupSafe
  <2>3. \A r \in committed \ rows' : r \in delivered \/ Unoffered(r)
    BY <1>3 DEF CleanupSafe, QueueNotSkipped
  <2> QED
    BY <1>1, <1>2, <1>5, <2>1, <2>2, <2>3 DEF CleanupSafe, Leq
<1>8. QED
  BY <1>2, <1>4, <1>6, <1>7

-------------------------------------------------------------------------------
(* The theorems *)

LEMMA NextStep == IInv /\ [IdNext]_vars => IInv'
<1> SUFFICES ASSUME IInv, [IdNext]_vars PROVE IInv'
  OBVIOUS
<1>1. ASSUME NEW t \in Txns, Begin(t) \/ Flush(t) \/ Commit(t) \/ Abort(t) PROVE IInv'
  BY <1>1, BeginStep, FlushStep, CommitStep, AbortStep
<1>2. ASSUME NEW t \in Txns, NEW k \in Keys, Write(t, k) PROVE IInv'
  BY <1>2, WriteStep
<1>3. CASE Tick
  BY <1>3, TickStep
<1>4. CASE Relay \/ NothingPending \/ ReadNewest
  BY <1>4, StartPassStep, LoopStep, FlushReturnStep, GiveUpStep, AdvanceStep,
     ReadCutoffStep, NewestStep, DropChunksStep DEF Relay
<1>5. CASE Broker
  BY <1>5, DeliverStep, FailStep DEF Broker
<1>6. CASE UNCHANGED vars
  BY <1>6 DEF vars, dbVars, relayVars, IInv, TypeOK, RowsOwned, NothingPassed,
     BatchIsPrefix, PassAccounted, CleanupSafe, Unoffered, QueueNotSkipped, Uncommitted,
     Unpublished, Visible, Active, Leq, Before
<1>7. QED
  BY <1>1, <1>2, <1>3, <1>4, <1>5, <1>6 DEF IdNext, Next, Writers

\* The inductive invariant holds in every reachable state of a queue, whichever
\* cursor walks it: XidCursor's relay is IdCursor's without a second statement.
THEOREM Invariance == IdSpec => []IInv
BY InitIInv, NextStep, PTL DEF IdSpec

LEMMA XidSpecIsIdSpec == Spec => IdSpec
<1>1. [Next]_vars => [IdNext]_vars
  BY DEF IdNext
<1>2. QED
  BY <1>1, PTL DEF Spec, IdSpec

\* Behind the xid cursor no row can fall between two reads of a cutoff.
LEMMA XidLosesNothing ==
    ASSUME XidWalk, IInv
    PROVE  NoSkip /\ NoLoss /\ \A r \in committed \ rows : Leq(r, cursor)
BY DEF IInv, CleanupSafe, Unoffered, QueueNotSkipped, NoSkip, NoLoss

\* Type correctness: every variable keeps its shape, and the id sequence and
\* the transaction counter stay ahead of every row, behind either cursor.
THEOREM TypeCorrect == IdSpec => []TypeOK
<1>1. IInv => TypeOK
  BY DEF IInv
<1>2. QED
  BY <1>1, Invariance, PTL

\* The relay of the pipeline's outbox never moves its cursor past a committed
\* row the broker has not acknowledged, under crashes, timeouts and failures.
THEOREM NothingSkipped == ASSUME XidWalk PROVE Spec => []NoSkip
<1>1. IInv => NoSkip
  BY XidLosesNothing
<1>2. QED
  BY <1>1, Invariance, XidSpecIsIdSpec, PTL

\* Chunk cleanup of the pipeline's outbox never drops a committed row the broker
\* has not acknowledged, as long as no transaction outlives the cleanup lag.
THEOREM NothingLost == ASSUME XidWalk PROVE Spec => []NoLoss
<1>1. IInv => NoLoss
  BY XidLosesNothing
<1>2. QED
  BY <1>1, Invariance, XidSpecIsIdSpec, PTL

\* Rows the queue has forgotten, as the abstract queue sees them, across a step.
LEMMA QueueStep == ASSUME XidWalk PROVE IInv /\ IInv' /\ [Next]_vars => [Queue!Next]_(Queue!vars)
<1> SUFFICES ASSUME IInv, IInv', [Next]_vars
             PROVE  Queue!Next \/ UNCHANGED <<committed, delivered, Done>>
  BY DEF Queue!vars
<1>1. Done' \subseteq delivered'
  BY DEF IInv, CleanupSafe, Unoffered, QueueNotSkipped, Done
<1>2. CASE UNCHANGED <<rows, committed, delivered, cursor>>
  BY <1>2 DEF Done, Leq
<1>3. CASE \E t \in Txns : Flush(t) \/ Abort(t)
  <2>1. PICK t \in Txns : Flush(t) \/ Abort(t)
    BY <1>3
  <2>2. UNCHANGED <<committed, delivered, cursor>>
    BY <2>1 DEF Flush, Abort, relayVars
  <2>3. committed \cap rows' = committed \cap rows
    <3>1. CASE Flush(t)
      <4>1. \A r \in rows' \ rows : r.id \in Nat /\ r.id >= nextId
        <5>1. nextId \in Nat /\ \A i \in DOMAIN events[t] : i \in Nat /\ i >= 1
          <6>1. nextId \in Nat /\ events[t] \in Seq(Keys)
            BY DEF IInv, TypeOK
          <6>2. QED
            BY <6>1, LenProperties
        <5>2. QED
          BY <3>1, <5>1 DEF Flush
      <4>2. \A r \in committed : r.id < nextId /\ r.id \in Nat /\ nextId \in Nat
        BY DEF IInv, TypeOK, Row
      <4>3. rows \subseteq rows'
        BY <3>1 DEF Flush
      <4>4. QED
        BY <4>1, <4>2, <4>3
    <3>2. CASE Abort(t)
      BY <3>2 DEF Abort, RowsOf, IInv, RowsOwned
    <3>3. QED
      BY <2>1, <3>1, <3>2
  <2>4. QED
    BY <2>2, <2>3 DEF Done, Leq
<1>4. CASE \E t \in Txns : Commit(t)
  <2>1. PICK t \in Txns : Commit(t)
    BY <1>4
  <2>2. /\ committed' = committed \cup RowsOf(t)
        /\ UNCHANGED <<rows, delivered, cursor>>
        /\ state[t] = "flushed"
    BY <2>1 DEF Commit, relayVars
  <2>3. \A r \in RowsOf(t) : r \in rows /\ r \in Uncommitted
    BY <2>2 DEF RowsOf, Uncommitted, IInv, RowsOwned, Active
  <2>4. \A r \in RowsOf(t) : r \in rows /\ ~Leq(r, cursor)
    BY <2>3, UncommittedIsAhead
  <2>5. Done' = Done
    BY <2>2, <2>4 DEF Done, Leq
  <2>6. QED
    BY <2>2, <2>5 DEF Queue!Next, Queue!Commit
<1>5. CASE Deliver
  <2>1. /\ delivered \subseteq delivered' /\ UNCHANGED <<rows, committed, cursor>>
    BY <1>5 DEF Deliver, dbVars
  <2>2. delivered' \subseteq committed
    BY <2>1 DEF IInv, PassAccounted
  <2>3. QED
    BY <2>1, <2>2 DEF Queue!Next, Queue!Deliver, Done, Leq
<1>6. CASE Advance
  <2>1. UNCHANGED <<rows, committed, delivered>>
    BY <1>6 DEF Advance, dbVars
  <2>2. PICK last \in batch : cursor' = PosOf(last)
    BY <1>6 DEF Advance
  <2>3. last \in Row /\ ~Leq(last, cursor) /\ cursor \in Position /\ committed \subseteq Row
    BY DEF IInv, TypeOK, BatchIsPrefix
  <2>4. Done \subseteq Done'
    BY <2>1, <2>2, <2>3, WalkOrder DEF Done
  <2>5. QED
    BY <1>1, <2>1, <2>4 DEF Queue!Next, Queue!Forget
<1>7. CASE DropChunks
  <2>1. UNCHANGED <<committed, delivered, cursor>> /\ rows' \subseteq rows
    BY <1>7 DEF DropChunks
  <2>2. Done \subseteq Done'
    BY <2>1 DEF Done, Leq
  <2>3. QED
    BY <1>1, <2>1, <2>2 DEF Queue!Next, Queue!Forget
<1>8. QED
  BY <1>2, <1>3, <1>4, <1>5, <1>6, <1>7
     DEF Next, Writers, Relay, Broker, vars, dbVars, relayVars, Begin, Write, Tick,
         StartPass, EmptyPass, FlushReturn, FlushTimeout, SkipCleanup, ReadCutoff,
         NothingPending, ReadNewest, Crash, Restart, Fail

\* The relay of the pipeline's outbox implements the at-least-once queue.
THEOREM Refinement == ASSUME XidWalk PROVE Spec => AtLeastOnce
<1>1. Init => Queue!Init
  BY DEF Init, Queue!Init, Done
<1>2. QED
  BY <1>1, QueueStep, Invariance, XidSpecIsIdSpec, PTL DEF Spec, AtLeastOnce, Queue!Spec

-------------------------------------------------------------------------------
(* The last message of a key *)

\* The newest change of a key has the greatest id of the key's committed rows.
NewestIsLast ==
    /\ \A k \in Keys : \A q \in newest[k] : q \in committed /\ q.key = k
    /\ \A r \in committed : \E q \in newest[r.key] : r.id <= q.id

\* The last message of a key is a committed row of it, at or after whatever the
\* cursor has passed and the queue has not lost, since all that is queued lies beyond the cursor.
TailIsCurrent ==
    /\ \A k \in Keys : tail[k] = 0 \/ \E r \in committed : r.key = k /\ r.id = tail[k]
    /\ \A r \in committed : r.id <= cursor.id => r.id <= tail[r.key] \/ r \in Lost
    /\ \A i \in 1 .. Len(inflight) : \A r \in inflight[i] : cursor.id < r.id

\* A message of the pass that is no longer queued was delivered after every
\* older pass and before the messages of its key that follow it.
PassInOrder ==
    /\ pc = "flush" /\ ~failed =>
          \A b \in batch \ inflight[Len(inflight)] :
              /\ b.id <= tail[b.key]
              /\ \A q \in inflight[Len(inflight)] : q.key = b.key => b.id < q.id
              /\ \A j \in 1 .. Len(inflight) - 1 : \A q \in inflight[j] : q.key # b.key
    /\ pc = "acked" => Drained /\ \A b \in batch : b.id <= tail[b.key]

TailInv == NewestIsLast /\ TailIsCurrent /\ PassInOrder

\* A row that was dropped unpublished is never offered to the broker again.
LEMMA LostForGood == ASSUME IInv, [IdNext]_vars PROVE Lost \subseteq Lost'
<1> USE DEF IInv, dbVars, relayVars
<1> SUFFICES ASSUME NEW r \in Lost PROVE r \in Lost'
  OBVIOUS
<1>1. /\ r \in committed /\ r \notin rows /\ r \notin delivered
      /\ \A i \in DOMAIN inflight : r \notin inflight[i]
  <2>1. DOMAIN inflight = 1..Len(inflight)
    BY LenProperties DEF TypeOK
  <2> QED
    BY <2>1 DEF Lost, CleanupSafe, Unoffered
<1>2. r \in committed'
  BY <1>1 DEF IdNext, Next, Writers, Relay, Broker, Begin, Write, Flush, Commit, Abort, Tick,
     StartPass, EmptyPass, FlushReturn, FlushTimeout, Advance, SkipCleanup, ReadCutoff,
     NothingPending, ReadNewest, DropChunks, Crash, Restart, Deliver, Fail, vars
<1>3. r \notin delivered'
  BY <1>1 DEF IdNext, Next, Writers, Relay, Broker, Begin, Write, Flush, Commit, Abort, Tick,
     StartPass, EmptyPass, FlushReturn, FlushTimeout, Advance, SkipCleanup, ReadCutoff,
     NothingPending, ReadNewest, DropChunks, Crash, Restart, Deliver, Fail, vars
<1>4. r \notin rows'
  <2>1. CASE \E t \in Txns : Flush(t)
    <3>1. PICK t \in Txns : Flush(t)
      BY <2>1
    <3>2. \A q \in rows' \ rows : q.id >= nextId
      <4>1. nextId \in Nat /\ \A i \in DOMAIN events[t] : i \in Nat /\ i >= 1
        <5>1. nextId \in Nat /\ events[t] \in Seq(Keys)
          BY DEF TypeOK
        <5>2. QED
          BY <5>1, LenProperties
      <4>2. QED
        BY <3>1, <4>1 DEF Flush
    <3>3. r.id < nextId /\ r.id \in Nat /\ nextId \in Nat
      BY <1>1 DEF TypeOK, Row
    <3> QED
      BY <1>1, <3>2, <3>3
  <2>2. CASE ~\E t \in Txns : Flush(t)
    BY <1>1, <2>2 DEF IdNext, Next, Writers, Relay, Broker, Begin, Write, Commit, Abort, Tick,
       StartPass, EmptyPass, FlushReturn, FlushTimeout, Advance, SkipCleanup, ReadCutoff,
       NothingPending, ReadNewest, DropChunks, Crash, Restart, Deliver, Fail, vars
  <2> QED
    BY <2>1, <2>2
<1> QED
  BY <1>2, <1>3, <1>4 DEF Lost

\* With one writer at a time, a commit brings the newest row of its keys.
LEMMA CommitNewest ==
    ASSUME IInv, ~XidWalk, NewestIsLast, NEW t \in Txns, Commit(t)
    PROVE  NewestIsLast'
<1> USE DEF IInv
<1>1. /\ state[t] = "flushed" /\ committed' = committed \cup RowsOf(t)
      /\ newest' = [k \in Keys |->
                      IF \E r \in RowsOf(t) : r.key = k
                      THEN {r \in RowsOf(t) : r.key = k} ELSE newest[k]]
  BY DEF Commit
<1>2. \A r \in RowsOf(t) : r \in Uncommitted /\ r \in Row /\ r.key \in Keys /\ r.id \in Nat
  BY <1>1 DEF RowsOf, RowsOwned, Active, Uncommitted, TypeOK, Row
<1>3. \A r \in committed : r.key \in Keys /\ r.id \in Nat
  BY DEF TypeOK, Row
<1>4. \A q \in committed, r \in RowsOf(t) : q.id < r.id
  BY <1>2 DEF NothingPassed
<1>5. ASSUME NEW k \in Keys, NEW q \in newest'[k] PROVE q \in committed' /\ q.key = k
  BY <1>1, <1>5 DEF NewestIsLast
<1>6. ASSUME NEW r \in committed' PROVE \E q \in newest'[r.key] : r.id <= q.id
  <2>1. CASE r \in RowsOf(t)
    <3>1. r \in newest'[r.key] /\ r.id <= r.id
      BY <2>1, <1>1, <1>2
    <3> QED
      BY <3>1
  <2>2. CASE r \in committed
    <3>1. CASE \E q \in RowsOf(t) : q.key = r.key
      <4>1. PICK q \in RowsOf(t) : q.key = r.key
        BY <3>1
      <4>2. q \in newest'[r.key] /\ r.id <= q.id
        BY <4>1, <2>2, <1>1, <1>2, <1>3, <1>4
      <4> QED
        BY <4>2
    <3>2. CASE ~\E q \in RowsOf(t) : q.key = r.key
      <4>1. newest'[r.key] = newest[r.key]
        BY <3>2, <2>2, <1>1, <1>3
      <4> QED
        BY <4>1, <2>2 DEF NewestIsLast
    <3> QED
      BY <3>1, <3>2
  <2> QED
    BY <2>1, <2>2, <1>1, <1>6
<1> QED
  BY <1>5, <1>6 DEF NewestIsLast

\* An acknowledgement moves the tail of its key forward within the pass.
LEMMA DeliverTail ==
    ASSUME IInv, ~XidWalk, TailInv, Deliver
    PROVE  TailInv'
<1> USE DEF IInv
<1> DEFINE Acked(i, r) ==
      /\ \A j \in 1..(i - 1) : \A q \in inflight[j] : q.key # r.key
      /\ \A q \in inflight[i] : q.key = r.key => ~Before(q, r)
      /\ inflight' = [inflight EXCEPT ![i] = @ \ {r}]
      /\ tail' = [tail EXCEPT ![r.key] = r.id]
      /\ UNCHANGED <<dbVars, pc, cursor, batch, failed>>
<1>a. PICK i \in DOMAIN inflight : \E r \in inflight[i] : Acked(i, r)
  BY DEF Deliver
<1>1. PICK r \in inflight[i] : Acked(i, r)
  BY <1>a
<1> USE DEF dbVars
<1>2. /\ Len(inflight') = Len(inflight) /\ i \in 1 .. Len(inflight) /\ Len(inflight) \in Nat
      /\ \A j \in 1..Len(inflight) :
            inflight'[j] = IF j = i THEN inflight[j] \ {r} ELSE inflight[j]
  BY <1>1, InflightShrinks
<1>3. /\ r \in committed /\ r.key \in Keys /\ r.id \in Nat /\ cursor.id < r.id
      /\ \A q \in committed : q.key \in Keys /\ q.id \in Nat
      /\ cursor.id \in Nat /\ \A k \in Keys : tail[k] \in Nat
  BY <1>2 DEF PassAccounted, TypeOK, Row, Position, TailInv, TailIsCurrent
<1>4. /\ tail'[r.key] = r.id /\ \A k \in Keys : k # r.key => tail'[k] = tail[k]
  BY <1>1, <1>3 DEF TypeOK
<1>5. NewestIsLast'
  BY <1>1 DEF TailInv, NewestIsLast
<1>6. TailIsCurrent'
  <2>1. \A k \in Keys : tail'[k] = 0 \/ \E q \in committed : q.key = k /\ q.id = tail'[k]
    BY <1>3, <1>4 DEF TailInv, TailIsCurrent
  <2>2. \A q \in committed : q.id <= cursor.id => q.id <= tail'[q.key] \/ q \in Lost'
    <3> SUFFICES ASSUME NEW q \in committed, q.id <= cursor.id, q \notin Lost'
                 PROVE  q.id <= tail'[q.key]
      OBVIOUS
    <3>0. q \notin Lost
      BY LostForGood DEF IdNext, Next, Broker
    <3>1. CASE q.key = r.key
      BY <3>1, <1>3, <1>4
    <3>2. CASE q.key # r.key
      BY <3>0, <3>2, <1>3, <1>4 DEF TailInv, TailIsCurrent
    <3> QED
      BY <3>1, <3>2
  <2>3. \A j \in 1 .. Len(inflight') : \A q \in inflight'[j] : cursor.id < q.id
    BY <1>2 DEF TailInv, TailIsCurrent
  <2> QED
    BY <2>1, <2>2, <2>3, <1>1 DEF TailIsCurrent
<1>7. PassInOrder'
  <2> DEFINE n == Len(inflight)
  <2>1. ASSUME pc = "flush", ~failed, NEW b \in batch \ inflight'[n]
        PROVE  /\ b.id <= tail'[b.key]
               /\ \A q \in inflight'[n] : q.key = b.key => b.id < q.id
               /\ \A j \in 1 .. n - 1 : \A q \in inflight'[j] : q.key # b.key
    <3>1. n \in 1 .. n /\ inflight'[n] = IF n = i THEN inflight[n] \ {r} ELSE inflight[n]
      <4>1. n \in 1 .. Len(inflight)
        BY <1>2
      <4> QED
        BY <4>1, <1>2
    <3>2. b \in committed /\ inflight[n] \subseteq committed
      BY <3>1 DEF NothingPassed, PassAccounted
    <3>3. \A q \in committed : q.id = r.id => q = r
      BY <1>3 DEF RowsOwned
    <3>4. CASE b \in inflight[n]
      <4>1. b = r /\ i = n
        BY <3>1, <3>4, <2>1
      <4>2. \A q \in inflight'[n] : q.key = b.key => b.id < q.id
        <5> SUFFICES ASSUME NEW q \in inflight[n], q # r, q.key = r.key PROVE r.id < q.id
          BY <4>1, <3>1
        <5>1. ~(q.id < r.id) /\ q.id # r.id /\ q \in committed
          BY <4>1, <3>2, <3>3, <1>1 DEF Before
        <5> QED
          BY <5>1, <1>3
      <4>3. \A j \in 1 .. n - 1 : \A q \in inflight'[j] : q.key # b.key
        BY <4>1, <1>1, <1>2
      <4> QED
        BY <4>1, <4>2, <4>3, <1>3, <1>4
    <3>5. CASE b \notin inflight[n]
      <4>1. /\ b.id <= tail[b.key]
            /\ \A q \in inflight[n] : q.key = b.key => b.id < q.id
            /\ \A j \in 1 .. n - 1 : \A q \in inflight[j] : q.key # b.key
        BY <3>5, <2>1 DEF TailInv, PassInOrder
      <4>2. /\ \A q \in inflight'[n] : q.key = b.key => b.id < q.id
            /\ \A j \in 1 .. n - 1 : \A q \in inflight'[j] : q.key # b.key
        <5>1. \A j \in 1 .. Len(inflight) : inflight'[j] \subseteq inflight[j]
          BY <1>2
        <5>2. \A j \in 1 .. n - 1 : j \in 1 .. Len(inflight)
          BY <1>2
        <5>3. inflight'[n] \subseteq inflight[n]
          BY <3>1
        <5> QED
          BY <4>1, <5>1, <5>2, <5>3
      <4>3. b.id <= tail'[b.key]
        <5>1. CASE b.key # r.key
          BY <5>1, <4>1, <3>2, <1>3, <1>4
        <5>2. CASE b.key = r.key
          <6>1. i = n
            BY <5>2, <4>1, <1>1, <1>2
          <6>2. b.id < r.id
            BY <6>1, <5>2, <4>1, <1>1
          <6> QED
            BY <6>2, <5>2, <3>2, <1>3, <1>4
        <5> QED
          BY <5>1, <5>2
      <4> QED
        BY <4>2, <4>3
    <3> QED
      BY <3>4, <3>5
  <2>2. pc # "acked"
    BY <1>1, <1>2 DEF TailInv, PassInOrder, Drained
  <2> QED
    BY <2>1, <2>2, <1>1, <1>2 DEF PassInOrder
<1> QED
  BY <1>5, <1>6, <1>7 DEF TailInv

\* A message that fails leaves the tail alone, and fails the pass it is of.
LEMMA FailTail ==
    ASSUME IInv, TailInv, Fail
    PROVE  TailInv'
<1> USE DEF IInv, dbVars
<1> DEFINE Refused(i, r) ==
      /\ inflight' = [inflight EXCEPT ![i] = @ \ {r}]
      /\ failed' = (failed \/ (pc = "flush" /\ i = Len(inflight)))
      /\ UNCHANGED <<dbVars, pc, cursor, batch, delivered, tail>>
<1>a. PICK i \in DOMAIN inflight : \E r \in inflight[i] : Refused(i, r)
  BY DEF Fail
<1>1. PICK r \in inflight[i] : Refused(i, r)
  BY <1>a
<1>2. /\ Len(inflight') = Len(inflight) /\ i \in 1 .. Len(inflight) /\ Len(inflight) \in Nat
      /\ \A j \in 1..Len(inflight) :
            inflight'[j] = IF j = i THEN inflight[j] \ {r} ELSE inflight[j]
  BY <1>1, InflightShrinks
<1>3. \A j \in 1 .. Len(inflight) : inflight'[j] \subseteq inflight[j]
  BY <1>2
<1>4. NewestIsLast' /\ TailIsCurrent'
  <2>1. Lost \subseteq Lost'
    BY LostForGood DEF IdNext, Next, Broker
  <2> QED
    BY <1>1, <1>2, <1>3, <2>1 DEF TailInv, NewestIsLast, TailIsCurrent
<1>5. pc # "acked"
  BY <1>1, <1>2 DEF TailInv, PassInOrder, Drained
<1>6. ASSUME pc = "flush", ~failed' PROVE ~failed /\ inflight'[Len(inflight)] = inflight[Len(inflight)]
  <2>1. ~failed /\ i # Len(inflight)
    BY <1>1, <1>6
  <2>2. Len(inflight) \in 1 .. Len(inflight)
    BY <1>2
  <2> QED
    BY <2>1, <2>2, <1>2
<1>7. \A j \in 1 .. Len(inflight) - 1 : inflight'[j] \subseteq inflight[j]
  BY <1>2, <1>3
<1>8. PassInOrder'
  BY <1>1, <1>2, <1>5, <1>6, <1>7 DEF TailInv, PassInOrder
<1> QED
  BY <1>4, <1>8 DEF TailInv

\* A new pass queues behind what older ones left, and only unpublished rows.
LEMMA StartPassTail ==
    ASSUME IInv, ~XidWalk, TailInv, StartPass
    PROVE  TailInv'
<1> USE DEF IInv, dbVars
<1> DEFINE next == FirstN(Eligible, BatchSize)
           queue == IF Drained THEN <<>> ELSE inflight
<1>1. /\ pc' = "flush" /\ batch' = next /\ inflight' = Append(queue, next)
      /\ UNCHANGED <<dbVars, cursor, delivered, tail>>
  BY DEF StartPass
<1>2. /\ next \subseteq Unpublished /\ next \in SUBSET Row
      /\ \A r \in next : r.id \in Nat
  BY DEF FirstN, Eligible, Unpublished, Visible, TypeOK, Row
<1>3. queue \in Seq(SUBSET Row) /\ Len(queue) \in Nat
  BY EmptySeq, LenProperties DEF TypeOK
<1>4. /\ Len(inflight') = Len(queue) + 1
      /\ \A i \in 1..Len(queue) : inflight'[i] = queue[i]
      /\ inflight'[Len(queue) + 1] = next
  BY <1>1, <1>2, <1>3, AppendProperties
<1>5. \A i \in 1 .. Len(queue) : \A r \in queue[i] : cursor.id < r.id
  BY DEF TailInv, TailIsCurrent
<1>6. \A r \in next : cursor.id < r.id
  BY <1>2 DEF Unpublished, Leq, TypeOK, Position
<1>7. \A i \in 1 .. Len(inflight') : \A r \in inflight'[i] : cursor.id < r.id
  <2> SUFFICES ASSUME NEW i \in 1 .. Len(inflight'), NEW r \in inflight'[i] PROVE cursor.id < r.id
    OBVIOUS
  <2>1. i \in 1 .. Len(queue) \/ i = Len(queue) + 1
    BY <1>3, <1>4
  <2> HIDE DEF next, queue
  <2> QED
    BY <2>1, <1>4, <1>5, <1>6
<1>8. NewestIsLast' /\ TailIsCurrent'
  BY <1>1, <1>7 DEF TailInv, NewestIsLast, TailIsCurrent, Lost
<1>9. batch' \ inflight'[Len(inflight')] = {}
  BY <1>1, <1>4
<1>10. PassInOrder'
  BY <1>1, <1>9 DEF PassInOrder
<1> QED
  BY <1>8, <1>10 DEF TailInv

\* An acknowledged pass delivered its batch last of all.
LEMMA FlushReturnTail ==
    ASSUME IInv, TailInv, FlushReturn
    PROVE  TailInv'
<1> USE DEF IInv, dbVars
<1>1. /\ pc = "flush" /\ Drained /\ pc' = IF failed THEN "cleanup" ELSE "acked"
      /\ batch' = IF failed THEN {} ELSE batch
      /\ UNCHANGED <<dbVars, cursor, failed, inflight, delivered, tail>>
  BY DEF FlushReturn
<1>2. NewestIsLast' /\ TailIsCurrent'
  BY <1>1 DEF TailInv, NewestIsLast, TailIsCurrent, Lost
<1>3. inflight[Len(inflight)] = {}
  <2>1. Len(inflight) \in 1 .. Len(inflight) /\ DOMAIN inflight = 1 .. Len(inflight)
    BY <1>1, LenProperties DEF TypeOK, PassAccounted
  <2> QED
    BY <2>1, <1>1 DEF Drained
<1>4. ~failed => \A b \in batch : b.id <= tail[b.key]
  BY <1>1, <1>3 DEF TailInv, PassInOrder
<1>5. PassInOrder'
  BY <1>1, <1>4 DEF PassInOrder, Drained
<1> QED
  BY <1>2, <1>5 DEF TailInv

\* The cursor passes rows whose keys have caught up with them, and nothing is
\* queued when it does.
LEMMA AdvanceTail ==
    ASSUME IInv, ~XidWalk, TailInv, Advance
    PROVE  TailInv'
<1> USE DEF IInv, dbVars
<1>1. PICK last \in batch : (\A r \in batch : r = last \/ Before(r, last)) /\ cursor' = PosOf(last)
  BY DEF Advance
<1>2. pc = "acked" /\ pc' = "cleanup" /\ UNCHANGED <<dbVars, failed, inflight, delivered, tail>>
  BY DEF Advance
<1>3. cursor'.id = last.id /\ last \in committed
  BY <1>1 DEF PosOf, NothingPassed
<1>4. \A r \in committed : r.id \in Nat /\ r.key \in Keys
  BY DEF TypeOK, Row
<1>5. ASSUME NEW r \in committed, r.id <= last.id, r \notin Lost PROVE r.id <= tail[r.key]
  <2>1. r = last \/ r.id < last.id
    BY <1>3, <1>4, <1>5 DEF RowsOwned
  <2>2. r \in batch \/ r.id <= cursor.id
    <3>1. r \in rows \/ r.id <= cursor.id
      BY <1>5 DEF CleanupSafe, Unoffered, Lost, Leq
    <3> QED
      BY <2>1, <3>1, <1>1 DEF BatchIsPrefix, Before, Leq
  <2> QED
    BY <2>2, <1>2, <1>5 DEF TailInv, PassInOrder, TailIsCurrent
<1>6. \A i \in 1 .. Len(inflight) : inflight[i] = {}
  <2>1. DOMAIN inflight = 1 .. Len(inflight)
    BY LenProperties DEF TypeOK
  <2> QED
    BY <2>1, <1>2 DEF TailInv, PassInOrder, Drained
<1>7. NewestIsLast' /\ PassInOrder'
  BY <1>2 DEF TailInv, NewestIsLast, PassInOrder
<1>8. TailIsCurrent'
  BY <1>2, <1>3, <1>5, <1>6 DEF TailInv, TailIsCurrent, Lost
<1> QED
  BY <1>7, <1>8 DEF TailInv

\* The other steps: a crash empties the producer's queue, and the rest touch
\* neither what is committed nor what is delivered.
LEMMA OtherTail ==
    ASSUME IInv, TailInv,
           \/ \E t \in Txns : Begin(t) \/ Flush(t) \/ Abort(t)
           \/ \E t \in Txns, k \in Keys : Write(t, k)
           \/ Tick
           \/ EmptyPass \/ SkipCleanup \/ Restart \/ FlushTimeout \/ Crash
           \/ ReadCutoff \/ NothingPending \/ ReadNewest \/ DropChunks
           \/ UNCHANGED vars
    PROVE  TailInv'
<1> USE DEF IInv, dbVars, relayVars
<1>0. Lost \subseteq Lost'
  BY LostForGood DEF IdNext, Next, Writers, Relay
<1>1. CASE Crash
  <2>1. inflight' = <<>> /\ pc' = "dead" /\ UNCHANGED <<committed, newest, cursor, tail>>
    BY <1>1 DEF Crash
  <2> QED
    BY <1>0, <2>1 DEF TailInv, NewestIsLast, TailIsCurrent, PassInOrder
<1>2. CASE ~Crash
  <2>1. UNCHANGED <<committed, newest, cursor, tail, inflight>>
    BY <1>2 DEF Begin, Write, Flush, Abort, Tick, EmptyPass, SkipCleanup, Restart, FlushTimeout,
                ReadCutoff, NothingPending, ReadNewest, DropChunks, vars
  <2>2. NewestIsLast' /\ TailIsCurrent'
    BY <1>0, <2>1 DEF TailInv, NewestIsLast, TailIsCurrent
  <2>3. pc' \notin {"flush", "acked"} \/ UNCHANGED <<pc, batch, failed>>
    BY <1>2 DEF Begin, Write, Flush, Abort, Tick, EmptyPass, SkipCleanup, Restart, FlushTimeout,
                ReadCutoff, NothingPending, ReadNewest, DropChunks, vars
  <2>4. PassInOrder'
    BY <2>1, <2>3 DEF TailInv, PassInOrder, Drained
  <2> QED
    BY <2>2, <2>4 DEF TailInv
<1> QED
  BY <1>1, <1>2

\* Behind the id cursor every step keeps the order of each key.
LEMMA TailStep ==
    ASSUME IInv, ~XidWalk, TailInv, [IdNext]_vars
    PROVE  TailInv'
<1> USE DEF IdNext, Next, Writers, Relay, Broker
<1>1. CASE Deliver \/ Fail
  BY <1>1, DeliverTail, FailTail
<1>2. CASE StartPass \/ FlushReturn \/ Advance
  BY <1>2, StartPassTail, FlushReturnTail, AdvanceTail
<1>3. ASSUME NEW t \in Txns, Commit(t) PROVE TailInv'
  <2>1. NewestIsLast'
    BY <1>3, CommitNewest DEF TailInv
  <2>2. /\ UNCHANGED <<pc, batch, failed, cursor, tail, inflight>>
        /\ committed' = committed \cup RowsOf(t)
    BY <1>3 DEF Commit, relayVars
  <2>3. \A r \in RowsOf(t) : r \in Uncommitted /\ r.id \in Nat
    BY <1>3 DEF Commit, RowsOf, IInv, RowsOwned, Active, Uncommitted, TypeOK, Row
  <2>4. \A r \in RowsOf(t) : ~(r.id <= cursor.id)
    BY <2>3 DEF IInv, NothingPassed, TypeOK, Position
  <2>5. TailIsCurrent'
    <3>1. Lost \subseteq Lost'
      BY <1>3, LostForGood
    <3> QED
      BY <2>2, <2>4, <3>1 DEF TailInv, TailIsCurrent
  <2> QED
    BY <2>1, <2>2, <2>5 DEF TailInv, PassInOrder, Drained
<1> QED
  BY <1>1, <1>2, <1>3, OtherTail

\* The relay of the stream's outbox: what its cleanup can lose was committed
\* between the two reads of a cutoff; and as long as it has lost nothing, it
\* skips nothing, and whenever it has caught up the last message of each key is
\* the key's last change.
THEOREM CursorKeepsOrder == ASSUME ~XidWalk PROVE IdSpec => []IdCursorHolds
<1>1. Init => TailInv
  BY DEF Init, TailInv, NewestIsLast, TailIsCurrent, PassInOrder
<1>2. IInv /\ TailInv /\ [IdNext]_vars => TailInv'
  BY TailStep
<1>3. IInv /\ TailInv => IdCursorHolds
  <2> SUFFICES ASSUME IInv, TailInv PROVE IdCursorHolds
    OBVIOUS
  <2>1. TypeOK /\ QueueNotSkipped
    BY DEF IInv
  <2>2. Lost \subseteq window
    BY DEF IInv, CleanupSafe, Unoffered, Lost
  <2>3. ASSUME NoLoss PROVE Lost = {} /\ NoSkip
    BY <2>1, <2>3 DEF NoLoss, Lost, QueueNotSkipped, NoSkip
  <2>4. ASSUME NoLoss, committed = Done, NEW k \in Keys, NEW n \in newest[k]
        PROVE  IsGreatest(tail[k], {r.id : r \in newest[k]})
    <3>1. \A r \in committed : r.id <= tail[r.key]
      <4>1. \A r \in committed : r.id <= cursor.id
        BY <2>3, <2>4 DEF Done, Leq, IInv, CleanupSafe, Unoffered, Lost
      <4> QED
        BY <2>3, <2>4, <4>1 DEF TailInv, TailIsCurrent
    <3>2. \A r \in newest[k] : r \in committed /\ r.key = k
      BY DEF TailInv, NewestIsLast
    <3>3. \A r \in committed : r.id \in Nat \ {0}
      BY <2>1 DEF TypeOK, Row
    <3>4. tail[k] \in Nat \ {0}
      BY <2>1, <2>4, <3>1, <3>2, <3>3 DEF TypeOK
    <3>5. PICK r \in committed : r.key = k /\ r.id = tail[k]
      BY <3>4 DEF TailInv, TailIsCurrent
    <3>6. PICK q \in newest[k] : r.id <= q.id
      BY <3>5 DEF TailInv, NewestIsLast
    <3>7. q.id = tail[k]
      BY <3>1, <3>2, <3>3, <3>4, <3>5, <3>6
    <3> QED
      BY <3>1, <3>2, <3>7 DEF IsGreatest
  <2> QED
    BY <2>2, <2>3, <2>4 DEF IdCursorHolds, TailIsNewest, Lost
<1> QED
  BY <1>1, <1>2, <1>3, Invariance, PTL DEF IdSpec
===============================================================================

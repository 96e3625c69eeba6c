-------------------------- MODULE StreamIngestProofs --------------------------
(***************************************************************************)
(* Proofs about StreamIngest, for every set of symbols and every value of  *)
(* the queue, batch and fault bounds.                                      *)
(*                                                                         *)
(* The argument follows a tick through the writer's steps.  BatchFlow says *)
(* what each step may assume of the rows in hand: the INSERT let through   *)
(* only listed symbols, or rows already archived; after the commit every   *)
(* row of the batch is settled; between batches there is none.  QuoteFlow  *)
(* says drained quotes exist only inside the transaction, CountFlow how    *)
(* the counts are split while take() is half done.                         *)
(***************************************************************************)
EXTENDS StreamIngest, TLAPS

InTransaction == {"quotes", "upsert", "commit"}

\* What the writer knows of the batch at each step; the archive refers only to
\* listed symbols.
BatchFlow ==
    /\ \A t \in ticks : t.symbol \in listed
    /\ pc \in {"idle", "count", "reset", "add", "done"} => batch = <<>>
    /\ pc \in {"insert"} \cup InTransaction => accepted \subseteq ElementsOf(batch)
    /\ pc \in InTransaction => \A t \in accepted : t.symbol \in listed \/ t \in purged
    /\ pc = "publish" => ElementsOf(batch) \subseteq Settled /\ accepted \subseteq ticks \cup purged

\* Only a stopped run drains, and only an empty queue ends the drain.
DrainFlow ==
    /\ draining => stopping
    /\ pc = "done" => draining /\ queue = <<>> /\ rejectq = 0

\* Quotes are out of the box and not in the table only inside a transaction.
QuoteFlow == pc \notin {"upsert", "commit", "dead", "exited"} => drained = Empty

\* The counts, while take() has read them, reset them, or is not under way.
CountFlow ==
    \A c \in {"messages", "dropped", "rejected"} :
        /\ pc \notin {"reset", "add", "dead", "exited"} => taken[c] = 0
        /\ pc = "reset" => taken[c] <= counters[c]
        /\ pc \notin {"reset", "dead", "exited"} =>
              totals[c] + taken[c] + counters[c] <= received[c]

-------------------------------------------------------------------------------
(* Sequences and maxima *)

\* What an append, a head and a tail do to the elements of a sequence.
LEMMA Elements ==
    ASSUME NEW S, NEW q \in Seq(S), NEW t \in S
    PROVE  /\ ElementsOf(<<>>) = {}
           /\ ElementsOf(q) \subseteq S
           /\ ElementsOf(Append(q, t)) = ElementsOf(q) \cup {t}
           /\ q # <<>> => ElementsOf(q) = {Head(q)} \cup ElementsOf(Tail(q))
<1>1. ElementsOf(<<>>) = {} /\ ElementsOf(q) \subseteq S
  BY DEF ElementsOf
<1>2. ElementsOf(Append(q, t)) = ElementsOf(q) \cup {t}
  BY DEF ElementsOf
<1>3. ASSUME q # <<>> PROVE ElementsOf(q) = {Head(q)} \cup ElementsOf(Tail(q))
  <2>1. Len(q) \in Nat \ {0} /\ Len(Tail(q)) = Len(q) - 1
    BY <1>3
  <2>2. \A i \in 1 .. Len(q) : i = 1 \/ (i - 1 \in 1 .. Len(Tail(q)) /\ Tail(q)[i - 1] = q[i])
    BY <2>1
  <2>3. \A i \in 1 .. Len(Tail(q)) : i + 1 \in 1 .. Len(q) /\ Tail(q)[i] = q[i + 1]
    BY <2>1
  <2>4. q[1] = Head(q) /\ 1 \in 1 .. Len(q)
    BY <1>3, <2>1
  <2>5. ASSUME NEW x \in ElementsOf(q) PROVE x = Head(q) \/ x \in ElementsOf(Tail(q))
    <3>1. PICK i \in 1 .. Len(q) : x = q[i]
      BY <2>5 DEF ElementsOf
    <3>2. QED
      BY <2>2, <2>4, <3>1 DEF ElementsOf
  <2>6. ASSUME NEW x \in ElementsOf(Tail(q)) PROVE x \in ElementsOf(q)
    <3>1. PICK i \in 1 .. Len(Tail(q)) : x = Tail(q)[i]
      BY <2>6 DEF ElementsOf
    <3>2. QED
      BY <2>3, <3>1 DEF ElementsOf
  <2>7. Head(q) \in ElementsOf(q)
    BY <2>4 DEF ElementsOf
  <2>8. QED
    BY <2>5, <2>6, <2>7
<1>4. QED
  BY <1>1, <1>2, <1>3

\* Newer is the maximum.
LEMMA NewerIsMax ==
    ASSUME NEW a \in 0 .. MaxTs, NEW b \in 0 .. MaxTs, NEW c \in 0 .. MaxTs
    PROVE  /\ Newer(a, b) \in 0 .. MaxTs
           /\ Newer(a, b) = Newer(b, a)
           /\ Newer(a, Newer(b, c)) = Newer(Newer(a, b), c)
           /\ Newer(a, 0) = a /\ Newer(0, a) = a
BY StreamAssumption DEF Newer

\* Adding counts adds each of them.
LEMMA PlusCounts ==
    ASSUME NEW a \in Counts, NEW b \in Counts
    PROVE  /\ Plus(a, b) \in Counts
           /\ \A c \in {"messages", "dropped", "rejected"} : Plus(a, b)[c] = a[c] + b[c]
           /\ Zero \in Counts
           /\ \A c \in {"messages", "dropped", "rejected"} : Zero[c] = 0 /\ a[c] \in Nat
BY DEF Counts, Plus, Zero

-------------------------------------------------------------------------------
(* Type correctness *)

LEMMA InitType == Init => TypeOK
<1> SUFFICES ASSUME Init PROVE TypeOK
  OBVIOUS
<1>1. Empty \in Latest /\ Zero \in Counts
  BY StreamAssumption DEF Empty, Latest, Zero, Counts
<1>2. queue \in Seq(Tick) /\ batch \in Seq(Tick)
  BY DEF Init
<1>3. /\ box \in Latest /\ drained \in Latest /\ quotes \in Latest /\ newest \in Latest
      /\ counters \in Counts /\ taken \in Counts /\ totals \in Counts /\ received \in Counts
  BY <1>1 DEF Init
<1>4. listed \subseteq Symbols
  BY DEF Init
<1>5. QED
  BY <1>2, <1>3, <1>4 DEF Init, TypeOK

LEMMA LandType == ASSUME TypeOK, Land PROVE
    /\ ticks' \subseteq Tick /\ outbox' \subseteq Tick /\ refused' \subseteq Tick
    /\ quotes' \in Latest /\ listed' \subseteq Symbols /\ totals' \in Counts
<1>1. ElementsOf(batch) \subseteq Tick
  BY DEF TypeOK, ElementsOf
<1>2. [s \in Symbols |-> Newer(drained[s], quotes[s])] \in Latest
  BY DEF TypeOK, Latest, Newer
<1>3. QED
  BY <1>1, <1>2 DEF TypeOK, Land

LEMMA TypeStep == TypeOK /\ [Next]_vars => TypeOK'
<1> SUFFICES ASSUME TypeOK, [Next]_vars PROVE TypeOK'
  OBVIOUS
<1>0. Empty \in Latest /\ Zero \in Counts
  BY StreamAssumption DEF Empty, Latest, Zero, Counts
<1>1. CASE ReceiveBad
  <2>1. [messages |-> 1, dropped |-> 0, rejected |-> 1] \in Counts
    BY DEF Counts
  <2>2. counters' \in Counts /\ received' \in Counts
    BY <1>1, <2>1, PlusCounts DEF ReceiveBad, TypeOK
  <2>3. rejectq' \in Nat
    BY <1>1 DEF ReceiveBad, OfferReject, TypeOK
  <2>4. QED
    BY <1>1, <2>2, <2>3 DEF ReceiveBad, TypeOK, writerVars, dbVars, runVars
<1>2. ASSUME NEW t \in Tick, Receive(t) PROVE TypeOK'
  <2> DEFINE drops == t.symbol \in Archive /\ Full
             one == [messages |-> 1, dropped |-> IF drops THEN 1 ELSE 0, rejected |-> 0]
  <2>1. one \in Counts
    BY DEF Counts
  <2>2. counters' = Plus(counters, one) /\ received' = Plus(received, one)
    BY <1>2 DEF Receive
  <2>3. counters' \in Counts /\ received' \in Counts
    <3> HIDE DEF one
    <3> QED
      BY <2>1, <2>2, PlusCounts DEF TypeOK
  <2>4. queue' \in Seq(Tick) /\ arrived' \subseteq Tick /\ overflow' \subseteq Tick
    BY <1>2 DEF Receive, TypeOK
  <2>5. box' \in Latest /\ newest' \in Latest
    <3>1. t.symbol \in Symbols /\ t.ts \in 0 .. MaxTs
      BY StreamAssumption DEF Tick
    <3>2. \A n \in 0 .. MaxTs : Newer(t.ts, n) \in 0 .. MaxTs
      BY <3>1 DEF Newer
    <3>3. QED
      BY <1>2, <3>1, <3>2 DEF Receive, Put, TypeOK, Latest
  <2>6. QED
    BY <1>2, <2>3, <2>4, <2>5 DEF Receive, TypeOK, writerVars, dbVars, runVars
<1>3. CASE Begin \/ EndEmpty \/ Insert \/ Upsert \/ TakeRead
  BY <1>3 DEF Begin, EndEmpty, Insert, Upsert, TakeRead, TypeOK, loopVars, dbVars, runVars, historyVars
<1>4. CASE Get
  <2>1. queue' \in Seq(Tick) /\ batch' \in Seq(Tick)
    BY <1>4 DEF Get, TypeOK
  <2>2. QED
    BY <1>4, <2>1 DEF Get, TypeOK, dbVars, runVars, historyVars
<1>5. CASE EndCollect
  <2>1. rejectq' \in Nat
    BY SMTT(30), <1>5, StreamAssumption DEF EndCollect, TakenRejects, TypeOK
  <2>2. batches' \in Nat
    BY <1>5, StreamAssumption DEF EndCollect, TypeOK
  <2>3. QED
    BY <1>5, <2>1, <2>2 DEF EndCollect, TypeOK, dbVars, runVars, historyVars
<1>6. CASE Filter
  <2>1. ElementsOf(batch) \subseteq Tick
    BY DEF TypeOK, ElementsOf
  <2>2. accepted' \subseteq Tick /\ cache' \subseteq Symbols
    BY <1>6, <2>1 DEF Filter, Remembered, TypeOK
  <2>3. QED
    BY <1>6, <2>2 DEF Filter, TypeOK, loopVars, dbVars, runVars, historyVars
<1>7. CASE DrainBox
  <2>1. drained' \in Latest /\ cache' \subseteq Symbols
    BY <1>7, StreamAssumption DEF DrainBox, Remembered, TypeOK, Latest
  <2>2. QED
    BY <1>0, <1>7, <2>1 DEF DrainBox, TypeOK, dbVars, runVars, historyVars
<1>8. CASE Commit
  BY <1>0, <1>8, LandType DEF Commit, TypeOK, loopVars, runVars, historyVars
<1>9. CASE Publish
  BY <1>9 DEF Publish, TypeOK, loopVars, dbVars, runVars
<1>10. CASE TakeReset
  BY <1>0, <1>10 DEF TakeReset, TypeOK, dbVars, runVars, historyVars
<1>11. CASE AddCounters
  <2>1. totals' \in Counts
    BY <1>11, PlusCounts DEF AddCounters, TypeOK
  <2>2. QED
    BY <1>0, <1>11, <2>1 DEF AddCounters, TypeOK, loopVars, runVars, historyVars
<1>12. CASE WriterFails
  BY <1>12, LandType DEF WriterFails, TypeOK, loopVars, dbVars, runVars
<1>13. ASSUME NEW s \in Symbols, Purge(s) PROVE TypeOK'
  <2>1. quotes' \in Latest
    BY <1>13, StreamAssumption DEF Purge, TypeOK, Latest
  <2>2. QED
    BY <1>13, <2>1 DEF Purge, TypeOK, loopVars, writerVars, runVars
<1>14. CASE WatchStop \/ WatchDead \/ StopWriter \/ CloseSession
  BY <1>14 DEF WatchStop, WatchDead, StopWriter, CloseSession, TypeOK,
               loopVars, writerVars, dbVars, historyVars
<1>15. CASE Exit
  BY <1>15 DEF Exit, TypeOK, loopVars, dbVars, runVars, historyVars
<1>16. CASE UNCHANGED vars
  BY <1>16 DEF TypeOK, vars, loopVars, writerVars, dbVars, runVars, historyVars
<1>17. QED
  BY <1>1, <1>2, <1>3, <1>4, <1>5, <1>6, <1>7, <1>8, <1>9, <1>10, <1>11, <1>12, <1>13, <1>14,
     <1>15, <1>16 DEF Next, WriterStep

\* Every reachable state of the streaming process is well typed.
THEOREM StreamTypeCorrect == Spec => []TypeOK
BY InitType, TypeStep, PTL DEF Spec

-------------------------------------------------------------------------------
(* Where the ticks are *)

TickInv == TypeOK /\ BatchFlow /\ KeptOrCounted /\ DownstreamConsistent

LEMMA InitTick == Init => TickInv
<1> SUFFICES ASSUME Init PROVE TickInv
  OBVIOUS
<1>1. BatchFlow /\ KeptOrCounted /\ DownstreamConsistent
  BY DEF Init, BatchFlow, KeptOrCounted, DownstreamConsistent, InTransaction
<1>2. QED
  BY <1>1, InitType DEF TickInv

\* A committed batch is settled, and the tables only grow by it.
LEMMA LandSettles == ASSUME TickInv, pc = "commit", Land PROVE
    /\ Settled \subseteq ticks' \cup refused' \cup overflow \cup purged
    /\ ElementsOf(batch) \subseteq ticks' \cup refused' \cup purged
    /\ accepted \subseteq ticks' \cup purged
    /\ ticks \subseteq ticks'
    /\ Kafka => ticks' \subseteq outbox'
    /\ \A t \in ticks' : t.symbol \in listed'
<1>1. accepted \subseteq ElementsOf(batch) /\ \A t \in accepted : t.symbol \in listed \/ t \in purged
  BY DEF TickInv, BatchFlow, InTransaction
<1>2. /\ ticks' = ticks \cup {t \in accepted : t.symbol \in listed}
      /\ refused' = refused \cup (ElementsOf(batch) \ accepted)
      /\ outbox' = IF Kafka THEN outbox \cup ElementsOf(batch) ELSE outbox
  BY DEF Land
<1>3. (Kafka => ticks \subseteq outbox) /\ listed' = listed /\ \A t \in ticks : t.symbol \in listed
  BY DEF TickInv, DownstreamConsistent, BatchFlow, Land
<1>4. QED
  BY <1>1, <1>2, <1>3 DEF Settled

LEMMA TickStep == TickInv /\ [Next]_vars => TickInv'
<1> SUFFICES ASSUME TickInv, [Next]_vars PROVE TickInv'
  OBVIOUS
<1> USE DEF TickInv
<1>0. TypeOK'
  BY TypeStep
<1> SUFFICES BatchFlow' /\ KeptOrCounted' /\ DownstreamConsistent'
  BY <1>0
<1>1. CASE ReceiveBad
  BY <1>1 DEF ReceiveBad, writerVars, dbVars, runVars, BatchFlow, KeptOrCounted, Alive,
              DownstreamConsistent, Settled
<1>2. ASSUME NEW t \in Tick, Receive(t) PROVE BatchFlow' /\ KeptOrCounted' /\ DownstreamConsistent'
  <2>1. /\ UNCHANGED <<writerVars, dbVars, published, purged>>
        /\ arrived' \subseteq arrived \cup {t} /\ overflow \subseteq overflow'
        /\ arrived' = arrived \/ t \in overflow' \/ queue' = Append(queue, t)
        /\ queue' = queue \/ queue' = Append(queue, t)
    BY <1>2 DEF Receive
  <2>2. /\ ElementsOf(queue) \subseteq ElementsOf(queue')
        /\ arrived' = arrived \/ t \in overflow' \/ t \in ElementsOf(queue')
    <3>1. queue \in Seq(Tick)
      BY DEF TypeOK
    <3>2. ElementsOf(Append(queue, t)) = ElementsOf(queue) \cup {t}
      BY <3>1, Elements
    <3>3. QED
      BY <2>1, <3>2
  <2>3. BatchFlow' /\ DownstreamConsistent'
    BY <2>1 DEF BatchFlow, DownstreamConsistent, Settled, writerVars, dbVars
  <2>4. KeptOrCounted'
    BY <2>1, <2>2 DEF KeptOrCounted, Alive, Settled, writerVars, dbVars
  <2>5. QED
    BY <2>3, <2>4
<1>3. CASE Begin \/ EndEmpty \/ Upsert \/ TakeRead \/ TakeReset \/ AddCounters
  <2>1. /\ UNCHANGED <<queue, batch, accepted, listed, ticks, refused, outbox, overflow, purged, arrived, published>>
        /\ pc' \in InTransaction => pc \in InTransaction
        /\ pc' \notin {"insert", "publish"}
        /\ Alive' => Alive
        /\ pc' \in {"idle", "count", "reset", "add", "done"} => batch = <<>>
    BY <1>3 DEF Begin, EndEmpty, Upsert, TakeRead, TakeReset, AddCounters, InTransaction, Alive,
                loopVars, dbVars, runVars, historyVars, BatchFlow
  <2>2. QED
    BY <2>1 DEF BatchFlow, KeptOrCounted, DownstreamConsistent, Settled
<1>4. CASE Get
  <2>1. /\ UNCHANGED <<pc, accepted, dbVars, historyVars>> /\ pc = "collect" /\ queue # <<>>
        /\ batch' = Append(batch, Head(queue)) /\ queue' = Tail(queue)
    BY <1>4 DEF Get
  <2>2. Head(queue) \in Tick /\ queue \in Seq(Tick) /\ batch \in Seq(Tick)
    BY <2>1 DEF TypeOK
  <2>3. ElementsOf(queue) \cup ElementsOf(batch) = ElementsOf(queue') \cup ElementsOf(batch')
    BY <2>1, <2>2, Elements
  <2>4. QED
    BY <2>1, <2>3 DEF BatchFlow, KeptOrCounted, DownstreamConsistent, Settled, Alive,
                      InTransaction, dbVars, historyVars
<1>5. CASE EndCollect
  BY <1>5 DEF EndCollect, BatchFlow, KeptOrCounted, DownstreamConsistent, Settled, Alive,
              InTransaction, dbVars, historyVars
<1>6. CASE Filter
  <2>1. accepted' \subseteq ElementsOf(batch) /\ pc' = "insert" /\ pc = "filter"
        /\ UNCHANGED <<queue, batch, dbVars, historyVars>>
    BY <1>6 DEF Filter, loopVars
  <2>2. QED
    BY <2>1 DEF BatchFlow, KeptOrCounted, DownstreamConsistent, Settled, Alive,
                InTransaction, dbVars, historyVars
<1>7. CASE Insert
  <2>1. UNCHANGED <<queue, batch, accepted, dbVars, historyVars>> /\ pc = "insert"
    BY <1>7 DEF Insert, loopVars
  <2>2. CASE pc' = "dead"
    BY <2>1, <2>2 DEF BatchFlow, KeptOrCounted, DownstreamConsistent, Settled, Alive,
                      InTransaction, dbVars, historyVars
  <2>3. CASE pc' \in {"quotes", "commit"} /\ SymbolsOf(accepted \ ticks) \subseteq listed
    <3>1. \A t \in accepted : t.symbol \in listed \/ t \in ticks
      BY <2>3 DEF SymbolsOf
    <3>2. \A t \in ticks : t.symbol \in listed
      BY DEF BatchFlow
    <3>3. QED
      BY <2>1, <2>3, <3>1, <3>2 DEF BatchFlow, KeptOrCounted, DownstreamConsistent, Settled, Alive,
                      InTransaction, dbVars, historyVars
  <2>4. QED
    BY <1>7, <2>2, <2>3 DEF Insert
<1>8. CASE DrainBox
  BY <1>8 DEF DrainBox, BatchFlow, KeptOrCounted, DownstreamConsistent, Settled, Alive,
              InTransaction, dbVars, historyVars
<1>9. CASE Commit
  <2>1. /\ pc = "commit" /\ pc' = "publish" /\ Land
        /\ UNCHANGED <<queue, batch, accepted, historyVars>>
    BY <1>9 DEF Commit, loopVars
  <2>2. QED
    BY <2>1, LandSettles DEF BatchFlow, KeptOrCounted, DownstreamConsistent, Settled, Alive,
                             InTransaction, historyVars
<1>10. CASE Publish
  <2>1. /\ pc = "publish" /\ pc' = "count" /\ batch' = <<>>
        /\ published' \subseteq published \cup accepted
        /\ UNCHANGED <<queue, ticks, refused, outbox, listed, overflow, purged, arrived>>
    BY <1>10 DEF Publish, loopVars, dbVars
  <2>2. QED
    BY <2>1 DEF BatchFlow, KeptOrCounted, DownstreamConsistent, Settled, Alive, InTransaction
<1>11. CASE WriterFails
  <2>1. /\ pc' = "dead" /\ UNCHANGED <<arrived, overflow, purged, published>>
        /\ UNCHANGED dbVars \/ (pc = "commit" /\ Land)
    BY <1>11 DEF WriterFails
  <2>2. CASE UNCHANGED dbVars
    BY <2>1, <2>2 DEF BatchFlow, KeptOrCounted, DownstreamConsistent, Alive, InTransaction, dbVars
  <2>3. CASE pc = "commit" /\ Land
    BY <2>1, <2>3, LandSettles DEF BatchFlow, KeptOrCounted, DownstreamConsistent, Alive, InTransaction
  <2>4. QED
    BY <2>1, <2>2, <2>3
<1>12. ASSUME NEW s \in Symbols, Purge(s) PROVE BatchFlow' /\ KeptOrCounted' /\ DownstreamConsistent'
  <2>1. /\ s \in listed \ Locked /\ listed' = listed \ {s}
        /\ ticks' = {t \in ticks : t.symbol # s}
        /\ purged' = purged \cup {t \in ticks : t.symbol = s}
        /\ UNCHANGED <<queue, pc, batch, accepted, outbox, refused, arrived, overflow, published>>
    BY <1>12 DEF Purge, loopVars, writerVars
  <2>2. ticks' \cup purged' = ticks \cup purged /\ purged \subseteq purged' /\ ticks' \subseteq ticks
    BY <2>1
  <2>3. Settled' = Settled
    BY <2>1, <2>2 DEF Settled
  <2>4. ASSUME pc \in InTransaction, NEW t \in accepted PROVE t.symbol \in listed' \/ t \in purged'
    <3>1. t.symbol = s => t \in ticks
      BY <2>1, <2>4 DEF Locked, SymbolsOf, InTransaction
    <3>2. QED
      BY <2>1, <2>4, <3>1 DEF BatchFlow
  <2>5. BatchFlow'
    BY <2>1, <2>2, <2>3, <2>4 DEF BatchFlow, InTransaction
  <2>6. QED
    BY <2>1, <2>2, <2>3, <2>5 DEF KeptOrCounted, DownstreamConsistent, Alive
<1>13. CASE WatchStop \/ WatchDead \/ StopWriter \/ CloseSession
  <2>1. UNCHANGED <<loopVars, writerVars, dbVars, historyVars>>
    BY <1>13 DEF WatchStop, WatchDead, StopWriter, CloseSession
  <2>2. QED
    BY <2>1 DEF BatchFlow, KeptOrCounted, DownstreamConsistent, Settled, Alive,
                loopVars, writerVars, dbVars, historyVars
<1>14. CASE Exit
  BY <1>14 DEF Exit, BatchFlow, KeptOrCounted, DownstreamConsistent, Alive, InTransaction,
               dbVars, historyVars
<1>15. CASE UNCHANGED vars
  BY <1>15 DEF BatchFlow, KeptOrCounted, DownstreamConsistent, Settled, Alive, vars,
               loopVars, writerVars, dbVars, historyVars
<1>16. QED
  BY <1>1, <1>2, <1>3, <1>4, <1>5, <1>6, <1>7, <1>8, <1>9, <1>10, <1>11, <1>12, <1>13, <1>14,
     <1>15 DEF Next, WriterStep

LEMMA TickInvariance == Spec => []TickInv
BY InitTick, TickStep, PTL DEF Spec

\* No tick of an archived symbol vanishes while the writer lives.
THEOREM NoTickVanishes == Spec => []KeptOrCounted
<1>1. TickInv => KeptOrCounted
  BY DEF TickInv
<1>2. QED
  BY <1>1, TickInvariance, PTL

\* Browsers and Kafka never run ahead of or behind the archive's transactions.
THEOREM DownstreamFollows == Spec => []DownstreamConsistent
<1>1. TickInv => DownstreamConsistent
  BY DEF TickInv
<1>2. QED
  BY <1>1, TickInvariance, PTL

-------------------------------------------------------------------------------
(* The drain *)

LEMMA DrainStep == TypeOK /\ DrainFlow /\ [Next]_vars => DrainFlow'
<1> SUFFICES ASSUME TypeOK, DrainFlow, [Next]_vars PROVE DrainFlow'
  OBVIOUS
<1>1. CASE ReceiveBad \/ \E t \in Tick : Receive(t)
  <2>1. ~stopping /\ UNCHANGED <<writerVars, runVars>>
    BY <1>1 DEF ReceiveBad, Receive
  <2>2. QED
    BY <2>1 DEF DrainFlow, writerVars, runVars
<1>2. CASE EndEmpty
  BY <1>2 DEF EndEmpty, DrainFlow, loopVars, runVars
<1>3. CASE WriterStep /\ ~EndEmpty
  <2>1. pc' # "done" /\ stopping' = stopping /\ (draining' = draining \/ draining' = stopping)
    BY <1>3 DEF WriterStep, Begin, Get, EndCollect, Filter, Insert, DrainBox, Upsert, Commit,
                Publish, TakeRead, TakeReset, AddCounters, runVars
  <2>2. QED
    BY <2>1 DEF DrainFlow, TypeOK
<1>4. CASE WriterFails \/ Exit
  BY <1>4 DEF WriterFails, Exit, DrainFlow, runVars
<1>5. CASE \E s \in Symbols : Purge(s)
  BY <1>5 DEF Purge, DrainFlow, loopVars, writerVars, runVars
<1>6. CASE WatchStop \/ WatchDead \/ StopWriter \/ CloseSession
  BY <1>6 DEF WatchStop, WatchDead, StopWriter, CloseSession, DrainFlow, loopVars, writerVars
<1>7. CASE UNCHANGED vars
  BY <1>7 DEF DrainFlow, vars, loopVars, writerVars, runVars
<1>8. QED
  BY <1>1, <1>2, <1>3, <1>4, <1>5, <1>6, <1>7 DEF Next

\* A clean stop leaves nothing behind.
THEOREM CleanStopDrains == Spec => []StopDrains
<1>1. Init => DrainFlow
  BY DEF Init, DrainFlow
<1>2. TickInv /\ DrainFlow => StopDrains
  BY DEF TickInv, BatchFlow, DrainFlow, KeptOrCounted, StopDrains, Alive, ElementsOf
<1>3. QED
  BY <1>1, <1>2, DrainStep, TickInvariance, StreamTypeCorrect, PTL DEF Spec

-------------------------------------------------------------------------------
(* The newest price *)

QuoteInv == TypeOK /\ QuoteFlow /\ LatestNeverLost

LEMMA QuoteStep == QuoteInv /\ [Next]_vars => QuoteInv'
<1> SUFFICES ASSUME QuoteInv, [Next]_vars PROVE QuoteInv'
  OBVIOUS
<1> USE DEF QuoteInv
<1>0. TypeOK'
  BY TypeStep
<1> SUFFICES QuoteFlow' /\ LatestNeverLost'
  BY <1>0
<1>t. \A s \in Symbols : /\ box[s] \in 0 .. MaxTs /\ drained[s] \in 0 .. MaxTs
                         /\ quotes[s] \in 0 .. MaxTs /\ newest[s] \in 0 .. MaxTs
                         /\ Empty[s] = 0
  BY DEF TypeOK, Latest, Empty
<1>l. listed \subseteq Symbols
  BY DEF TypeOK
<1>1. ASSUME NEW t \in Tick, Receive(t) PROVE QuoteFlow' /\ LatestNeverLost'
  <2>1. /\ box' = [box EXCEPT ![t.symbol] = Newer(t.ts, @)]
        /\ newest' = [newest EXCEPT ![t.symbol] = Newer(t.ts, @)]
        /\ UNCHANGED <<pc, drained, quotes, listed>>
    BY <1>1 DEF Receive, Put, writerVars, dbVars
  <2>2. t.symbol \in Symbols /\ t.ts \in 0 .. MaxTs
    BY StreamAssumption DEF Tick
  <2>3. ASSUME Alive', NEW s \in listed'
        PROVE  newest'[s] = Newer(box'[s], Newer(drained'[s], quotes'[s]))
    <3>1. Alive /\ s \in Symbols /\ newest[s] = Newer(box[s], Newer(drained[s], quotes[s]))
      BY <1>l, <2>1, <2>3 DEF Alive, LatestNeverLost
    <3>2. CASE s # t.symbol
      BY <2>1, <2>2, <3>1, <3>2 DEF TypeOK, Latest
    <3>3. CASE s = t.symbol
      <4>1. newest'[s] = Newer(t.ts, newest[s]) /\ box'[s] = Newer(t.ts, box[s])
        BY <2>1, <3>1, <3>3 DEF TypeOK, Latest
      <4> DEFINE rest == Newer(drained[s], quotes[s])
      <4>2. rest \in 0 .. MaxTs
        BY <1>t, <3>1, NewerIsMax
      <4>3. Newer(t.ts, Newer(box[s], rest)) = Newer(Newer(t.ts, box[s]), rest)
        BY <1>t, <2>2, <3>1, <4>2, NewerIsMax
      <4>4. QED
        BY <2>1, <3>1, <4>1, <4>3
    <3>4. QED
      BY <3>2, <3>3
  <2>4. QED
    BY <2>1, <2>3 DEF QuoteFlow, LatestNeverLost
<1>2. CASE DrainBox
  <2>1. PICK stale \in BOOLEAN :
          drained' = [s \in Symbols |->
             IF s \in Hits(stale, {u \in Symbols : box[u] # 0}) THEN box[s] ELSE 0]
    BY <1>2 DEF DrainBox
  <2>2. box' = Empty /\ pc = "quotes" /\ pc' = "upsert" /\ UNCHANGED <<quotes, newest, listed>>
    BY <1>2 DEF DrainBox, dbVars, historyVars
  <2>3. ASSUME NEW s \in listed PROVE drained'[s] = box[s]
    BY <1>l, <2>1, <2>3 DEF Hits, TypeOK
  <2>4. ASSUME NEW s \in listed
        PROVE  newest'[s] = Newer(box'[s], Newer(drained'[s], quotes'[s]))
    <3>1. newest[s] = Newer(box[s], Newer(drained[s], quotes[s])) /\ drained[s] = 0 /\ s \in Symbols
      BY <1>l, <1>t, <2>2, <2>4 DEF LatestNeverLost, Alive, QuoteFlow
    <3>2. QED
      BY <1>t, <2>2, <2>3, <3>1, NewerIsMax
  <2>5. QED
    BY <2>2, <2>4 DEF QuoteFlow, LatestNeverLost
<1>3. CASE Commit
  <2>1. /\ quotes' = [s \in Symbols |-> Newer(drained[s], quotes[s])] /\ drained' = Empty
        /\ pc = "commit" /\ UNCHANGED <<box, newest, listed>>
    BY <1>3 DEF Commit, Land, loopVars, historyVars
  <2>2. ASSUME NEW s \in listed
        PROVE  newest'[s] = Newer(box'[s], Newer(drained'[s], quotes'[s]))
    <3>1. s \in Symbols /\ newest[s] = Newer(box[s], Newer(drained[s], quotes[s]))
      BY <1>l, <2>1, <2>2 DEF LatestNeverLost, Alive
    <3>2. quotes'[s] = Newer(drained[s], quotes[s]) /\ drained'[s] = 0
      BY <1>t, <2>1, <3>1
    <3>3. Newer(drained'[s], quotes'[s]) = quotes'[s]
      <4>1. Newer(drained[s], quotes[s]) \in 0 .. MaxTs
        BY <1>t, <3>1, NewerIsMax
      <4>2. QED
        BY <3>2, <4>1 DEF Newer
    <3>4. QED
      BY <2>1, <3>1, <3>2, <3>3
  <2>3. QED
    BY <2>1, <2>2 DEF QuoteFlow, LatestNeverLost
<1>4. ASSUME NEW p \in Symbols, Purge(p) PROVE QuoteFlow' /\ LatestNeverLost'
  <2>1. /\ listed' = listed \ {p} /\ quotes' = [quotes EXCEPT ![p] = 0]
        /\ UNCHANGED <<pc, box, drained, newest>>
    BY <1>4 DEF Purge, loopVars, writerVars
  <2>2. \A s \in listed' : s \in listed /\ quotes'[s] = quotes[s]
    BY <1>l, <2>1 DEF TypeOK, Latest
  <2>3. QED
    BY <2>1, <2>2 DEF QuoteFlow, LatestNeverLost, Alive
<1>5. CASE WriterFails \/ Exit
  BY <1>5 DEF WriterFails, Exit, QuoteFlow, LatestNeverLost, Alive
<1>6. CASE ReceiveBad \/ Begin \/ Get \/ EndCollect \/ EndEmpty \/ Filter \/ Insert \/ Publish
           \/ TakeRead \/ TakeReset \/ AddCounters
  <2>1. /\ UNCHANGED <<box, drained, quotes, newest, listed>>
        /\ pc \notin {"upsert", "commit", "dead", "exited"} \/ pc' = pc
    BY <1>6 DEF ReceiveBad, Begin, Get, EndCollect, EndEmpty, Filter, Insert, Publish, TakeRead,
                TakeReset, AddCounters, loopVars, writerVars, dbVars, historyVars
  <2>2. QED
    BY <2>1 DEF QuoteFlow, LatestNeverLost, Alive
<1>7. CASE Upsert
  BY <1>7 DEF Upsert, QuoteFlow, LatestNeverLost, Alive, loopVars, dbVars, historyVars
<1>8. CASE WatchStop \/ WatchDead \/ StopWriter \/ CloseSession
  <2>1. UNCHANGED <<loopVars, writerVars, dbVars, historyVars>>
    BY <1>8 DEF WatchStop, WatchDead, StopWriter, CloseSession
  <2>2. QED
    BY <2>1 DEF QuoteFlow, LatestNeverLost, Alive, loopVars, writerVars, dbVars, historyVars
<1>9. CASE UNCHANGED vars
  BY <1>9 DEF QuoteFlow, LatestNeverLost, Alive, vars, loopVars, writerVars, dbVars, historyVars
<1>10. QED
  BY <1>1, <1>2, <1>3, <1>4, <1>5, <1>6, <1>7, <1>8, <1>9 DEF Next, WriterStep

\* The newest price of a listed symbol is never lost.
THEOREM NewestPriceKept == Spec => []LatestNeverLost
<1>1. Init => QuoteInv
  <2> SUFFICES ASSUME Init PROVE QuoteInv
    OBVIOUS
  <2>1. TypeOK
    BY InitType
  <2>2. QuoteFlow
    BY DEF Init, QuoteFlow
  <2>3. Newer(0, Newer(0, 0)) = 0
    BY DEF Newer
  <2>4. LatestNeverLost
    BY <2>3 DEF Init, LatestNeverLost, Empty
  <2>5. QED
    BY <2>1, <2>2, <2>4 DEF QuoteInv
<1>2. QuoteInv => LatestNeverLost
  BY DEF QuoteInv
<1>3. QED
  BY <1>1, <1>2, QuoteStep, PTL DEF Spec

-------------------------------------------------------------------------------
(* The counters *)

CountInv == TypeOK /\ CountFlow /\ NeverOvercounted

LEMMA CountStep == CountInv /\ [Next]_vars => CountInv'
<1> SUFFICES ASSUME CountInv, [Next]_vars PROVE CountInv'
  OBVIOUS
<1> USE DEF CountInv
<1>0. TypeOK'
  BY TypeStep
<1> DEFINE Columns == {"messages", "dropped", "rejected"}
<1>t. \A c \in Columns : totals[c] \in Nat /\ taken[c] \in Nat /\ counters[c] \in Nat
                         /\ received[c] \in Nat /\ Zero[c] = 0
  BY SMTT(30) DEF TypeOK, Counts, Zero
<1> SUFFICES CountFlow' /\ NeverOvercounted'
  BY <1>0
<1>1. ASSUME NEW one \in Counts, counters' = Plus(counters, one), received' = Plus(received, one),
             UNCHANGED <<pc, taken, totals>>
      PROVE  CountFlow' /\ NeverOvercounted'
  <2>1. \A c \in Columns : /\ counters'[c] = counters[c] + one[c]
                           /\ received'[c] = received[c] + one[c] /\ one[c] \in Nat
    BY ZenonT(60), <1>1, PlusCounts DEF TypeOK
  <2>2. QED
    BY <1>1, <1>t, <2>1 DEF CountFlow, NeverOvercounted, Newer
<1>2. CASE ReceiveBad
  <2>1. [messages |-> 1, dropped |-> 0, rejected |-> 1] \in Counts
    BY DEF Counts
  <2>2. QED
    BY <1>1, <1>2, <2>1 DEF ReceiveBad, writerVars, dbVars
<1>3. ASSUME NEW t \in Tick, Receive(t) PROVE CountFlow' /\ NeverOvercounted'
  <2> DEFINE one == [messages |-> 1, dropped |-> IF t.symbol \in Archive /\ Full THEN 1 ELSE 0,
                     rejected |-> 0]
  <2>1. one \in Counts
    BY DEF Counts
  <2>2. counters' = Plus(counters, one) /\ received' = Plus(received, one)
        /\ UNCHANGED <<pc, taken, totals>>
    BY <1>3 DEF Receive, writerVars, dbVars
  <2> HIDE DEF one
  <2>3. QED
    BY <1>1, <2>1, <2>2
<1>4. CASE TakeRead
  BY <1>4, <1>t DEF TakeRead, CountFlow, NeverOvercounted, Newer, loopVars, dbVars, historyVars
<1>5. CASE TakeReset
  BY <1>5, <1>t DEF TakeReset, CountFlow, NeverOvercounted, Newer, dbVars, historyVars
<1>6. CASE AddCounters
  <2>1. \A c \in Columns : totals'[c] = totals[c] + taken[c] /\ taken'[c] = 0
    BY <1>6, <1>t, PlusCounts DEF AddCounters, TypeOK
  <2>2. pc = "add" /\ pc' = "idle" /\ UNCHANGED <<counters, received>>
    BY <1>6 DEF AddCounters, loopVars, historyVars
  <2>3. QED
    BY <1>t, <2>1, <2>2 DEF CountFlow, NeverOvercounted, Newer
<1>7. CASE Begin \/ Get \/ EndCollect \/ EndEmpty \/ Filter \/ Insert \/ DrainBox \/ Upsert
           \/ Commit \/ Publish \/ WriterFails \/ Exit
  <2>1. UNCHANGED <<counters, taken, totals, received>>
    BY <1>7 DEF Begin, Get, EndCollect, EndEmpty, Filter, Insert, DrainBox, Upsert, Commit, Publish,
                WriterFails, Exit, Land, loopVars, dbVars, historyVars
  <2>2. pc' \in {"dead", "exited"} \/ (pc' \notin {"reset", "add"}
            /\ pc \notin {"reset", "add", "dead", "exited"})
    BY <1>7 DEF Begin, Get, EndCollect, EndEmpty, Filter, Insert, DrainBox, Upsert, Commit, Publish,
                WriterFails, Exit
  <2>3. QED
    BY <2>1, <2>2 DEF CountFlow, NeverOvercounted
<1>8. CASE (\E s \in Symbols : Purge(s)) \/ WatchStop \/ WatchDead \/ StopWriter \/ CloseSession
  <2>1. UNCHANGED <<pc, counters, taken, totals, received>>
    BY <1>8 DEF Purge, WatchStop, WatchDead, StopWriter, CloseSession, loopVars, writerVars,
                dbVars, historyVars
  <2>2. QED
    BY <2>1 DEF CountFlow, NeverOvercounted
<1>9. CASE UNCHANGED vars
  BY <1>9 DEF CountFlow, NeverOvercounted, vars, loopVars, writerVars, dbVars, historyVars
<1>10. QED
  BY <1>2, <1>3, <1>4, <1>5, <1>6, <1>7, <1>8, <1>9 DEF Next, WriterStep

\* The session row never counts more than what happened.
THEOREM CountsAreBounds == Spec => []NeverOvercounted
<1>1. Init => CountInv
  <2> SUFFICES ASSUME Init PROVE CountInv
    OBVIOUS
  <2>1. TypeOK
    BY InitType
  <2>2. CountFlow /\ NeverOvercounted
    BY DEF Init, CountFlow, NeverOvercounted, Zero, Newer
  <2>3. QED
    BY <2>1, <2>2 DEF CountInv
<1>2. CountInv => NeverOvercounted
  BY DEF CountInv
<1>3. QED
  BY <1>1, <1>2, CountStep, PTL DEF Spec

\* What the run checks of the counts, with the types they rest on.
THEOREM CountsHold == Spec => []StreamCounts
<1>1. TypeOK /\ NeverOvercounted => StreamCounts
  BY DEF StreamCounts
<1>2. QED
  BY <1>1, StreamTypeCorrect, CountsAreBounds, PTL
===============================================================================

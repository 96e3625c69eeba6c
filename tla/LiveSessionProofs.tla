--------------------------- MODULE LiveSessionProofs ---------------------------
(***************************************************************************)
(* Proofs about LiveSession, for every set of symbols, every queue and     *)
(* subscription ceiling, every refresh period and every fault bound.       *)
(*                                                                         *)
(* Three arguments share one invariant.  The queue: an offer conserves     *)
(* what was offered, whatever it drops.  The subscriptions: a symbol that  *)
(* the page gave up is not held, or an unsubscription of it waits in the   *)
(* inbox and nothing behind it asks for it again.  The data: a tick that   *)
(* travels to the page was published, so its batch had been committed, and *)
(* a snapshot names an instant the row of live_quotes has not gone back    *)
(* from, because an older quote updates nothing.                           *)
(***************************************************************************)
EXTENDS LiveSession, Integers, SequenceTheorems, FiniteSetTheorems, TLAPS

\* TypeOK, one variable to a conjunct, less the bound of DropsAreCounted.
Types ==
    /\ clock \in 0 .. MaxTs /\ latest \in Instants /\ quotes \in Instants /\ table \in Instants
    /\ floor \in Instants /\ shown \in Instants
    /\ archive \subseteq Tick /\ queue \in Seq(Tick) /\ Len(queue) <= StreamMax
    /\ writing \in Seq(Tick) /\ feed \in Seq(Tick)
    /\ phase \in {"idle", "collected", "written", "committed"} /\ batches \in 0 .. QuotesEvery - 1
    /\ redis \in BOOLEAN /\ link \in BOOLEAN /\ budgetFull \in BOOLEAN /\ enabled \in BOOLEAN
    /\ inbox \in Seq(ClientFrames)
    /\ symbols \subseteq Symbols /\ channels \subseteq Symbols
    /\ asked \subseteq Symbols /\ retained \subseteq Symbols
    /\ bus \in {"off", "ok", "broken", "dark"} /\ handler \in {"idle", "read", "offer"}
    /\ read \subseteq Tick /\ out \in Seq(ServerFrames) /\ dropped \in Nat /\ owed \in Nat
    /\ sending \in Seq([frame : ServerFrames, n : Nat])

\* The symbol s is not held once the frames q are handled, if held is held now:
\* it is not held and q does not ask for it, or q drops it and does not ask again.
GivenUp(q, held, s) ==
    \E j \in 0 .. Len(q) :
        /\ j = 0 => s \notin held
        /\ j > 0 => q[j].op = "unsub" /\ s \in q[j].symbols
        /\ \A i \in j + 1 .. Len(q) : ~(q[i].op = "sub" /\ s \in q[i].symbols)

\* What a session holds, against what the page retains.
Subscribed ==
    /\ Cardinality(symbols) <= MaxSymbols
    /\ bus = "ok" => channels = symbols
    /\ ~link => symbols = {} /\ channels = {} /\ inbox = <<>>
    /\ link => \A s \in Symbols \ retained : GivenUp(inbox, symbols, s)

\* A frame tells nothing, a tick of the archive, or a quote its row has come up to.
Tells(f) ==
    /\ f.op = "tick" => f.d \in archive
    /\ f.op = "snap" => f.d.t <= table[f.d.s]

\* A batch exists from its collection to its publication.
WriterFlow ==
    /\ phase = "idle" <=> writing = <<>>
    /\ phase # "idle" => Len(writing) = 1
    /\ phase = "committed" => writing[1] \in archive

\* Whatever is on its way to the page has been committed.
Stored ==
    /\ \A s \in Symbols : shown[s] <= table[s] \/ [s |-> s, t |-> shown[s]] \in archive
    /\ \A i \in 1 .. Len(feed) : feed[i] \in archive
    /\ \A i \in 1 .. Len(out) : Tells(out[i])
    /\ \A i \in 1 .. Len(sending) : Tells(sending[i].frame)
    /\ \A d \in read : d.t <= table[d.s]
    /\ IsFiniteSet(read)

LiveInv == Types /\ DropsAreCounted /\ Subscribed /\ WriterFlow /\ Stored

-------------------------------------------------------------------------------
(* Frames and sequences *)

\* TypeOK says of each variable what Types says, and bounds the queue of frames.
LEMMA TypesIsTypeOK == TypeOK <=> Types /\ Len(out) <= QueueMax
BY DEF TypeOK, Types

\* What a frame of either side carries.
LEMMA FrameFields ==
    /\ \A f \in ServerFrames : /\ f.op \in {"snap", "tick", "live", "error"}
                               /\ f.op \in {"snap", "tick"} => f.d \in Tick
                               /\ f.op = "live" => f.enabled \in BOOLEAN
    /\ \A f \in ClientFrames : f.op \in {"sub", "unsub"} /\ f.symbols \subseteq Symbols
    /\ \A e \in BOOLEAN : Live(e) \in ServerFrames /\ Live(e).op = "live"
    /\ \A op \in {"snap", "tick"}, d \in Tick :
          Frame(op, d.s, d.t) \in ServerFrames /\ Frame(op, d.s, d.t) = [op |-> op, d |-> d]
BY DEF ServerFrames, ClientFrames, Live, Frame, Tick

\* A tick is its symbol and its instant.
LEMMA TickFields ==
    /\ \A d \in Tick : d.s \in Symbols /\ d.t \in 1 .. MaxTs /\ d = [s |-> d.s, t |-> d.t]
    /\ \A s \in Symbols, t \in 1 .. MaxTs : [s |-> s, t |-> t] \in Tick
BY DEF Tick

\* The first element of a sequence, and the others.
LEMMA FirstOf ==
    ASSUME NEW S, NEW q \in Seq(S), q # <<>>
    PROVE  /\ Len(q) \in Nat \ {0} /\ Head(q) = q[1] /\ q[1] \in S
           /\ Tail(q) \in Seq(S) /\ Len(Tail(q)) = Len(q) - 1
           /\ \A i \in 1 .. Len(Tail(q)) : Tail(q)[i] = q[i + 1]
<1>1. Len(q) \in Nat \ {0} /\ q[1] \in S
  BY LenProperties
<1>2. Head(q) = q[1]
  OBVIOUS
<1> QED
  BY <1>1, <1>2, HeadTailProperties

\* What is left of a sequence without its first k elements.
LEMMA LastOf ==
    ASSUME NEW S, NEW q \in Seq(S), NEW k \in 0 .. Len(q)
    PROVE  /\ SubSeq(q, k + 1, Len(q)) \in Seq(S)
           /\ Len(SubSeq(q, k + 1, Len(q))) = Len(q) - k
           /\ \A i \in 1 .. Len(q) - k : SubSeq(q, k + 1, Len(q))[i] = q[k + i]
<1> DEFINE r == SubSeq(q, k + 1, Len(q))
<1>1. Len(q) \in Nat /\ \A i \in k + 1 .. Len(q) : q[i] \in S
  BY LenProperties
<1>2. k + 1 \in Int /\ Len(q) \in Int
  BY <1>1
<1>3. /\ r \in Seq(S)
      /\ Len(r) = IF k + 1 <= Len(q) THEN Len(q) - (k + 1) + 1 ELSE 0
      /\ \A i \in 1 .. Len(q) - (k + 1) + 1 : r[i] = q[(k + 1) + i - 1]
  BY <1>1, <1>2, SubSeqProperties
<1> HIDE DEF r
<1>4. Len(r) = Len(q) - k
  BY <1>1, <1>3
<1>5. ASSUME NEW i \in 1 .. Len(q) - k PROVE r[i] = q[k + i]
  <2>1. i \in 1 .. Len(q) - (k + 1) + 1 /\ (k + 1) + i - 1 = k + i
    BY <1>1
  <2> QED
    BY <2>1, <1>3
<1> QED
  BY <1>3, <1>4, <1>5 DEF r

\* An offer conserves the frames: they are queued or counted as dropped, the
\* queue keeps to its size, and it holds nothing but what it held and the offer.
LEMMA OfferConserves ==
    ASSUME LiveAssumption, out \in Seq(ServerFrames), Len(out) <= QueueMax,
           dropped \in Nat, owed \in Nat,
           NEW frames \in Seq(ServerFrames), Offer(frames)
    PROVE  /\ out' \in Seq(ServerFrames) /\ Len(out') <= QueueMax
           /\ dropped' \in Nat /\ owed' \in Nat
           /\ owed' - Len(out') - dropped' = owed - Len(out) - dropped
           /\ \A i \in 1 .. Len(out') : \/ \E j \in 1 .. Len(out) : out'[i] = out[j]
                                        \/ \E j \in 1 .. Len(frames) : out'[i] = frames[j]
<1> DEFINE all  == out \o frames
           lost == IF Len(all) > QueueMax THEN Len(all) - QueueMax ELSE 0
<1>1. /\ all \in Seq(ServerFrames) /\ Len(all) = Len(out) + Len(frames)
      /\ \A i \in 1 .. Len(all) : all[i] = IF i <= Len(out) THEN out[i] ELSE frames[i - Len(out)]
      /\ Len(out) \in Nat /\ Len(frames) \in Nat
  BY ConcatProperties, LenProperties
<1>2. out' = SubSeq(all, lost + 1, Len(all)) /\ dropped' = dropped + lost
      /\ owed' = owed + Len(frames)
  BY DEF Offer
<1> HIDE DEF all
<1>3. QueueMax \in Nat /\ lost \in 0 .. Len(all) /\ Len(all) - lost <= QueueMax
  BY <1>1 DEF LiveAssumption
<1> HIDE DEF lost
<1>4. /\ out' \in Seq(ServerFrames) /\ Len(out') = Len(all) - lost
      /\ \A i \in 1 .. Len(all) - lost : out'[i] = all[lost + i]
  BY <1>1, <1>2, <1>3, LastOf
<1>5. /\ Len(out') <= QueueMax /\ dropped' \in Nat /\ owed' \in Nat
      /\ owed' - Len(out') - dropped' = owed - Len(out) - dropped
  <2>1. Len(all) \in Nat /\ lost \in Nat
    BY <1>1, <1>3
  <2>2. Len(out') <= QueueMax
    BY <1>3, <1>4
  <2>2a. Len(out) \in Nat /\ Len(frames) \in Nat
    BY <1>1
  <2>3. dropped' \in Nat /\ owed' \in Nat
    BY <2>1, <2>2a, <1>2
  <2>4. owed' - Len(out') - dropped' = owed - Len(out) - dropped
    <3>1. Len(out') = Len(out) + Len(frames) - lost
      BY <2>1, <1>1, <1>4
    <3>2. dropped' = dropped + lost /\ owed' = owed + Len(frames)
      BY <1>2
    <3> QED
      BY SMTT(30), <3>1, <3>2, <2>1, <2>2a
  <2> QED
    BY <2>2, <2>3, <2>4
<1>6. ASSUME NEW i \in 1 .. Len(out')
      PROVE  \/ \E j \in 1 .. Len(out) : out'[i] = out[j]
             \/ \E j \in 1 .. Len(frames) : out'[i] = frames[j]
  <2>1. lost + i \in 1 .. Len(all) /\ out'[i] = all[lost + i]
    BY <1>3, <1>4, <1>1
  <2>2. CASE lost + i <= Len(out)
    <3>1. out'[i] = out[lost + i] /\ lost + i \in 1 .. Len(out)
      BY SMTT(30), <2>1, <2>2, <1>1, <1>3
    <3> QED
      BY <3>1
  <2>3. CASE ~(lost + i <= Len(out))
    <3>1. out'[i] = frames[lost + i - Len(out)] /\ lost + i - Len(out) \in 1 .. Len(frames)
      BY SMTT(30), <2>1, <2>3, <1>1, <1>3
    <3> QED
      BY <3>1
  <2> QED
    BY <2>2, <2>3
<1> QED
  BY <1>4, <1>5, <1>6

\* The frames of a snapshot are frames, and carry the rows that were read.
LEMMA SnapFrames ==
    ASSUME read \subseteq Tick, IsFiniteSet(read), NEW rows \in [1 .. Cardinality(read) -> read]
    PROVE  LET frames == [i \in DOMAIN rows |-> Frame("snap", rows[i].s, rows[i].t)]
           IN  /\ frames \in Seq(ServerFrames)
               /\ \A i \in 1 .. Len(frames) : frames[i].op = "snap" /\ frames[i].d \in read
<1> DEFINE frames == [i \in DOMAIN rows |-> Frame("snap", rows[i].s, rows[i].t)]
<1>1. Cardinality(read) \in Nat
  BY FS_CardinalityType
<1>2. \A i \in 1 .. Cardinality(read) :
        frames[i] \in ServerFrames /\ frames[i] = [op |-> "snap", d |-> rows[i]] /\ rows[i] \in read
  BY FrameFields
<1>3. frames \in [1 .. Cardinality(read) -> ServerFrames]
  BY <1>2
<1>4. frames \in Seq(ServerFrames) /\ Len(frames) = Cardinality(read)
  BY <1>1, <1>3
<1>5. ASSUME NEW i \in 1 .. Len(frames) PROVE frames[i].op = "snap" /\ frames[i].d \in read
  <2>1. frames[i] = [op |-> "snap", d |-> rows[i]] /\ rows[i] \in read
    BY <1>2, <1>4
  <2> HIDE DEF frames
  <2> QED
    BY <2>1
<1> QED
  BY <1>4, <1>5

-------------------------------------------------------------------------------
(* The queue *)

\* Every step keeps the types and conserves the frames offered to the page.
LEMMA QueueStep ==
    ASSUME LiveAssumption, LiveInv, [Next]_vars
    PROVE  Types' /\ DropsAreCounted'
<1> USE DEF writerVars, handlerVars, queueVars, sessionVars, pageVars, others
<1>1. Types /\ DropsAreCounted /\ IsFiniteSet(read)
  BY DEF LiveInv, Stored
<1>2. /\ MaxTs \in Nat /\ QuotesEvery \in Nat \ {0} /\ QueueMax \in Nat \ {0}
      /\ StreamMax \in Nat
  BY DEF LiveAssumption
<1>3. ASSUME NEW frames \in Seq(ServerFrames), Offer(frames), UNCHANGED sending
      PROVE  /\ out' \in Seq(ServerFrames) /\ dropped' \in Nat /\ owed' \in Nat
             /\ DropsAreCounted'
  <2>1. /\ out' \in Seq(ServerFrames) /\ Len(out') <= QueueMax
        /\ dropped' \in Nat /\ owed' \in Nat
        /\ owed' - Len(out') - dropped' = owed - Len(out) - dropped
    BY <1>1, <1>3, OfferConserves DEF Types, DropsAreCounted
  <2>2. Len(out) \in Nat /\ Len(out') \in Nat
    BY <1>1, <2>1, LenProperties DEF Types
  <2> DEFINE held == IF sending = <<>> THEN 0 ELSE 1 + sending[1].n
  <2>3. held \in Nat /\ held' = held
    <3>1. sending # <<>> => sending[1] \in [frame : ServerFrames, n : Nat]
      BY <1>1, FirstOf DEF Types
    <3> QED
      BY <3>1, <1>3
  <2>4. owed = Len(out) + dropped + held
    BY <1>1 DEF DropsAreCounted
  <2> HIDE DEF held
  <2>5. owed' = Len(out') + dropped' + held'
    <3>1. dropped \in Nat /\ owed \in Nat
      BY <1>1 DEF Types
    <3>2. owed' - Len(out') - dropped' = held
      BY <3>1, <2>1, <2>2, <2>3, <2>4
    <3> QED
      BY SMTT(30), <3>2, <2>1, <2>2, <2>3
  <2> QED
    BY <2>1, <2>5 DEF DropsAreCounted, held
<1>4. ASSUME UNCHANGED <<queueVars, sending>> PROVE DropsAreCounted'
  BY <1>1, <1>4 DEF DropsAreCounted
<1>5. ASSUME NEW s \in Symbols, Receive(s) PROVE Types' /\ DropsAreCounted'
  <2> DEFINE tick == [s |-> s, t |-> clock + 1]
  <2>1. tick \in Tick /\ clock' \in 0 .. MaxTs /\ clock + 1 \in 0 .. MaxTs
    <3>1. clock \in Int /\ clock + 1 \in 1 .. MaxTs /\ clock' = clock + 1
      BY <1>1, <1>2, <1>5 DEF Receive, Types
    <3> QED
      BY <3>1, TickFields
  <2>2. latest' \in Instants
    BY <2>1, <1>1, <1>5 DEF Receive, Types, Instants
  <2>3. queue' \in Seq(Tick) /\ Len(queue') <= StreamMax
    <3>1. queue \in Seq(Tick) /\ Len(queue) \in Nat /\ Len(queue) <= StreamMax
      BY <1>1, LenProperties DEF Types
    <3>2. CASE queue' = queue
      BY <3>1, <3>2
    <3>3. CASE queue' = Append(queue, tick) /\ Len(queue) < StreamMax
      <4>1. queue' \in Seq(Tick) /\ Len(queue') = Len(queue) + 1
        BY <3>1, <3>3, <2>1, AppendProperties
      <4> QED
        BY <4>1, <3>1, <3>3, <1>2
    <3> QED
      BY <3>2, <3>3, <1>5 DEF Receive
  <2> QED
    BY ZenonT(60), <2>1, <2>2, <2>3, <1>1, <1>4, <1>5 DEF Receive, Types
<1>6. CASE Collect \/ Write \/ Commit
  <2>1. CASE Collect
    <3>1. batches' \in 0 .. QuotesEvery - 1
      <4>1. batches + 1 \in Nat /\ batches' = (batches + 1) % QuotesEvery
        BY <1>1, <1>2, <2>1 DEF Collect, Types
      <4>2. \A n \in Nat : n % QuotesEvery \in 0 .. QuotesEvery - 1
        BY <1>2
      <4> QED
        BY <4>1, <4>2
    <3>2. /\ Head(queue) \in Tick /\ Tail(queue) \in Seq(Tick)
          /\ Len(queue) \in Nat /\ Len(Tail(queue)) = Len(queue) - 1
      BY <1>1, <2>1, FirstOf DEF Collect, Types
    <3>3. writing' \in Seq(Tick) /\ queue' \in Seq(Tick) /\ Len(queue') <= StreamMax
      BY <3>2, <1>1, <1>2, <2>1 DEF Collect, Types
    <3> QED
      BY <3>1, <3>3, <1>1, <1>4, <2>1 DEF Collect, Types
  <2>2. CASE Write
    <3>1. latest' \in Instants /\ quotes' \in Instants
      BY <1>1, <1>2, <2>2 DEF Write, Types, Instants, None
    <3> QED
      BY <3>1, <1>1, <1>4, <2>2 DEF Write, Types
  <2>3. CASE Commit
    <3>1. writing[1] \in Tick
      BY <1>1, <2>3, FirstOf DEF Commit, Types, LiveInv, WriterFlow
    <3>2. table' \in Instants /\ quotes' \in Instants
      BY <1>1, <1>2, <2>3 DEF Commit, Quoted, Types, Instants, None
    <3> QED
      BY <3>1, <3>2, <1>1, <1>4, <2>3 DEF Commit, Types
  <2> QED
    BY <2>1, <2>2, <2>3, <1>6
<1>7. CASE Publish
  <2>1. feed' \in Seq(Tick)
    BY <1>1, <1>7, ConcatProperties DEF Publish, Types
  <2> QED
    BY SMTT(30), <2>1, <1>1, <1>4, <1>7 DEF Publish, Types
<1>8. CASE RollsBack
  BY SMTT(30), <1>1, <1>2, <1>4, <1>8 DEF RollsBack, Types, Instants, None
<1>9. CASE RedisLost
  <2>1. feed' \in Seq(Tick) /\ bus' \in {"off", "ok", "broken", "dark"}
    BY SMTT(30), <1>1, <1>9 DEF RedisLost, Types
  <2> QED
    BY <2>1, <1>1, <1>4, <1>9 DEF RedisLost, Types
<1>10. CASE RedisBack
  BY <1>1, <1>4, <1>10 DEF RedisBack, Types
<1>11. ASSUME inbox # <<>>
       PROVE  /\ Head(inbox).symbols \subseteq Symbols
              /\ Tail(inbox) \in Seq(ClientFrames)
  BY SMTT(30), <1>1, <1>11, FirstOf, FrameFields DEF Types
<1>12. \A e \in BOOLEAN : <<Live(e)>> \in Seq(ServerFrames)
  BY FrameFields
<1>13. ASSUME NEW fails \in BOOLEAN, GoDark(fails), UNCHANGED sending
       PROVE  /\ out' \in Seq(ServerFrames) /\ dropped' \in Nat /\ owed' \in Nat
              /\ DropsAreCounted' /\ bus' \in {bus, "dark"}
  <2>1. Offer(IF fails THEN <<Live(FALSE)>> ELSE <<>>) /\ bus' \in {bus, "dark"}
    BY <1>13 DEF GoDark
  <2>2. (IF fails THEN <<Live(FALSE)>> ELSE <<>>) \in Seq(ServerFrames)
    <3>1. <<>> \in Seq(ServerFrames)
      OBVIOUS
    <3>2. <<Live(FALSE)>> \in Seq(ServerFrames)
      BY <1>12, Zenon
    <3> QED
      BY <3>1, <3>2, Zenon
  <2> HIDE DEF queueVars
  <2> QED
    BY <2>1, <2>2, <1>3, <1>13
<1>14. CASE Refuse
  <2>1. <<[op |-> "error"]>> \in Seq(ServerFrames)
    BY DEF ServerFrames
  <2>2. inbox # <<>> /\ inbox' = Tail(inbox) /\ Offer(<<[op |-> "error"]>>) /\ UNCHANGED sending
    BY <1>14 DEF Refuse, Frames
  <2>3. out' \in Seq(ServerFrames) /\ dropped' \in Nat /\ owed' \in Nat /\ DropsAreCounted'
    BY <2>1, <2>2, <1>3
  <2> QED
    BY ZenonT(60), <2>2, <2>3, <1>1, <1>11, <1>14 DEF Refuse, Types
<1>15. CASE Subscribe
  <2>1. inbox # <<>> /\ inbox' = Tail(inbox) /\ UNCHANGED sending
        /\ GoDark(bus = "broken" /\ Head(inbox).symbols \ symbols # {})
    BY <1>15 DEF Subscribe, Frames
  <2>2. /\ out' \in Seq(ServerFrames) /\ dropped' \in Nat /\ owed' \in Nat
        /\ DropsAreCounted' /\ bus' \in {bus, "dark"}
    BY <2>1, <1>13
  <2>3. symbols' \subseteq Symbols /\ channels' \subseteq Symbols
    BY <2>1, <1>1, <1>11, <1>15 DEF Subscribe, Types
  <2> QED
    BY <2>1, <2>2, <2>3, <1>1, <1>11, <1>15 DEF Subscribe, Types
<1>16. CASE ReadQuotes
  <2>1. \A s \in asked : table[s] # 0 => table[s] \in 1 .. MaxTs
    BY SMTT(30), <1>1, <1>2 DEF Types, Instants
  <2>2. \A s \in asked : table[s] # 0 => [s |-> s, t |-> table[s]] \in Tick
    BY <2>1, <1>1, TickFields DEF Types
  <2>3. read' \subseteq Tick
    BY <2>2, <1>16 DEF ReadQuotes
  <2> QED
    BY <2>3, <1>1, <1>4, <1>16 DEF ReadQuotes, Types
<1>17. CASE OfferSnaps
  <2>1. PICK rows \in [1 .. Cardinality(read) -> read] :
          Offer([i \in DOMAIN rows |-> Frame("snap", rows[i].s, rows[i].t)])
    BY <1>17 DEF OfferSnaps
  <2>2. [i \in DOMAIN rows |-> Frame("snap", rows[i].s, rows[i].t)] \in Seq(ServerFrames)
    BY <1>1, SnapFrames DEF Types
  <2>3. out' \in Seq(ServerFrames) /\ dropped' \in Nat /\ owed' \in Nat /\ DropsAreCounted'
    BY <2>1, <2>2, <1>3, <1>17 DEF OfferSnaps
  <2> QED
    BY <2>3, <1>1, <1>17 DEF OfferSnaps, Types
<1>18. CASE Unsubscribe
  <2>1. inbox # <<>> /\ inbox' = Tail(inbox) /\ UNCHANGED sending
        /\ GoDark(bus = "broken" /\ Head(inbox).symbols \cap symbols # {})
    BY <1>18 DEF Unsubscribe, Frames
  <2>2. /\ out' \in Seq(ServerFrames) /\ dropped' \in Nat /\ owed' \in Nat
        /\ DropsAreCounted' /\ bus' \in {bus, "dark"}
    BY <2>1, <1>13
  <2> QED
    BY ZenonT(60), <2>1, <2>2, <1>1, <1>11, <1>18 DEF Unsubscribe, Types
<1>19. CASE Poll
  <2>1. CASE bus = "ok" /\ feed # <<>> /\ feed' = Tail(feed)
             /\ Offer(<<Frame("tick", Head(feed).s, Head(feed).t)>>) /\ UNCHANGED bus
    <3>1. Head(feed) \in Tick /\ Tail(feed) \in Seq(Tick)
      BY <2>1, <1>1, FirstOf DEF Types
    <3>2. Frame("tick", Head(feed).s, Head(feed).t) \in ServerFrames
      BY <3>1, FrameFields
    <3>3. <<Frame("tick", Head(feed).s, Head(feed).t)>> \in Seq(ServerFrames)
      BY <3>2
    <3>4. out' \in Seq(ServerFrames) /\ dropped' \in Nat /\ owed' \in Nat /\ DropsAreCounted'
      BY <3>3, <2>1, <1>3, <1>19 DEF Poll
    <3> QED
      BY <3>1, <3>4, <2>1, <1>1, <1>19 DEF Poll, Types
  <2>2. CASE bus = "broken" /\ GoDark(TRUE) /\ UNCHANGED feed
    <3>1. /\ out' \in Seq(ServerFrames) /\ dropped' \in Nat /\ owed' \in Nat
          /\ DropsAreCounted' /\ bus' \in {bus, "dark"}
      BY <2>2, <1>13, <1>19 DEF Poll
    <3> QED
      BY <3>1, <2>2, <1>1, <1>19 DEF Poll, Types
  <2> QED
    BY <2>1, <2>2, <1>19 DEF Poll
<1>20. CASE Take
  <2>1. /\ out # <<>> /\ sending = <<>> /\ Head(out) \in ServerFrames
        /\ out' = Tail(out) /\ Tail(out) \in Seq(ServerFrames)
        /\ Len(Tail(out)) = Len(out) - 1 /\ Len(out) \in Nat \ {0}
    BY <1>1, <1>20, FirstOf DEF Take, Types
  <2>2. sending' = <<[frame |-> Head(out), n |-> dropped]>> /\ dropped' = 0 /\ owed' = owed
    BY <1>20 DEF Take
  <2>3. Types'
    BY SMTT(30), <2>1, <2>2, <1>1, <1>20 DEF Take, Types
  <2>4. DropsAreCounted'
    <3>1. sending' # <<>> /\ sending'[1].n = dropped
      BY <2>2
    <3>2. owed = Len(out) + dropped /\ Len(out) <= QueueMax /\ dropped \in Nat
      BY <2>1, <1>1 DEF DropsAreCounted, Types
    <3> QED
      BY <3>1, <3>2, <2>1, <2>2, <1>2 DEF DropsAreCounted
  <2> QED
    BY <2>3, <2>4
<1>21. CASE Deliver
  <2>1. sending # <<>> /\ sending[1].frame \in ServerFrames /\ sending[1].n \in Nat
    <3>1. sending # <<>> /\ sending \in Seq([frame : ServerFrames, n : Nat])
      BY <1>1, <1>21 DEF Deliver, Types
    <3>2. sending[1] \in [frame : ServerFrames, n : Nat]
      BY <3>1, FirstOf
    <3> QED
      BY <3>1, <3>2
  <2>2. /\ sending' = <<>> /\ out' = out /\ dropped' = dropped
        /\ owed' = owed - 1 - sending[1].n /\ Handles(sending[1].frame)
    BY <1>21 DEF Deliver
  <2>3. owed' = Len(out) + dropped /\ Len(out) \in Nat /\ dropped \in Nat
    <3>1. Len(out) \in Nat /\ dropped \in Nat
      BY <1>1, LenProperties DEF Types
    <3> DEFINE n == sending[1].n
    <3>2. owed = Len(out) + dropped + (1 + n) /\ owed' = owed - 1 - n /\ n \in Nat
      BY <2>1, <2>2, <1>1 DEF DropsAreCounted
    <3> HIDE DEF n
    <3> QED
      BY <3>1, <3>2
  <2>4. owed' \in Nat /\ DropsAreCounted'
    BY SMTT(30), <2>2, <2>3, <1>1 DEF DropsAreCounted
  <2>5. floor' \in Instants /\ shown' \in Instants /\ budgetFull' \in BOOLEAN /\ enabled' \in BOOLEAN
    <3> DEFINE f == sending[1].frame
    <3>1. CASE f.op = "live"
      BY <3>1, <2>1, <2>2, <1>1, FrameFields DEF Handles, Types
    <3>2. CASE f.op = "error"
      BY <3>2, <2>1, <2>2, <1>1, FrameFields DEF Handles, Types
    <3>3. f.op \in {"snap", "tick"} => f.d.s \in Symbols /\ f.d.t \in 0 .. MaxTs
      BY <2>1, FrameFields, TickFields, <1>2
    <3>4. CASE f.op = "snap"
      BY <3>3, <3>4, <2>2, <1>1 DEF Handles, Types, Instants
    <3>5. CASE f.op = "tick"
      BY <3>3, <3>5, <2>2, <1>1 DEF Handles, Types, Instants
    <3> QED
      BY <3>1, <3>2, <3>4, <3>5, <2>1, FrameFields
  <2> QED
    <3>1. sending' \in Seq([frame : ServerFrames, n : Nat])
      BY <2>2
    <3> QED
      BY <3>1, <2>2, <2>4, <2>5, <1>1, <1>21 DEF Deliver, Types
<1>22. \A S \in SUBSET Symbols, op \in {"sub", "unsub"} : Asks(op, S) \in Seq(ClientFrames)
  <2> TAKE S \in SUBSET Symbols, op \in {"sub", "unsub"}
  <2>1. [op |-> op, symbols |-> S] \in ClientFrames
    BY DEF ClientFrames
  <2>2. <<[op |-> op, symbols |-> S]>> \in Seq(ClientFrames) /\ <<>> \in Seq(ClientFrames)
    BY <2>1
  <2> QED
    BY <2>2 DEF Asks
<1>23. ASSUME NEW s \in Symbols, Retain(s) PROVE Types' /\ DropsAreCounted'
  <2>1. inbox' \in Seq(ClientFrames)
    BY <1>1, <1>22, <1>23, ConcatProperties DEF Retain, Types
  <2> QED
    BY SMTT(30), <2>1, <1>1, <1>4, <1>23 DEF Retain, Types
<1>24. ASSUME NEW s \in Symbols, Release(s) PROVE Types' /\ DropsAreCounted'
  <2> DEFINE again == IF budgetFull THEN retained \ {s} ELSE {}
  <2>1. {s} \subseteq Symbols /\ again \subseteq Symbols
    BY <1>1 DEF Types
  <2>2. Asks("unsub", {s}) \in Seq(ClientFrames) /\ Asks("sub", again) \in Seq(ClientFrames)
    BY <2>1, <1>22
  <2>3. inbox' = (inbox \o Asks("unsub", {s})) \o Asks("sub", again)
    BY <1>24 DEF Release
  <2>4. inbox' \in Seq(ClientFrames)
    <3> HIDE DEF again
    <3>1. inbox \o Asks("unsub", {s}) \in Seq(ClientFrames)
      BY <2>2, <1>1, ConcatProperties DEF Types
    <3> QED
      BY <3>1, <2>2, <2>3, ConcatProperties
  <2>5. floor' \in Instants /\ retained' \subseteq Symbols
    BY SMTT(30), <1>1, <1>2, <1>24 DEF Release, Types, Instants
  <2> QED
    BY <2>4, <2>5, <1>1, <1>4, <1>24 DEF Release, Types
<1>25. CASE Connect
  <2>1. Offer(<<Live(redis)>>) /\ <<Live(redis)>> \in Seq(ServerFrames) /\ UNCHANGED sending
    BY <1>1, <1>12, <1>25 DEF Connect, Types
  <2>2. out' \in Seq(ServerFrames) /\ dropped' \in Nat /\ owed' \in Nat /\ DropsAreCounted'
    BY <2>1, <1>3
  <2>3. [op |-> "sub", symbols |-> retained] \in ClientFrames
    BY <1>1 DEF Types, ClientFrames
  <2>4. inbox' \in Seq(ClientFrames)
    BY <2>3, <1>25 DEF Connect
  <2> QED
    BY <2>2, <2>4, <1>1, <1>25 DEF Connect, Types
<1>26. CASE Disconnect
  <2>1. out' = <<>> /\ dropped' = 0 /\ owed' = 0 /\ sending' = <<>>
    BY <1>26 DEF Disconnect
  <2>2. DropsAreCounted'
    BY <2>1, <1>2 DEF DropsAreCounted
  <2> QED
    <3>1. /\ out' \in Seq(ServerFrames) /\ sending' \in Seq([frame : ServerFrames, n : Nat])
          /\ feed' \in Seq(Tick) /\ inbox' \in Seq(ClientFrames)
      BY <1>26 DEF Disconnect
    <3>2. /\ symbols' = {} /\ channels' = {} /\ asked' = {} /\ read' = {}
          /\ link' = FALSE /\ bus' = "off" /\ handler' = "idle" /\ dropped' = 0 /\ owed' = 0
      BY <1>26 DEF Disconnect
    <3>3. UNCHANGED <<writerVars, floor, shown, redis, budgetFull, enabled, retained>>
      BY <1>26 DEF Disconnect
    <3> QED
      BY <3>1, <3>2, <3>3, <2>2, <1>1 DEF Types
<1>27. CASE UNCHANGED vars
  BY SMTT(30), <1>1, <1>4, <1>27 DEF vars, Types
<1> QED
  BY <1>5, <1>6, <1>7, <1>8, <1>9, <1>10, <1>14, <1>15, <1>16, <1>17, <1>18, <1>19,
     <1>20, <1>21, <1>23, <1>24, <1>25, <1>26, <1>27, <1>4
     DEF Next, Handle, Stream

-------------------------------------------------------------------------------
(* The subscriptions *)

\* A frame behind the others does not bring back a symbol it does not ask for,
\* and an unsubscription gives its symbols up.
LEMMA GivenUpAppend ==
    ASSUME NEW q \in Seq(ClientFrames), NEW f \in ClientFrames, NEW held, NEW s,
           \/ GivenUp(q, held, s) /\ ~(f.op = "sub" /\ s \in f.symbols)
           \/ f.op = "unsub" /\ s \in f.symbols
    PROVE  GivenUp(q \o <<f>>, held, s)
<1> DEFINE r == q \o <<f>>
<1>1. /\ Len(q) \in Nat /\ Len(r) = Len(q) + 1 /\ r[Len(q) + 1] = f
      /\ \A i \in 1 .. Len(q) : r[i] = q[i]
  BY ConcatProperties, LenProperties
<1> HIDE DEF r
<1>2. CASE f.op = "unsub" /\ s \in f.symbols
  <2>1. Len(q) + 1 \in 0 .. Len(r) /\ \A i \in (Len(q) + 1) + 1 .. Len(r) : FALSE
    BY <1>1
  <2>2. GivenUp(r, held, s)
    BY <2>1, <1>1, <1>2 DEF GivenUp
  <2> QED
    BY <2>2 DEF r
<1>3. CASE GivenUp(q, held, s) /\ ~(f.op = "sub" /\ s \in f.symbols)
  <2>1. PICK j \in 0 .. Len(q) :
          /\ j = 0 => s \notin held
          /\ j > 0 => q[j].op = "unsub" /\ s \in q[j].symbols
          /\ \A i \in j + 1 .. Len(q) : ~(q[i].op = "sub" /\ s \in q[i].symbols)
    BY <1>3 DEF GivenUp
  <2>2. j \in 0 .. Len(r) /\ (j > 0 => r[j] = q[j])
    BY <1>1
  <2>3. ASSUME NEW i \in j + 1 .. Len(r) PROVE ~(r[i].op = "sub" /\ s \in r[i].symbols)
    <3>1. i \in j + 1 .. Len(q) \/ i = Len(q) + 1
      BY <1>1, <2>3
    <3>2. i \in j + 1 .. Len(q) => r[i] = q[i]
      BY <1>1, <2>3
    <3> QED
      BY <3>1, <3>2, <1>1, <1>3, <2>1
  <2>4. GivenUp(r, held, s)
    BY <2>1, <2>2, <2>3 DEF GivenUp
  <2> QED
    BY <2>4 DEF r
<1> QED
  BY <1>2, <1>3

\* Handling the first frame keeps a symbol given up, when what is held after it
\* is what was held or asked for, less what the frame drops.
LEMMA GivenUpTail ==
    ASSUME NEW q \in Seq(ClientFrames), q # <<>>, NEW held, NEW now, NEW s, GivenUp(q, held, s),
           s \in now => \/ s \in held /\ ~(Head(q).op = "unsub" /\ s \in Head(q).symbols)
                        \/ Head(q).op = "sub" /\ s \in Head(q).symbols
    PROVE  GivenUp(Tail(q), now, s)
<1> DEFINE r == Tail(q)
<1>1. /\ Len(q) \in Nat \ {0} /\ Head(q) = q[1] /\ Len(r) = Len(q) - 1
      /\ \A i \in 1 .. Len(r) : r[i] = q[i + 1]
  BY FirstOf
<1> HIDE DEF r
<1>2. PICK j \in 0 .. Len(q) :
        /\ j = 0 => s \notin held
        /\ j > 0 => q[j].op = "unsub" /\ s \in q[j].symbols
        /\ \A i \in j + 1 .. Len(q) : ~(q[i].op = "sub" /\ s \in q[i].symbols)
  BY DEF GivenUp
<1>3. CASE j \in {0, 1}
  <2>1. s \notin now
    <3>1. CASE j = 0
      <4>1. 1 \in j + 1 .. Len(q)
        BY <3>1, <1>1
      <4> QED
        BY <4>1, <3>1, <1>1, <1>2
    <3>2. CASE j = 1
      BY <3>2, <1>1, <1>2
    <3> QED
      BY <3>1, <3>2, <1>3
  <2>2. ASSUME NEW i \in 0 + 1 .. Len(r) PROVE ~(r[i].op = "sub" /\ s \in r[i].symbols)
    <3>1. i + 1 \in j + 1 .. Len(q) /\ r[i] = q[i + 1]
      BY <1>1, <1>3, <2>2
    <3> QED
      BY <3>1, <1>2
  <2>3. 0 \in 0 .. Len(r) /\ ~(0 > 0)
    BY <1>1
  <2>4. GivenUp(r, now, s)
    BY <2>1, <2>2, <2>3 DEF GivenUp
  <2> QED
    BY <2>4 DEF r
<1>4. CASE j \notin {0, 1}
  <2>1. j - 1 \in 1 .. Len(r) /\ r[j - 1] = q[j]
    BY <1>1, <1>2, <1>4
  <2>2. ASSUME NEW i \in (j - 1) + 1 .. Len(r) PROVE ~(r[i].op = "sub" /\ s \in r[i].symbols)
    <3>1. i + 1 \in j + 1 .. Len(q) /\ r[i] = q[i + 1]
      BY <1>1, <1>4, <2>2
    <3> QED
      BY <3>1, <1>2
  <2>3. GivenUp(r, now, s)
    BY <2>1, <2>2, <1>2, <1>4 DEF GivenUp
  <2> QED
    BY <2>3 DEF r
<1> QED
  BY <1>3, <1>4

\* Every step keeps the session within what the page retains and has not yet
\* taken back, and its channels the symbols it holds.
LEMMA SubscribedStep ==
    ASSUME LiveAssumption, LiveInv, [Next]_vars
    PROVE  Subscribed'
<1> USE DEF writerVars, handlerVars, queueVars, sessionVars, pageVars, others
<1>1. Types /\ Subscribed
  BY DEF LiveInv
<1>2. IsFiniteSet(Symbols) /\ MaxSymbols \in Nat
  BY DEF LiveAssumption
<1>3. Types' /\ inbox \in Seq(ClientFrames)
  <2>1. Types'
    BY QueueStep
  <2> QED
    BY <2>1, <1>1 DEF Types
<1>4. Cardinality({}) <= MaxSymbols
  BY <1>2, FS_EmptySet
<1>5. ASSUME UNCHANGED <<link, inbox, sessionVars, retained>> PROVE Subscribed'
  BY <1>1, <1>5 DEF Subscribed
<1>6. CASE Stream \/ RollsBack \/ RedisBack \/ ReadQuotes \/ OfferSnaps \/ Take \/ Deliver
            \/ UNCHANGED vars
  <2>1. UNCHANGED <<link, inbox, sessionVars, retained>>
    BY <1>6 DEF Stream, Receive, Collect, Write, Commit, Publish, RollsBack, RedisBack, ReadQuotes, OfferSnaps,
                Take, Deliver, vars
  <2> QED
    BY <2>1, <1>5
<1>7. CASE RedisLost
  BY <1>1, <1>7 DEF RedisLost, Subscribed
<1>8. CASE Poll
  <2>1. UNCHANGED <<link, inbox, symbols, channels, retained>> /\ bus' \in {bus, "dark"}
    BY <1>8 DEF Poll, GoDark
  <2> QED
    BY <2>1, <1>1 DEF Subscribed
<1>9. ASSUME inbox # <<>>, inbox' = Tail(inbox), UNCHANGED <<link, retained>>,
             \A s \in symbols' : \/ /\ s \in symbols
                                    /\ ~(Head(inbox).op = "unsub" /\ s \in Head(inbox).symbols)
                                 \/ Head(inbox).op = "sub" /\ s \in Head(inbox).symbols
      PROVE  link' /\ \A s \in Symbols \ retained' : GivenUp(inbox', symbols', s)
  <2>1. link
    BY <1>1, <1>9 DEF Subscribed
  <2>2. ASSUME NEW s \in Symbols \ retained PROVE GivenUp(inbox', symbols', s)
    BY <2>1, <2>2, <1>1, <1>3, <1>9, GivenUpTail DEF Subscribed
  <2> QED
    BY <2>1, <2>2, <1>9
<1>10. CASE Refuse
  <2>1. /\ inbox # <<>> /\ inbox' = Tail(inbox) /\ Head(inbox).op = "sub"
        /\ UNCHANGED <<link, retained, symbols, channels, bus>>
    BY <1>10 DEF Refuse, Frames
  <2> QED
    BY <2>1, <1>1, <1>9 DEF Subscribed
<1>11. CASE Subscribe
  <2> DEFINE S == Head(inbox).symbols
  <2>1. /\ inbox # <<>> /\ inbox' = Tail(inbox) /\ Head(inbox).op = "sub"
        /\ UNCHANGED <<link, retained>> /\ symbols' = symbols \cup S
        /\ channels' = IF bus = "ok" THEN channels \cup (S \ symbols) ELSE channels
        /\ bus' \in {bus, "dark"} /\ ~TooMany(S)
    BY <1>11 DEF Subscribe, Frames, GoDark
  <2>2. link' /\ \A s \in Symbols \ retained' : GivenUp(inbox', symbols', s)
    BY <2>1, <1>9
  <2>3. S \subseteq Symbols /\ symbols \subseteq Symbols
    BY <1>1, <1>3, <2>1, FirstOf, FrameFields DEF Types
  <2>4. Cardinality(symbols') <= MaxSymbols
    <3>1. symbols' \subseteq Symbols
      BY <2>1, <2>3
    <3>2. Cardinality(symbols') \in Nat
      BY <3>1, <1>2, FS_Subset, FS_CardinalityType
    <3> QED
      BY <3>2, <2>1, <1>2 DEF TooMany
  <2>5. bus' = "ok" => channels' = symbols'
    BY <2>1, <1>1 DEF Subscribed
  <2> QED
    BY <2>2, <2>4, <2>5 DEF Subscribed
<1>12. CASE Unsubscribe
  <2> DEFINE S == Head(inbox).symbols
  <2>1. /\ inbox # <<>> /\ inbox' = Tail(inbox) /\ Head(inbox).op = "unsub"
        /\ UNCHANGED <<link, retained>> /\ symbols' = symbols \ (S \cap symbols)
        /\ channels' = IF bus = "ok" THEN channels \ (S \cap symbols) ELSE channels
        /\ bus' \in {bus, "dark"}
    BY <1>12 DEF Unsubscribe, Frames, GoDark
  <2>2. link' /\ \A s \in Symbols \ retained' : GivenUp(inbox', symbols', s)
    BY <2>1, <1>9
  <2>3. Cardinality(symbols') <= MaxSymbols
    <3>1. symbols \subseteq Symbols /\ symbols' \subseteq symbols /\ Cardinality(symbols) <= MaxSymbols
      BY <2>1, <1>1 DEF Types, Subscribed
    <3>2. IsFiniteSet(symbols) /\ Cardinality(symbols) \in Nat
      BY <3>1, <1>2, FS_Subset, FS_CardinalityType
    <3>3. Cardinality(symbols') <= Cardinality(symbols) /\ Cardinality(symbols') \in Nat
      BY <3>1, <3>2, FS_Subset, FS_CardinalityType
    <3> QED
      BY <3>1, <3>2, <3>3, <1>2
  <2>4. bus' = "ok" => channels' = symbols'
    BY <2>1, <1>1 DEF Subscribed
  <2> QED
    BY <2>2, <2>3, <2>4 DEF Subscribed
<1>13. ASSUME NEW s \in Symbols, Retain(s) PROVE Subscribed'
  <2>1. /\ inbox' = inbox \o Asks("sub", {s}) /\ retained' = retained \cup {s}
        /\ UNCHANGED <<link, symbols, channels, bus>>
    BY <1>13 DEF Retain
  <2>2. ~link => inbox' = <<>>
    BY <2>1, <1>1 DEF Subscribed, Asks
  <2>3. ASSUME link, NEW r \in Symbols \ retained' PROVE GivenUp(inbox', symbols', r)
    <3> DEFINE f == [op |-> "sub", symbols |-> {s}]
    <3>1. f \in ClientFrames /\ r # s /\ inbox' = inbox \o <<f>>
      BY <2>1, <2>3 DEF ClientFrames, Asks
    <3>2. GivenUp(inbox, symbols, r) /\ ~(f.op = "sub" /\ r \in f.symbols)
      BY <3>1, <2>1, <2>3, <1>1 DEF Subscribed
    <3> QED
      BY <3>1, <3>2, <2>1, <1>3, GivenUpAppend
  <2> QED
    BY <2>1, <2>2, <2>3, <1>1 DEF Subscribed
<1>14. ASSUME NEW s \in Symbols, Release(s) PROVE Subscribed'
  <2> DEFINE again == IF budgetFull THEN retained \ {s} ELSE {}
             left  == inbox \o Asks("unsub", {s})
  <2>1. /\ inbox' = left \o Asks("sub", again) /\ retained' = retained \ {s}
        /\ UNCHANGED <<link, symbols, channels, bus>>
    BY <1>14 DEF Release
  <2>2. ~link => inbox' = <<>>
    BY <2>1, <1>1 DEF Subscribed, Asks
  <2>3. ASSUME link, NEW r \in Symbols \ retained' PROVE GivenUp(inbox', symbols', r)
    <3> DEFINE f == [op |-> "unsub", symbols |-> {s}]
               g == [op |-> "sub", symbols |-> again]
    <3>1. f \in ClientFrames /\ left = inbox \o <<f>> /\ left \in Seq(ClientFrames)
      <4>1. f \in ClientFrames /\ left = inbox \o <<f>>
        BY <2>3 DEF ClientFrames, Asks
      <4>2. <<f>> \in Seq(ClientFrames)
        BY <4>1
      <4> QED
        BY <4>1, <4>2, <1>3, ConcatProperties
    <3>2. GivenUp(left, symbols, r)
      <4>1. r = s => f.op = "unsub" /\ r \in f.symbols
        OBVIOUS
      <4>2. r # s => GivenUp(inbox, symbols, r) /\ ~(f.op = "sub" /\ r \in f.symbols)
        BY <2>1, <2>3, <1>1 DEF Subscribed
      <4> QED
        BY <4>1, <4>2, <3>1, <1>3, GivenUpAppend
    <3> HIDE DEF left
    <3>3. CASE again = {}
      <4>1. inbox' = left
        BY <3>3, <3>1, <2>1, ConcatEmptySeq DEF Asks
      <4> QED
        BY <4>1, <3>2, <2>1
    <3>4. CASE again # {}
      <4>1. g \in ClientFrames /\ r \notin again
        BY <2>1, <2>3, <1>1 DEF ClientFrames, Types
      <4>2. inbox' = left \o <<g>>
        BY <3>4, <2>1, <2>3 DEF Asks
      <4>3. ~(g.op = "sub" /\ r \in g.symbols)
        BY <4>1
      <4> HIDE DEF g
      <4>4. GivenUp(left \o <<g>>, symbols, r)
        BY <4>1, <4>3, <3>1, <3>2, GivenUpAppend
      <4> QED
        BY <4>2, <4>4, <2>1
    <3> QED
      BY <3>3, <3>4
  <2> QED
    BY <2>1, <2>2, <2>3, <1>1 DEF Subscribed
<1>15. CASE Connect
  <2>1. symbols = {} /\ channels = {}
    BY <1>1, <1>15 DEF Connect, Subscribed
  <2>2. ASSUME NEW s \in Symbols \ retained' PROVE GivenUp(inbox', symbols', s)
    <3>1. 0 \in 0 .. Len(inbox') /\ s \notin symbols' /\ s \notin retained
      BY <2>1, <2>2, <1>3, <1>15, LenProperties DEF Connect, Types
    <3>2. \A i \in 1 .. Len(inbox') : inbox'[i].symbols = retained
      BY <1>15 DEF Connect
    <3> QED
      BY <3>1, <3>2 DEF GivenUp
  <2> QED
    BY <2>1, <2>2, <1>1, <1>15 DEF Connect, Subscribed
<1>16. CASE Disconnect
  BY <1>4, <1>16 DEF Disconnect, Subscribed
<1> QED
  BY <1>6, <1>7, <1>8, <1>10, <1>11, <1>12, <1>13, <1>14, <1>15, <1>16 DEF Next, Handle

-------------------------------------------------------------------------------
(* The data *)

\* No step takes a tick of the fan-out, or a quote, back.
LEMMA StoredStep ==
    ASSUME LiveAssumption, LiveInv, [Next]_vars
    PROVE  WriterFlow' /\ Stored'
<1> USE DEF writerVars, handlerVars, queueVars, sessionVars, pageVars, others
<1>1. Types /\ DropsAreCounted /\ WriterFlow /\ Stored
  BY DEF LiveInv
<1>2. Types'
  BY QueueStep
<1>3a. MaxTs \in Nat
  BY DEF LiveAssumption
<1>3. ASSUME UNCHANGED writerVars, UNCHANGED <<feed, out, sending, read, shown>>
      PROVE  WriterFlow' /\ Stored'
  BY <1>1, <1>3 DEF WriterFlow, Stored, Tells
<1>4. CASE Collect \/ Write \/ \E s \in Symbols : Receive(s)
  <2>1. UNCHANGED <<archive, table, feed, out, sending, read, shown>>
    BY <1>4 DEF Collect, Write, Receive
  <2>2. WriterFlow'
    <3>1. CASE Collect
      <4>1. phase' = "collected" /\ writing' = <<Head(queue)>>
        BY <3>1 DEF Collect
      <4> QED
        BY <4>1 DEF WriterFlow
    <3>2. CASE Write
      BY <3>2, <1>1 DEF Write, WriterFlow
    <3>3. CASE \E s \in Symbols : Receive(s)
      BY <3>3, <1>1 DEF Receive, WriterFlow
    <3> QED
      BY <3>1, <3>2, <3>3, <1>4
  <2> QED
    BY <2>1, <2>2, <1>1 DEF Stored, Tells
<1>5. CASE Commit
  <2>1. /\ writing # <<>> /\ phase = "written" /\ phase' = "committed" /\ writing' = writing
        /\ archive' = archive \cup {writing[1]}
        /\ UNCHANGED <<feed, out, sending, read, shown>>
    BY <1>1, <1>5 DEF Commit, WriterFlow
  <2>2. WriterFlow'
    BY <2>1, <1>1 DEF WriterFlow
  <2>3. ASSUME NEW s \in Symbols PROVE /\ table[s] \in Nat /\ table'[s] \in Nat
                                      /\ table[s] <= table'[s]
    <3>1. table[s] \in Nat /\ quotes[s] \in Nat
      BY <1>1, <1>3a DEF Types, Instants
    <3>2. table'[s] = IF quotes[s] > table[s] THEN quotes[s] ELSE table[s]
      BY <1>5 DEF Commit, Quoted
    <3> QED
      BY <3>1, <3>2
  <2>4. ASSUME NEW s \in Symbols, NEW n \in Nat, n <= table[s] PROVE n <= table'[s]
    BY <2>3, <2>4
  <2>5. \A s \in Symbols : shown'[s] <= table'[s] \/ [s |-> s, t |-> shown'[s]] \in archive'
    <3>1. \A s \in Symbols : shown[s] \in Nat
      BY <1>1, <1>3a DEF Types, Instants
    <3> QED
      BY <3>1, <2>1, <2>4, <1>1 DEF Stored
  <2>6. \A d \in Tick : d.s \in Symbols /\ d.t \in Nat
    BY <1>3a, TickFields
  <2>7. \A f \in ServerFrames : Tells(f) => Tells(f)'
    BY <2>1, <2>4, <2>6, FrameFields DEF Tells
  <2>8. \A i \in 1 .. Len(out) : out[i] \in ServerFrames
    BY <1>1, LenProperties DEF Types
  <2>9. \A i \in 1 .. Len(sending) : sending[i].frame \in ServerFrames
    <3>1. \A i \in 1 .. Len(sending) : sending[i] \in [frame : ServerFrames, n : Nat]
      BY <1>1, LenProperties DEF Types
    <3> QED
      BY <3>1
  <2>10. \A d \in read : d.t <= table'[d.s]
    BY <2>4, <2>6, <1>1 DEF Stored, Types
  <2> QED
    BY <2>1, <2>2, <2>5, <2>7, <2>8, <2>9, <2>10, <1>1 DEF Stored
<1>6. CASE RollsBack
  <2>1. /\ phase' = "idle" /\ writing' = <<>>
        /\ UNCHANGED <<archive, table, feed, out, sending, read, shown>>
    BY <1>6 DEF RollsBack
  <2>2. WriterFlow'
    BY <2>1 DEF WriterFlow
  <2> QED
    BY <2>1, <2>2, <1>1 DEF Stored, Tells
<1>7. CASE Publish
  <2>1. /\ phase = "committed" /\ phase' = "idle" /\ writing' = <<>>
        /\ UNCHANGED <<archive, table, out, sending, read, shown>>
        /\ feed' \in {feed, feed \o writing}
    BY <1>7 DEF Publish
  <2>2. WriterFlow'
    BY <2>1 DEF WriterFlow
  <2>3. /\ Len(feed \o writing) = Len(feed) + 1 /\ Len(feed) \in Nat
        /\ \A i \in 1 .. Len(feed) + 1 :
              (feed \o writing)[i] = IF i <= Len(feed) THEN feed[i] ELSE writing[i - Len(feed)]
    <3>1. feed \in Seq(Tick) /\ writing \in Seq(Tick) /\ Len(writing) = 1
      BY <2>1, <1>1 DEF Types, WriterFlow
    <3>2. /\ Len(feed \o writing) = Len(feed) + Len(writing)
          /\ \A i \in 1 .. Len(feed) + Len(writing) :
                (feed \o writing)[i] = IF i <= Len(feed) THEN feed[i] ELSE writing[i - Len(feed)]
      BY <3>1, ConcatProperties
    <3>3. Len(feed) \in Nat
      BY <3>1, LenProperties
    <3> QED
      BY <3>1, <3>2, <3>3
  <2>4. writing[1] \in archive
    BY <2>1, <1>1 DEF WriterFlow
  <2>5. \A i \in 1 .. Len(feed) : feed[i] \in archive
    BY <1>1 DEF Stored
  <2>6. ASSUME NEW i \in 1 .. Len(feed \o writing) PROVE (feed \o writing)[i] \in archive
    <3>1. i <= Len(feed) \/ i = Len(feed) + 1
      BY <2>3, <2>6
    <3>2. CASE i <= Len(feed)
      BY <3>2, <2>3, <2>5, <2>6
    <3>3. CASE i = Len(feed) + 1
      <4>1. (feed \o writing)[i] = writing[1]
        BY <3>3, <2>3
      <4> QED
        BY <4>1, <2>4
    <3> QED
      BY <3>1, <3>2, <3>3
  <2>7. \A i \in 1 .. Len(feed') : feed'[i] \in archive
    BY <2>1, <2>5, <2>6
  <2> QED
    BY <2>1, <2>2, <2>7, <1>1 DEF Stored, Tells
<1>8. CASE RedisLost
  <2>1. feed' = <<>> /\ UNCHANGED <<writerVars, out, sending, read, shown>>
    BY <1>8 DEF RedisLost
  <2> QED
    BY <2>1, <1>1 DEF WriterFlow, Stored, Tells
<1>9. ASSUME NEW frames \in Seq(ServerFrames), Offer(frames), UNCHANGED <<archive, table>>,
             \A i \in 1 .. Len(frames) : Tells(frames[i])
      PROVE  \A i \in 1 .. Len(out') : Tells(out[i])'
  <2>1. \A i \in 1 .. Len(out) : Tells(out[i])
    BY <1>1 DEF Stored
  <2>2. \A i \in 1 .. Len(out') : \/ \E j \in 1 .. Len(out) : out'[i] = out[j]
                                  \/ \E j \in 1 .. Len(frames) : out'[i] = frames[j]
    BY <1>1, <1>9, OfferConserves DEF Types, DropsAreCounted
  <2>3. \A i \in 1 .. Len(out') : Tells(out'[i])
    BY <2>1, <2>2, <1>9
  <2> QED
    BY <2>3, <1>9 DEF Tells
<1>10. ASSUME UNCHANGED writerVars, UNCHANGED <<sending, shown>>,
              \A i \in 1 .. Len(out') : Tells(out[i])',
              \A i \in 1 .. Len(feed') : feed'[i] \in archive, read' \in {read, {}}
       PROVE  WriterFlow' /\ Stored'
  <2>1. (\A d \in read' : d.t <= table[d.s]) /\ IsFiniteSet(read')
    BY <1>1, <1>10, FS_EmptySet DEF Stored
  <2>2. \A i \in 1 .. Len(sending') : Tells(sending[i].frame)'
    BY <1>1, <1>10 DEF Stored, Tells
  <2> QED
    BY <2>1, <2>2, <1>1, <1>10 DEF WriterFlow, Stored
<1>11. \A i \in 1 .. Len(feed) : feed[i] \in archive
  BY <1>1 DEF Stored
<1>12. ASSUME NEW e \in BOOLEAN, Offer(<<Live(e)>>), UNCHANGED <<archive, table>>
       PROVE  \A i \in 1 .. Len(out') : Tells(out[i])'
  <2>1. Live(e) \in ServerFrames /\ Live(e).op = "live"
    BY FrameFields, Zenon
  <2> DEFINE frames == <<Live(e)>>
  <2>2. frames \in Seq(ServerFrames) /\ \A i \in 1 .. Len(frames) : Tells(frames[i])
    BY <2>1 DEF Tells
  <2> QED
    BY <2>2, <1>9, <1>12
<1>13. ASSUME Offer(<<>>), UNCHANGED <<archive, table>>
       PROVE  \A i \in 1 .. Len(out') : Tells(out[i])'
  <2>1. <<>> \in Seq(ServerFrames) /\ \A i \in 1 .. Len(<<>>) : Tells(<<>>[i])
    OBVIOUS
  <2> QED
    BY <2>1, <1>9, <1>13
<1>14. ASSUME NEW fails \in BOOLEAN, GoDark(fails), UNCHANGED <<archive, table>>
       PROVE  \A i \in 1 .. Len(out') : Tells(out[i])'
  BY <1>12, <1>13, <1>14, Zenon DEF GoDark
<1>15. CASE Refuse
  <2> DEFINE frames == <<[op |-> "error"]>>
  <2>1. frames \in Seq(ServerFrames) /\ \A i \in 1 .. Len(frames) : Tells(frames[i])
    BY DEF ServerFrames, Tells
  <2>2. Offer(frames) /\ UNCHANGED <<writerVars, sending, shown, read, feed>>
    BY <1>15 DEF Refuse
  <2>3. \A i \in 1 .. Len(out') : Tells(out[i])'
    BY <2>1, <2>2, <1>9
  <2> QED
    BY <2>2, <2>3, <1>10, <1>11
<1>16. CASE Subscribe \/ Unsubscribe
  <2>1. PICK fails \in BOOLEAN : GoDark(fails)
    BY <1>16, Zenon DEF Subscribe, Unsubscribe
  <2>2. UNCHANGED <<writerVars, sending, shown, read, feed>>
    BY <1>16 DEF Subscribe, Unsubscribe
  <2>3. \A i \in 1 .. Len(out') : Tells(out[i])'
    BY <2>1, <2>2, <1>14
  <2> QED
    BY <2>2, <2>3, <1>10, <1>11
<1>17. CASE ReadQuotes
  <2>1. UNCHANGED <<writerVars, feed, out, sending, shown>>
    BY <1>17 DEF ReadQuotes
  <2> DEFINE known == {r \in asked : table[r] # 0}
             row   == [s \in known |-> [s |-> s, t |-> table[s]]]
  <2>2. read' \in {{row[s] : s \in known}, {}}
    BY <1>17 DEF ReadQuotes
  <2>3. known \subseteq Symbols
    BY <1>1 DEF Types
  <2>4. IsFiniteSet(known)
    BY <2>3, FS_Subset DEF LiveAssumption
  <2>5. row \in Surjection(known, {row[s] : s \in known})
    BY DEF Surjection
  <2>5a. \A s \in known : row[s].s = s /\ row[s].t = table[s] /\ table[s] <= table[s]
    <3>1. \A s \in known : table[s] \in Nat
      BY <2>3, <1>1, <1>3a DEF Types, Instants
    <3> QED
      BY <3>1
  <2> HIDE DEF row
  <2>6. IsFiniteSet({row[s] : s \in known})
    BY <2>4, <2>5, FS_Surjection
  <2>7. (\A d \in read' : d.t <= table'[d.s]) /\ IsFiniteSet(read')
    BY <2>1, <2>2, <2>5a, <2>6, FS_EmptySet
  <2> QED
    BY <2>1, <2>7, <1>1 DEF WriterFlow, Stored, Tells
<1>18. CASE OfferSnaps
  <2>1. PICK rows \in [1 .. Cardinality(read) -> read] :
          Offer([i \in DOMAIN rows |-> Frame("snap", rows[i].s, rows[i].t)])
    BY <1>18 DEF OfferSnaps
  <2> DEFINE frames == [i \in DOMAIN rows |-> Frame("snap", rows[i].s, rows[i].t)]
  <2>2. /\ frames \in Seq(ServerFrames)
        /\ \A i \in 1 .. Len(frames) : frames[i].op = "snap" /\ frames[i].d \in read
    BY <1>1, SnapFrames DEF Types, Stored
  <2>3. UNCHANGED <<writerVars, sending, shown, feed>> /\ read' = {}
    BY <1>18 DEF OfferSnaps
  <2>4. Offer(frames)
    BY <2>1
  <2> HIDE DEF frames
  <2>5. \A i \in 1 .. Len(frames) : Tells(frames[i])
    BY <2>2, <1>1 DEF Stored, Tells
  <2>6. \A i \in 1 .. Len(out') : Tells(out[i])'
    BY <2>2, <2>3, <2>4, <2>5, <1>9
  <2> QED
    BY <2>3, <2>6, <1>10, <1>11
<1>19. CASE Poll
  <2>1. UNCHANGED <<writerVars, sending, shown, read>>
    BY <1>19 DEF Poll
  <2>2. CASE feed # <<>> /\ feed' = Tail(feed)
             /\ Offer(<<Frame("tick", Head(feed).s, Head(feed).t)>>)
    <3> DEFINE d == Head(feed)
               f == Frame("tick", d.s, d.t)
    <3>1. /\ d \in Tick /\ d = feed[1] /\ Len(feed) \in Nat \ {0} /\ Len(feed') = Len(feed) - 1
          /\ \A i \in 1 .. Len(feed') : feed'[i] = feed[i + 1]
      BY <2>2, <1>1, FirstOf DEF Types
    <3>2. \A i \in 1 .. Len(feed') : feed'[i] \in archive
      BY <3>1, <1>11
    <3>3. d \in archive
      BY <3>1, <1>11
    <3> HIDE DEF d
    <3>4. f \in ServerFrames /\ f = [op |-> "tick", d |-> d]
      BY <3>1, FrameFields
    <3> HIDE DEF f
    <3>5. <<f>> \in Seq(ServerFrames) /\ \A i \in 1 .. Len(<<f>>) : Tells(<<f>>[i])
      BY <3>3, <3>4 DEF Tells
    <3>6. Offer(<<f>>)
      BY <2>2 DEF f, d
    <3>7. \A i \in 1 .. Len(out') : Tells(out[i])'
      BY <3>5, <3>6, <2>1, <1>9
    <3> QED
      BY <2>1, <3>2, <3>7, <1>10
  <2>3. CASE GoDark(TRUE) /\ UNCHANGED feed
    <3>1. \A i \in 1 .. Len(out') : Tells(out[i])'
      BY <2>1, <2>3, <1>14
    <3> QED
      BY <2>1, <2>3, <3>1, <1>10, <1>11
  <2> QED
    BY <2>2, <2>3, <1>19 DEF Poll
<1>20. CASE Take
  <2>1. /\ out # <<>> /\ out' = Tail(out) /\ sending' = <<[frame |-> Head(out), n |-> dropped]>>
        /\ UNCHANGED <<writerVars, feed, read, shown>>
    BY <1>20 DEF Take
  <2>2. /\ Len(out) \in Nat \ {0} /\ Head(out) = out[1] /\ Len(out') = Len(out) - 1
        /\ \A i \in 1 .. Len(out') : out'[i] = out[i + 1]
    BY <2>1, <1>1, FirstOf DEF Types
  <2>3. \A i \in 1 .. Len(out) : Tells(out[i])
    BY <1>1 DEF Stored
  <2>4. Tells(Head(out)) /\ \A i \in 1 .. Len(out') : Tells(out'[i])
    BY <2>2, <2>3
  <2>5. \A i \in 1 .. Len(sending') : sending'[i].frame = Head(out)
    BY <2>1
  <2> QED
    BY <2>1, <2>4, <2>5, <1>1 DEF WriterFlow, Stored, Tells
<1>21. CASE Deliver
  <2>1. /\ sending # <<>> /\ sending' = <<>> /\ Handles(sending[1].frame)
        /\ UNCHANGED <<writerVars, feed, read, out>>
    BY <1>21 DEF Deliver
  <2> DEFINE f == sending[1].frame
  <2>2. f \in ServerFrames /\ Tells(f)
    <3>1. sending \in Seq([frame : ServerFrames, n : Nat])
      BY <1>1 DEF Types
    <3>2. sending[1] \in [frame : ServerFrames, n : Nat]
      BY <3>1, <2>1, FirstOf
    <3>3. 1 \in 1 .. Len(sending)
      BY <3>1, <2>1, LenProperties
    <3> QED
      BY <3>2, <3>3, <2>1, <1>1 DEF Stored
  <2>3. \A s \in Symbols : shown'[s] <= table[s] \/ [s |-> s, t |-> shown'[s]] \in archive
    <3>1. CASE f.op \in {"live", "error"}
      BY <3>1, <2>1, <1>1 DEF Handles, Stored
    <3>2. CASE f.op \in {"snap", "tick"}
      <4>1. f.d.s \in Symbols /\ f.d = [s |-> f.d.s, t |-> f.d.t]
        BY <3>2, <2>2, FrameFields, TickFields
      <4>2. f.d.t <= table[f.d.s] \/ f.d \in archive
        BY <3>2, <2>2 DEF Tells
      <4>3. shown' \in {shown, [shown EXCEPT ![f.d.s] = f.d.t]}
        BY <3>2, <2>1 DEF Handles
      <4> QED
        BY <4>1, <4>2, <4>3, <1>1 DEF Stored, Types, Instants
    <3> QED
      BY <3>1, <3>2, <2>2, FrameFields
  <2> QED
    BY <2>1, <2>3, <1>1 DEF WriterFlow, Stored, Tells
<1>22. ASSUME NEW s \in Symbols, Retain(s) \/ Release(s) PROVE WriterFlow' /\ Stored'
  BY <1>22, <1>3 DEF Retain, Release
<1>23. CASE Connect
  <2>1. redis \in BOOLEAN /\ Offer(<<Live(redis)>>) /\ UNCHANGED <<writerVars, sending, shown, read, feed>>
    BY <1>1, <1>23 DEF Connect, Types
  <2>2. \A i \in 1 .. Len(out') : Tells(out[i])'
    BY <2>1, <1>12
  <2> QED
    BY <2>1, <2>2, <1>10, <1>11
<1>24. CASE Disconnect
  <2>1. out' = <<>> /\ feed' = <<>> /\ sending' = <<>> /\ read' = {} /\ UNCHANGED <<writerVars, shown>>
    BY <1>24 DEF Disconnect
  <2> QED
    BY <2>1, <1>1, FS_EmptySet DEF WriterFlow, Stored, Tells
<1>25. CASE RedisBack \/ UNCHANGED vars
  BY <1>25, <1>3 DEF RedisBack, vars
<1> QED
  BY <1>4, <1>5, <1>6, <1>7, <1>8, <1>15, <1>16, <1>17, <1>18, <1>19, <1>20, <1>21, <1>22,
     <1>23, <1>24, <1>25 DEF Next, Handle, Stream

-------------------------------------------------------------------------------
(* The theorems *)

\* LiveInv holds at the start and every step keeps it.
LEMMA LiveInductive == Spec => []LiveInv
<1> USE DEF writerVars, handlerVars, queueVars, sessionVars, pageVars, others
<1>1. Init => LiveInv
  <2> SUFFICES ASSUME Init PROVE LiveInv
    OBVIOUS
  <2>1. None \in Instants
    BY LiveAssumption DEF None, Instants, LiveAssumption
  <2>2. Types
    <3>1. clock \in 0 .. MaxTs /\ batches \in 0 .. QuotesEvery - 1
      BY LiveAssumption DEF Init, LiveAssumption
    <3>2. /\ writing \in Seq(Tick) /\ feed \in Seq(Tick) /\ inbox \in Seq(ClientFrames)
          /\ out \in Seq(ServerFrames) /\ sending \in Seq([frame : ServerFrames, n : Nat])
      BY DEF Init
    <3>3. latest \in Instants /\ table \in Instants /\ floor \in Instants /\ shown \in Instants
      BY <2>1 DEF Init
    <3>4. quotes \in Instants /\ queue = <<>> /\ Len(queue) = 0 /\ StreamMax \in Nat
      BY <2>1, LiveAssumption DEF Init, LiveAssumption
    <3>5. queue \in Seq(Tick) /\ Len(queue) <= StreamMax
      BY <3>4
    <3> QED
      BY <3>1, <3>2, <3>3, <3>4, <3>5 DEF Init, Types
  <2>3. DropsAreCounted
    BY LiveAssumption DEF Init, DropsAreCounted, LiveAssumption
  <2>4. Subscribed
    BY LiveAssumption, FS_EmptySet DEF Init, Subscribed, LiveAssumption
  <2>5. WriterFlow /\ Stored
    BY FS_EmptySet DEF Init, WriterFlow, Stored, None
  <2> QED
    BY <2>2, <2>3, <2>4, <2>5 DEF LiveInv
<1>2. LiveInv /\ [Next]_vars => LiveInv'
  BY LiveAssumption, QueueStep, SubscribedStep, StoredStep DEF LiveInv
<1> QED
  BY <1>1, <1>2, PTL DEF Spec

\* Every variable of a session, its page and the writer stays within its type, and
\* the stream's queue and the session's within their sizes.
THEOREM LiveTyped == Spec => []TypeOK
<1>1. LiveInv => TypeOK
  BY TypesIsTypeOK DEF LiveInv, DropsAreCounted
<1> QED
  BY <1>1, LiveInductive, PTL

\* For every queue size and whatever the interleaving of handler, reader and
\* sender, each frame offered to a page is delivered, queued or in a count of
\* drops that the page has had or will have.  (_offer, _take_dropped, _sender.)
THEOREM DropsHold == Spec => []DropsAreCounted
BY LiveInductive, PTL DEF LiveInv

\* For every set of symbols and ceiling, a session that has handled its inbox
\* holds only what the page still wants, within the ceiling, and listens to
\* exactly that on a live bus.  (_subscribe, _unsubscribe, retain, release.)
THEOREM SessionFollows == Spec => []SessionFollowsPage
<1>1. LiveInv => SessionFollowsPage
  <2> SUFFICES ASSUME LiveInv PROVE SessionFollowsPage
    OBVIOUS
  <2>1. Subscribed /\ symbols \subseteq Symbols
    BY DEF LiveInv, Types
  <2>2. ASSUME link, inbox = <<>>, NEW s \in Symbols \ retained PROVE s \notin symbols
    <3>1. GivenUp(inbox, symbols, s)
      BY <2>1, <2>2 DEF Subscribed
    <3> QED
      BY <3>1, <2>2 DEF GivenUp
  <2> QED
    BY <2>1, <2>2 DEF Subscribed, SessionFollowsPage
<1> QED
  BY <1>1, LiveInductive, PTL

\* For every stream queue, refresh period and set of archived symbols, a tick in the
\* fan-out is in the archive, and a price that is shown and is not comes from a row
\* of live_quotes that has not gone back since.  (_on_result, _write_quotes,
\* publish, list_quotes.)
THEOREM ShownHolds == Spec => []ShownIsStored
<1>1. LiveInv => ShownIsStored
  <2> SUFFICES ASSUME LiveInv PROVE ShownIsStored
    OBVIOUS
  <2>1. Types /\ DropsAreCounted /\ Stored
    BY DEF LiveInv
  <2>2. TypeOK
    BY <2>1, TypesIsTypeOK DEF DropsAreCounted
  <2>3. \A i \in DOMAIN feed : feed[i] \in archive
    BY <2>1 DEF Stored, Types
  <2>4. \A i \in DOMAIN out : Tells(out[i])
    <3>1. DOMAIN out = 1 .. Len(out)
      BY <2>1, LenProperties DEF Types
    <3> QED
      BY <3>1, <2>1 DEF Stored
  <2>5. \A i \in DOMAIN sending : Tells(sending[i].frame)
    <3>1. DOMAIN sending = 1 .. Len(sending)
      BY <2>1, LenProperties DEF Types
    <3> QED
      BY <3>1, <2>1 DEF Stored
  <2>6. Carried \subseteq archive
    BY <2>3, <2>4, <2>5 DEF Carried, Tells
  <2> QED
    BY <2>1, <2>2, <2>6 DEF Stored, ShownIsStored
<1> QED
  BY <1>1, LiveInductive, PTL
================================================================================

------------------------------ MODULE SyncProofs ------------------------------
(***************************************************************************)
(* Proofs about a sync: the run that hands the symbols to shards           *)
(* (ShardRun), and what the datasets of one symbol do to the database      *)
(* (DatasetSync).                                                          *)
(*                                                                         *)
(* The first part is about ShardRun, for every universe, every number of   *)
(* shards and workers, every policy and every number of faults.  The       *)
(* argument follows a symbol: no one owns it while it is in the shared     *)
(* queue, then one worker holds it, then it is a payload in its shard's    *)
(* results, then its consumer's.  Reaped says that the parent counts only  *)
(* when no shard is left to change anything.  What a shard has taken and   *)
(* not audited is with a worker, in its results or with its consumer.      *)
(*                                                                         *)
(* The second part is about DatasetSync, for every grouping of datasets    *)
(* that GroupsAssumption admits, whatever sheets they are answered, for    *)
(* any number of syncs, days, prunes and purges.  WriterInv says what the  *)
(* row writer keeps of a table; KeysInv adds the form of its keys.  On     *)
(* them stand one invariant for each promise: LinksInv for the tables of   *)
(* links, SnapInv for the snapshots and their histories, HashInv for the   *)
(* headers and their children, AsOfInv for the gates by day.  Each follows *)
(* the same four steps: a sync of the dataset itself, of another dataset,  *)
(* retention, the purge.                                                   *)
(***************************************************************************)
EXTENDS ShardRun, DatasetSync, SequenceTheorems, FiniteSetTheorems, TLAPS


\* The steps of the parent after which no shard runs.
AfterRun == {"record", "drain", "leftover", "finalize", "done"}

\* Symbols still in the shared queue belong to nobody and are not fetched.
Unowned ==
    \A i \in DOMAIN Universe :
        i > got => owner[Universe[i]] = None /\ fate[Universe[i]] = None

\* A worker that fetches holds a symbol of its shard, not fetched yet and held
\* by no other.
Hands ==
    /\ \A s \in Shards, w \in Workers : worker[s][w].at = "fetch" =>
          /\ worker[s][w].symbol \in Symbols
          /\ owner[worker[s][w].symbol] = s
          /\ fate[worker[s][w].symbol] = None
    /\ \A s \in Shards, v, w \in Workers :
          /\ worker[s][v].at = "fetch" /\ worker[s][w].at = "fetch"
          /\ worker[s][v].symbol = worker[s][w].symbol
          => v = w

\* Payloads are of symbols the shard owns.
Payloads ==
    \A s \in Shards : \A i \in 1 .. Len(results[s]) :
        owner[results[s][i]] = s /\ fate[results[s][i]] \in Outcomes

\* What the consumer knows of the symbol it is at.
Verdicts ==
    \A s \in Shards :
        /\ consumer[s].at \in {"flush", "persist", "emit", "mark"} =>
              /\ consumer[s].symbol \in Symbols
              /\ owner[consumer[s].symbol] = s
              /\ fate[consumer[s].symbol] \in Outcomes
        /\ consumer[s].at = "flush" => ~consumer[s].saved
        /\ consumer[s].at = "emit" /\ consumer[s].saved => consumer[s].symbol \in committed
        /\ consumer[s].at = "persist" => fate[consumer[s].symbol] \in Resolved
        /\ consumer[s].at = "mark" =>
              /\ fate[consumer[s].symbol] \in Counted
              /\ "unknown" \in items[consumer[s].symbol]

\* Data is of a symbol someone took and that resolved.
OwnedData == \A x \in committed : owner[x] # None /\ fate[x] \in Resolved

\* From its reaping on the parent is alone; a row that says not_attempted, and
\* an exit code, are written by a parent that is.
Reaped ==
    /\ parent \in AfterRun => Running = {}
    /\ (\E x \in Symbols : "not_attempted" \in items[x]) => Running = {}
    /\ exit # None => parent = "done"
    /\ parent = "leftover" => \A x \in leftover : owner[x] = None /\ x \notin committed

\* Every shard that did not end by itself is known to have crashed, and is
\* charged before the run is closed.
Charged ==
    /\ parent \notin {"join", "dead"} => \A s \in Shards : process[s] # "exited" => s \in crashed
    /\ parent \in {"drain", "leftover", "finalize", "done"} =>
          \A s \in crashed : ~Eligible(proxy[s])

Core ==
    /\ Unowned /\ Hands /\ Payloads /\ Verdicts /\ OwnedData /\ Reaped /\ Charged
    /\ AuditTrue /\ DelistSparesTransport /\ ExitHonest

-------------------------------------------------------------------------------
(* Constants and health *)

\* The universe lists Symbols.
LEMMA UniverseFacts ==
    /\ DOMAIN Universe = 1 .. Len(Universe) /\ Len(Universe) \in Nat
    /\ \A i \in DOMAIN Universe : Universe[i] \in Symbols
    /\ \A x \in Symbols : \E i \in DOMAIN Universe : x = Universe[i]
    /\ \A i, j \in DOMAIN Universe : Universe[i] = Universe[j] => i = j
    /\ Cardinality(Shards) \in Nat
<1>1. Cardinality(Shards) \in Nat
  BY FS_CardinalityType, ShardAssumption
<1>2. QED
  BY <1>1, ShardAssumption DEF Symbols

\* Every event leaves a row a row, and a crash one that is not eligible.
LEMMA HealthEvents ==
    ASSUME NEW h \in Health
    PROVE  /\ Success(h) \in Health /\ Fault(h) \in Health
           /\ Crash(h) \in Health /\ ~Eligible(Crash(h))
<1>1. Cooldown(h) \in Health /\ ~Eligible(Cooldown(h))
  BY DEF Health, Cooldown, Eligible
<1>2. Success(h) \in Health
  BY DEF Health, Success
<1>3. Fault(h) \in Health
  BY <1>1 DEF Health, Fault
<1>4. Crash(h) \in Health /\ ~Eligible(Crash(h))
  BY <1>1 DEF Crash, Eligible
<1>5. QED
  BY <1>2, <1>3, <1>4

\* So does a payload.
LEMMA RecordType ==
    ASSUME NEW h \in Health, NEW o PROVE Record(h, o) \in Health
<1>1. Success(h) \in Health /\ Fault(h) \in Health
  BY HealthEvents
<1>2. Fault(Fault(h)) \in Health /\ Success(Fault(h)) \in Health
  BY <1>1, HealthEvents
<1>3. Success(Fault(Fault(h))) \in Health
  BY <1>2, HealthEvents
<1>4. QED
  BY <1>1, <1>2, <1>3 DEF Record

\* And the tracker of a shard remains one.
LEMMA TrackedType ==
    ASSUME NEW t \in Tracker, NEW o
    PROVE  Tracked(t, o) \in Tracker
<1>1. Record(t.state, o) \in Health /\ Record(t.replay, o) \in Health
  BY RecordType DEF Tracker
<1>2. (t.withdrawn \/ Withdraws(t.state, o)) \in BOOLEAN
  BY DEF Withdraws, Withdrawn, Tracker
<1>3. QED
  BY <1>1, <1>2 DEF Tracked, Tracker

-------------------------------------------------------------------------------
(* Type correctness *)

LEMMA InitType == Init => TypeOK
<1> SUFFICES ASSUME Init PROVE TypeOK
  OBVIOUS
<1>1. Fresh \in Health
  BY DEF Fresh, Health
<1>2. proxy \in [Shards -> Health]
  BY ShardAssumption DEF Init
<1>3. tracker \in [Shards -> Tracker]
  BY <1>1, <1>2 DEF Init, Tracker
<1>4. results \in [Shards -> Seq(Symbols)]
  BY DEF Init
<1>5. worker \in [Shards -> [Workers -> Thread]] /\ consumer \in [Shards -> Main]
  BY DEF Init, Idle, Waiting, Thread, Main
<1>6. /\ got \in 0 .. (Len(Universe) + Cardinality(Shards))
      /\ faults \in 0 .. MaxFaults /\ kills \in 0 .. MaxKills
      /\ late \in [Shards -> Nat]
  BY UniverseFacts, ShardAssumption DEF Init
<1>7. QED
  BY <1>2, <1>3, <1>4, <1>5, <1>6 DEF Init, TypeOK

\* What the steps write.
LEMMA Records ==
    /\ Idle \in Thread /\ Waiting \in Main
    /\ \A t \in Thread : t.at = "fetch" => t.symbol \in Symbols
    /\ \A t \in Thread : t.at # "fetch" =>
          \A a \in {"check", "source", "end"} : [t EXCEPT !.at = a] \in Thread
    /\ \A x \in Symbols : [at |-> "fetch", symbol |-> x] \in Thread
    /\ \A c \in Main : c.at \in {"flush", "persist", "emit", "mark"} =>
          /\ c.symbol \in Symbols
          /\ \A a \in {"persist", "emit", "mark", "raised"}, b \in BOOLEAN :
                [c EXCEPT !.at = a] \in Main /\ [c EXCEPT !.at = a, !.saved = b] \in Main
    /\ \A c \in Main : c.at = "get" => [c EXCEPT !.at = "close"] \in Main
    /\ \A c \in Main : [c EXCEPT !.at = "raised"] \in Main
    /\ \A x \in Symbols, a \in {"flush", "persist", "emit"} :
          [at |-> a, symbol |-> x, saved |-> FALSE] \in Main
    /\ \A t \in Tracker : t.replay \in Health /\ t.state \in Health /\ t.withdrawn \in BOOLEAN
    /\ \A o : Handle(o) \in {"persist", "emit"}
    /\ \A o, b : Cells(o, b) \subseteq Status
BY DEF Idle, Waiting, Thread, Main, Tracker, Handle, Cells, Status

\* Every step keeps the types.
LEMMA StepType == TypeOK /\ [Next]_vars => TypeOK'
<1> SUFFICES ASSUME TypeOK, [Next]_vars PROVE TypeOK'
  OBVIOUS
<1> USE DEF queueVars, workerVars, healthVars, dataVars, parentVars, faultVars
<1>1. ASSUME NEW s \in Shards, NEW w \in Workers, Check(s, w) PROVE TypeOK'
  <2>1. worker' \in [Shards -> [Workers -> Thread]]
    BY ZenonT(60), <1>1, Records DEF TypeOK, Check, At
  <2>2. QED
    BY <1>1, <2>1 DEF TypeOK, Check, At
<1>2. ASSUME NEW s \in Shards, NEW w \in Workers, Take(s, w) PROVE TypeOK'
  <2>0. worker[s][w] \in Thread /\ worker[s][w].at = "source" /\ got \in Nat
    BY <1>2, UniverseFacts DEF TypeOK, Take, At
  <2>1. ASSUME got < Len(Universe)
        PROVE  /\ worker' \in [Shards -> [Workers -> Thread]] /\ late' \in [Shards -> Nat]
               /\ owner' \in [Symbols -> Shards \cup {None}]
    <3>1. Universe[got + 1] \in Symbols
      BY <2>0, <2>1, UniverseFacts
    <3>2. [at |-> "fetch", symbol |-> Universe[got + 1]] \in Thread
      BY <3>1, Records
    <3>3. worker' = [worker EXCEPT ![s][w] = [at |-> "fetch", symbol |-> Universe[got + 1]]]
      BY <1>2, <2>1 DEF Take
    <3>4. owner' = [owner EXCEPT ![Universe[got + 1]] = s]
      BY <1>2, <2>1 DEF Take
    <3>5. late' \in [Shards -> Nat]
      <4>1. late' = [late EXCEPT ![s] = IF tracker[s].withdrawn THEN @ + 1 ELSE @]
        BY <1>2, <2>1 DEF Take
      <4>2. QED
        BY <4>1 DEF TypeOK
    <3>6. worker' \in [Shards -> [Workers -> Thread]]
      BY <3>2, <3>3 DEF TypeOK
    <3>7. owner' \in [Symbols -> Shards \cup {None}]
      BY <3>1, <3>4 DEF TypeOK
    <3>8. QED
      BY <3>5, <3>6, <3>7
  <2>2. ASSUME ~(got < Len(Universe))
        PROVE  /\ worker' \in [Shards -> [Workers -> Thread]] /\ late' \in [Shards -> Nat]
               /\ owner' \in [Symbols -> Shards \cup {None}]
    <3>1. [worker[s][w] EXCEPT !.at = "end"] \in Thread
      BY <2>0, Records
    <3>2. worker' = [worker EXCEPT ![s][w].at = "end"] /\ owner' = owner /\ late' = late
      BY <1>2, <2>2 DEF Take
    <3>3. QED
      BY <3>1, <3>2 DEF TypeOK
  <2>3. worker' \in [Shards -> [Workers -> Thread]] /\ late' \in [Shards -> Nat]
        /\ owner' \in [Symbols -> Shards \cup {None}]
    BY <2>1, <2>2
  <2>4. got' \in 0 .. (Len(Universe) + Cardinality(Shards))
    BY <1>2, UniverseFacts DEF TypeOK, Take, At
  <2>5. QED
    BY <1>2, <2>3, <2>4 DEF TypeOK, Take, At
<1>3. ASSUME NEW s \in Shards, NEW w \in Workers, TakeNothing(s, w) PROVE TypeOK'
  <2>1. worker' \in [Shards -> [Workers -> Thread]]
    BY <1>3, Records DEF TypeOK, TakeNothing, At
  <2>2. QED
    BY <1>3, <2>1 DEF TypeOK, TakeNothing, At
<1>4. ASSUME NEW s \in Shards, NEW w \in Workers, Fetch(s, w) PROVE TypeOK'
  <2>1. worker' \in [Shards -> [Workers -> Thread]]
    BY <1>4, Records DEF TypeOK, Fetch, At
  <2>2. fate' \in [Symbols -> Outcomes \cup {None}]
    BY <1>4, ShardAssumption DEF TypeOK, Fetch, At
  <2>3. worker[s][w].symbol \in Symbols => results' \in [Shards -> Seq(Symbols)]
    BY <1>4 DEF TypeOK, Fetch, At
  <2>4. worker[s][w].symbol \in Symbols
    <3>1. worker[s][w] \in Thread /\ worker[s][w].at = "fetch"
      BY <1>4 DEF TypeOK, Fetch, At
    <3>2. QED
      BY <3>1, Records
  <2>5. QED
    BY <1>4, <2>1, <2>2, <2>3, <2>4 DEF TypeOK, Fetch, At
<1>5. ASSUME NEW s \in Shards, Consume(s) PROVE TypeOK'
  <2>1. Head(results[s]) \in Symbols /\ Tail(results[s]) \in Seq(Symbols)
    BY <1>5 DEF TypeOK, Consume
  <2>2. Tracked(tracker[s], fate[Head(results[s])]) \in Tracker
    BY <1>5, TrackedType DEF TypeOK, Consume
  <2>3. tracker' \in [Shards -> Tracker]
    BY <1>5, <2>2, SMTT(30) DEF TypeOK, Consume
  <2>4. consumer' \in [Shards -> Main]
    BY <1>5, <2>1, Records DEF TypeOK, Consume
  <2>5. results' \in [Shards -> Seq(Symbols)]
    BY <1>5, <2>1 DEF TypeOK, Consume
  <2>6. QED
    BY <1>5, <2>1, <2>2, <2>3, <2>4, <2>5 DEF TypeOK, Consume
<1>6. ASSUME NEW s \in Shards, Flush(s) PROVE TypeOK'
  <2>1. consumer' \in [Shards -> Main]
    BY <1>6, Records DEF TypeOK, Flush, Consuming
  <2>2. proxy' \in [Shards -> Health]
    BY <1>6, Records DEF TypeOK, Flush, Consuming
  <2>3. QED
    BY <1>6, <2>1, <2>2 DEF TypeOK, Flush, Consuming
<1>7. ASSUME NEW s \in Shards, Persist(s) PROVE TypeOK'
  <2>1. consumer' \in [Shards -> Main]
    <3>1. PICK sent \in BOOLEAN :
            consumer' = [consumer EXCEPT ![s].at = "emit", ![s].saved = sent]
      BY <1>7 DEF Persist
    <3>2. consumer[s] \in Main /\ consumer[s].at = "persist"
      BY <1>7 DEF TypeOK, Persist, Consuming
    <3>3. [consumer[s] EXCEPT !.at = "emit", !.saved = sent] \in Main
      BY <3>2, Records
    <3>4. consumer' = [consumer EXCEPT ![s] = [@ EXCEPT !.at = "emit", !.saved = sent]]
      BY <3>1
    <3>5. QED
      BY <3>3, <3>4 DEF TypeOK
  <2>2. committed' \subseteq Symbols
    BY <1>7, Records DEF TypeOK, Persist, Consuming
  <2>3. QED
    BY <1>7, <2>1, <2>2 DEF TypeOK, Persist, Consuming
<1>8. ASSUME NEW s \in Shards, Emit(s) PROVE TypeOK'
  <2>1. consumer' \in [Shards -> Main]
    BY <1>8, Records DEF TypeOK, Emit, Consuming
  <2>2. items' \in [Symbols -> SUBSET Status]
    BY ZenonT(60), <1>8, Records DEF TypeOK, Emit, Consuming
  <2>3. QED
    BY <1>8, <2>1, <2>2 DEF TypeOK, Emit, Consuming
<1>9. ASSUME NEW s \in Shards, Mark(s) PROVE TypeOK'
  <2>1. consumer' \in [Shards -> Main]
    BY <1>9, Records DEF TypeOK, Mark, Consuming
  <2>2. marked' \subseteq Symbols
    BY <1>9, Records DEF TypeOK, Mark, Consuming
  <2>3. QED
    BY <1>9, <2>1, <2>2 DEF TypeOK, Mark, Consuming
<1>10. ASSUME NEW s \in Shards, EndOfResults(s) PROVE TypeOK'
  <2>1. consumer' \in [Shards -> Main]
    BY <1>10, Records DEF TypeOK, EndOfResults, Consuming
  <2>2. QED
    BY <1>10, <2>1 DEF TypeOK, EndOfResults, Consuming
<1>11. ASSUME NEW s \in Shards, Close(s) PROVE TypeOK'
  <2>1. proxy' \in [Shards -> Health]
    BY <1>11, Records DEF TypeOK, Close, Ends
  <2>2. process' \in [Shards -> Ends \cup {"alive"}]
    BY <1>11 DEF TypeOK, Close, Ends
  <2>3. QED
    BY <1>11, <2>1, <2>2 DEF TypeOK, Close, Ends
<1>12. ASSUME NEW s \in Shards, RaisedExit(s) PROVE TypeOK'
  <2>1. process' \in [Shards -> Ends \cup {"alive"}]
    BY <1>12 DEF TypeOK, RaisedExit, Ends
  <2>2. QED
    BY <1>12, <2>1 DEF TypeOK, RaisedExit, Ends
<1>13. ASSUME NEW s \in Shards, Raise(s) PROVE TypeOK'
  <2>1. consumer' \in [Shards -> Main]
    BY <1>13, Records DEF TypeOK, Raise, Consuming
  <2>2. faults' \in 0 .. MaxFaults
    BY <1>13, ShardAssumption DEF TypeOK, Raise, Consuming
  <2>3. QED
    BY <1>13, <2>1, <2>2 DEF TypeOK, Raise, Consuming
<1>14. ASSUME NEW s \in Shards, Kill(s) PROVE TypeOK'
  <2>1. process' \in [Shards -> Ends \cup {"alive"}]
    BY <1>14 DEF TypeOK, Kill, Ends, MayStick
  <2>2. kills' \in 0 .. MaxKills
    BY <1>14, ShardAssumption DEF TypeOK, Kill, Ends, MayStick
  <2>3. stuck' \in BOOLEAN
    BY <1>14 DEF TypeOK, Kill, Ends, MayStick
  <2>4. QED
    BY <1>14, <2>1, <2>2, <2>3 DEF TypeOK, Kill, Ends, MayStick
<1>15. ASSUME JoinAll PROVE TypeOK'
  BY <1>15 DEF TypeOK, JoinAll, Reap
<1>16. ASSUME StopWaiting PROVE TypeOK'
  BY <1>16 DEF TypeOK, StopWaiting, Reap
<1>17. ASSUME Terminate PROVE TypeOK'
  <2>1. process' \in [Shards -> Ends \cup {"alive"}]
    BY <1>17 DEF TypeOK, Terminate, Ends, MayStick
  <2>2. stuck' \in BOOLEAN
    BY <1>17 DEF TypeOK, Terminate, Ends, MayStick
  <2>3. QED
    BY <1>17, <2>1, <2>2 DEF TypeOK, Terminate, Ends, MayStick
<1>18. ASSUME RecordCrashes PROVE TypeOK'
  <2>1. proxy' \in [Shards -> Health]
    BY <1>18, HealthEvents DEF TypeOK, RecordCrashes
  <2>2. QED
    BY <1>18, <2>1 DEF TypeOK, RecordCrashes
<1>19. ASSUME Drain PROVE TypeOK'
  <2>1. \A i, j : Queued(i, j) \subseteq Symbols
    BY UniverseFacts DEF Queued
  <2>2. leftover' \subseteq Symbols
    BY <2>1, <1>19 DEF Drain
  <2>3. QED
    BY <1>19, <2>2 DEF TypeOK, Drain, Queued
<1>20. ASSUME RecordNotAttempted PROVE TypeOK'
  <2>1. items' \in [Symbols -> SUBSET Status]
    BY <1>20 DEF TypeOK, RecordNotAttempted, Status
  <2>2. QED
    BY <1>20, <2>1 DEF TypeOK, RecordNotAttempted, Status
<1>21. ASSUME FinalizeRun PROVE TypeOK'
  BY <1>21 DEF TypeOK, FinalizeRun, ExitCode
<1>22. ASSUME ParentDies PROVE TypeOK'
  BY <1>22 DEF TypeOK, ParentDies
<1>23. ASSUME UNCHANGED vars PROVE TypeOK'
  BY <1>23 DEF vars, TypeOK
<1>24. QED
  BY <1>1, <1>2, <1>3, <1>4, <1>5, <1>6, <1>7, <1>8, <1>9, <1>10, <1>11, <1>12, <1>13, <1>14, <1>15, <1>16, <1>17, <1>18, <1>19, <1>20, <1>21, <1>22, <1>23 DEF Next, WorkerStep, ConsumerStep, ParentStep

\* The state of the run is well formed.
THEOREM ShardTypeCorrect == Spec => []TypeOK
<1>1. Init => TypeOK
  BY InitType
<1>2. TypeOK /\ [Next]_vars => TypeOK'
  BY StepType
<1>3. QED
  BY <1>1, <1>2, PTL DEF Spec
-------------------------------------------------------------------------------
(* The invariant *)

\* Each part is about a few variables.
LEMMA Keep ==
    /\ Unowned /\ UNCHANGED <<got, owner, fate>> => Unowned'
    /\ Hands /\ UNCHANGED <<worker, owner, fate>> => Hands'
    /\ Payloads /\ UNCHANGED <<results, owner, fate>> => Payloads'
    /\ Verdicts /\ UNCHANGED <<consumer, owner, fate, committed, items>> => Verdicts'
    /\ OwnedData /\ UNCHANGED <<committed, owner, fate>> => OwnedData'
    /\ Reaped /\ UNCHANGED <<parent, process, items, exit, leftover, owner, committed>> => Reaped'
    /\ Charged /\ UNCHANGED <<parent, process, crashed, proxy>> => Charged'
    /\ AuditTrue /\ UNCHANGED <<items, committed, fate, owner>> => AuditTrue'
    /\ DelistSparesTransport /\ UNCHANGED <<marked, fate, items, committed>> => DelistSparesTransport'
    /\ ExitHonest /\ UNCHANGED <<exit, committed, fate>> => ExitHonest'
<1>1. Unowned /\ UNCHANGED <<got, owner, fate>> => Unowned'
  BY DEF Unowned
<1>2. Hands /\ UNCHANGED <<worker, owner, fate>> => Hands'
  BY DEF Hands
<1>3. Payloads /\ UNCHANGED <<results, owner, fate>> => Payloads'
  BY DEF Payloads
<1>4. Verdicts /\ UNCHANGED <<consumer, owner, fate, committed, items>> => Verdicts'
  BY DEF Verdicts
<1>5. OwnedData /\ UNCHANGED <<committed, owner, fate>> => OwnedData'
  BY DEF OwnedData
<1>6. Reaped /\ UNCHANGED <<parent, process, items, exit, leftover, owner, committed>> => Reaped'
  BY DEF Reaped, Running, Alive, AfterRun
<1>7. Charged /\ UNCHANGED <<parent, process, crashed, proxy>> => Charged'
  BY DEF Charged
<1>8. AuditTrue /\ UNCHANGED <<items, committed, fate, owner>> => AuditTrue'
  BY DEF AuditTrue
<1>9. DelistSparesTransport /\ UNCHANGED <<marked, fate, items, committed>> => DelistSparesTransport'
  BY DEF DelistSparesTransport
<1>10. ExitHonest /\ UNCHANGED <<exit, committed, fate>> => ExitHonest'
  BY DEF ExitHonest
<1>11. QED
  BY <1>1, <1>2, <1>3, <1>4, <1>5, <1>6, <1>7, <1>8, <1>9, <1>10

\* Every step keeps the parts it disturbs.
LEMMA CoreStep == TypeOK /\ Core /\ [Next]_vars => Core'
<1> SUFFICES ASSUME TypeOK, Core, [Next]_vars PROVE Core'
  OBVIOUS
<1> USE DEF queueVars, workerVars, healthVars, dataVars, parentVars, faultVars
<1>1. ASSUME NEW s \in Shards, NEW w \in Workers, Check(s, w) PROVE Core'
  <2>1. Hands'
    BY <1>1 DEF TypeOK, Core, Hands, Check, At, Alive
  <2>2. QED
    BY <1>1, <2>1, Keep DEF Core, Check
<1>2. ASSUME NEW s \in Shards, NEW w \in Workers, Take(s, w) PROVE Core'
  <2>a. /\ got \in Nat /\ Len(Universe) \in Nat /\ got' = got + 1
        /\ worker \in [Shards -> [Workers -> Thread]] /\ owner \in [Symbols -> Shards \cup {None}]
        /\ worker[s][w].at = "source" /\ process[s] = "alive"
        /\ UNCHANGED <<fate, results, consumer, committed, items, process, parent, exit, leftover>>
    BY <1>2, UniverseFacts DEF TypeOK, Take, At, Alive
  <2>b. \/ /\ got < Len(Universe)
           /\ worker' = [worker EXCEPT ![s][w] = [at |-> "fetch", symbol |-> Universe[got + 1]]]
           /\ owner' = [owner EXCEPT ![Universe[got + 1]] = s]
        \/ /\ ~(got < Len(Universe)) /\ owner' = owner
           /\ worker' = [worker EXCEPT ![s][w].at = "end"]
    BY <1>2 DEF Take
  <2>c. got < Len(Universe) =>
            /\ got + 1 \in DOMAIN Universe /\ Universe[got + 1] \in Symbols
            /\ owner[Universe[got + 1]] = None /\ fate[Universe[got + 1]] = None
    BY <2>a, UniverseFacts DEF Core, Unowned
  <2>d. \A y \in Symbols : \/ owner'[y] = owner[y]
                           \/ owner[y] = None /\ fate[y] = None /\ owner'[y] = s
    BY <2>a, <2>b, <2>c
  <2>e. s \in Running
    BY <2>a DEF Running, Alive
  <2>1. Unowned'
    <3>1. ASSUME NEW i \in DOMAIN Universe, i > got + 1
          PROVE  owner'[Universe[i]] = None /\ fate'[Universe[i]] = None
      <4>1. owner[Universe[i]] = None /\ fate[Universe[i]] = None /\ Universe[i] \in Symbols
        BY <2>a, <3>1, UniverseFacts DEF Core, Unowned
      <4>2. i \in Nat /\ (got < Len(Universe) => Universe[i] # Universe[got + 1])
        BY <2>a, <2>c, <3>1, UniverseFacts
      <4>3. QED
        BY <2>a, <2>b, <4>1, <4>2
    <3>2. QED
      BY <2>a, <3>1 DEF Unowned
  <2>2. Hands'
    <3>1. \A t \in Shards, v \in Workers :
             worker'[t][v].at = "fetch" =>
                \/ worker'[t][v] = worker[t][v]
                \/ /\ t = s /\ v = w /\ got < Len(Universe)
                   /\ worker'[t][v].symbol = Universe[got + 1] /\ owner'[Universe[got + 1]] = s
      <4>1. \A t \in Shards, v \in Workers : ~(t = s /\ v = w) => worker'[t][v] = worker[t][v]
        BY <2>a, <2>b
      <4>2. CASE got < Len(Universe)
        <5>1. /\ worker'[s][w] = [at |-> "fetch", symbol |-> Universe[got + 1]]
              /\ owner'[Universe[got + 1]] = s
          BY <2>a, <2>b, <2>c, <4>2
        <5>2. QED
          BY <4>1, <4>2, <5>1
      <4>3. CASE ~(got < Len(Universe))
        <5>1. worker'[s][w].at = "end"
          BY <2>a, <2>b, <4>3 DEF Thread
        <5>2. QED
          BY <4>1, <5>1
      <4>4. QED
        BY <4>2, <4>3
    <3>2. \A t \in Shards, v \in Workers :
             worker[t][v].at = "fetch" =>
                worker[t][v].symbol \in Symbols /\ owner[worker[t][v].symbol] = t
                /\ fate[worker[t][v].symbol] = None
      BY DEF Core, Hands
    <3>3. \A t \in Shards, v \in Workers :
             worker'[t][v].at = "fetch" =>
                worker'[t][v].symbol \in Symbols /\ owner'[worker'[t][v].symbol] = t
                /\ fate'[worker'[t][v].symbol] = None
      BY <2>a, <2>c, <2>d, <3>1, <3>2, ShardAssumption
    <3>4. \A t \in Shards, v \in Workers :
             worker[t][v].at = "fetch" /\ got < Len(Universe)
             => worker[t][v].symbol # Universe[got + 1]
      BY <2>c, <3>2, ShardAssumption
    <3>5. \A t \in Shards, u, v \in Workers :
             /\ worker[t][u].at = "fetch" /\ worker[t][v].at = "fetch"
             /\ worker[t][u].symbol = worker[t][v].symbol
             => u = v
      BY DEF Core, Hands
    <3>6. \A t \in Shards, u, v \in Workers :
             /\ worker'[t][u].at = "fetch" /\ worker'[t][v].at = "fetch"
             /\ worker'[t][u].symbol = worker'[t][v].symbol
             => u = v
      BY <3>1, <3>4, <3>5
    <3>7. QED
      BY <3>3, <3>6 DEF Hands
  <2>3. Payloads'
    BY <2>a, <2>d, ShardAssumption DEF TypeOK, Core, Payloads
  <2>4. Verdicts'
    BY <2>a, <2>d, ShardAssumption DEF Core, Verdicts
  <2>5. OwnedData'
    BY <2>a, <2>d, ShardAssumption DEF TypeOK, Core, OwnedData
  <2>6. Reaped'
    BY <2>a, <2>e DEF Core, Reaped, AfterRun, Running, Alive
  <2>7. AuditTrue'
    BY <2>a, <2>d, <2>e DEF Core, AuditTrue, Reaped
  <2>8. QED
    BY <1>2, <2>1, <2>2, <2>3, <2>4, <2>5, <2>6, <2>7, Keep DEF Core, Take
<1>3. ASSUME NEW s \in Shards, NEW w \in Workers, TakeNothing(s, w) PROVE Core'
  <2>1. Hands'
    BY <1>3 DEF TypeOK, Core, Hands, TakeNothing, At, Alive
  <2>2. QED
    BY <1>3, <2>1, Keep DEF Core, TakeNothing
<1>4. ASSUME NEW s \in Shards, NEW w \in Workers, Fetch(s, w) PROVE Core'
  <2> DEFINE x == worker[s][w].symbol
  <2>a. /\ worker \in [Shards -> [Workers -> Thread]] /\ fate \in [Symbols -> Outcomes \cup {None}]
        /\ results \in [Shards -> Seq(Symbols)]
        /\ worker[s][w].at = "fetch" /\ process[s] = "alive"
        /\ worker' = [worker EXCEPT ![s][w] = Idle]
        /\ results' = [results EXCEPT ![s] = Append(@, x)]
        /\ UNCHANGED <<got, owner, consumer, committed, items, marked, exit>>
    BY <1>4 DEF TypeOK, Fetch, At, Alive
  <2>b. x \in Symbols /\ owner[x] = s /\ fate[x] = None
    BY <2>a DEF Core, Hands
  <2>c. PICK o \in Outcomes : fate' = [fate EXCEPT ![x] = o]
    BY <1>4, ShardAssumption DEF Fetch
  <2>d. \A y \in Symbols : \/ fate'[y] = fate[y]
                           \/ y = x /\ fate[y] = None /\ fate'[y] \in Outcomes
    BY <2>a, <2>b, <2>c
  <2>e. None \notin Outcomes
    BY DEF None, Outcomes, Resolved, Counted
  <2> HIDE DEF x
  <2>1. Unowned'
    BY <2>a, <2>b, <2>d, UniverseFacts, ShardAssumption DEF Core, Unowned
  <2>2. Hands'
    <3>1. \A t \in Shards, v \in Workers : worker'[t][v].at = "fetch" =>
             worker'[t][v] = worker[t][v] /\ ~(t = s /\ v = w)
      BY <2>a DEF Idle
    <3>2. \A t \in Shards, v \in Workers : worker[t][v].at = "fetch" =>
             /\ worker[t][v].symbol \in Symbols /\ owner[worker[t][v].symbol] = t
             /\ fate[worker[t][v].symbol] = None
      BY DEF Core, Hands
    <3>3. \A t \in Shards, v \in Workers :
             worker[t][v].at = "fetch" /\ worker[t][v].symbol = x => t = s /\ v = w
      BY <2>a, <2>b DEF Core, Hands, x
    <3>4. QED
      BY <2>a, <2>d, <3>1, <3>2, <3>3 DEF Core, Hands
  <2>3. Payloads'
    <3>1. ASSUME NEW t \in Shards, NEW i \in 1 .. Len(results'[t])
          PROVE  owner'[results'[t][i]] = t /\ fate'[results'[t][i]] \in Outcomes
      <4>1. CASE t = s /\ i = Len(results[s]) + 1
        <5>1. results'[t][i] = x
          BY <2>a, <4>1
        <5>2. QED
          BY <2>a, <2>b, <2>c, <4>1, <5>1
      <4>2. CASE ~(t = s /\ i = Len(results[s]) + 1)
        <5>1. i \in 1 .. Len(results[t]) /\ results'[t][i] = results[t][i]
              /\ results[t][i] \in Symbols
          BY <2>a, <2>b, <3>1, <4>2
        <5>2. owner[results[t][i]] = t /\ fate[results[t][i]] \in Outcomes
          BY <5>1 DEF Core, Payloads
        <5>3. QED
          BY <2>a, <2>d, <5>1, <5>2
      <4>3. QED
        BY <4>1, <4>2
    <3>2. QED
      BY <3>1 DEF Payloads
  <2>f. None \notin Resolved /\ None \notin Counted
    BY DEF None, Resolved, Counted
  <2>4. Verdicts'
    BY <2>a, <2>d, <2>e DEF Core, Verdicts
  <2>5. AuditTrue'
    <3>1. \A y \in Symbols : fate[y] \in Counted => fate'[y] \in Counted
      BY <2>d, <2>f
    <3>2. QED
      BY <2>a, <3>1 DEF Core, AuditTrue
  <2>6. DelistSparesTransport'
    <3>1. \A y \in Symbols : fate[y] \in Counted => fate'[y] \in Counted
      BY <2>d, <2>f
    <3>2. QED
      BY <2>a, <3>1 DEF TypeOK, Core, DelistSparesTransport
  <2>7. ExitHonest'
    <3>1. \A y \in Symbols : fate[y] \in Counted => fate'[y] \in Counted
      BY <2>d, <2>f
    <3>2. QED
      BY <2>a, <3>1 DEF Core, ExitHonest
  <2>8. OwnedData'
    <3>1. \A y \in Symbols : fate[y] \in Resolved => fate'[y] \in Resolved
      BY <2>d, <2>f
    <3>2. QED
      BY <2>a, <3>1 DEF TypeOK, Core, OwnedData
  <2>9. QED
    BY <1>4, <2>1, <2>2, <2>3, <2>4, <2>5, <2>6, <2>7, <2>8, Keep DEF Core, Fetch
<1>5. ASSUME NEW s \in Shards, Consume(s) PROVE Core'
  <2>a. /\ results[s] \in Seq(Symbols) /\ results[s] # <<>>
        /\ results \in [Shards -> Seq(Symbols)] /\ consumer \in [Shards -> Main]
        /\ results' = [results EXCEPT ![s] = Tail(@)]
        /\ UNCHANGED <<owner, fate, committed, items>>
    BY <1>5 DEF TypeOK, Consume
  <2>b. /\ Head(results[s]) \in Symbols /\ owner[Head(results[s])] = s
        /\ fate[Head(results[s])] \in Outcomes
    BY <2>a DEF Core, Payloads
  <2>c. PICK a \in {"flush", "persist", "emit"} :
           /\ consumer' = [consumer EXCEPT ![s] =
                             [at |-> a, symbol |-> Head(results[s]), saved |-> FALSE]]
           /\ a = "persist" => fate[Head(results[s])] \in Resolved
    <3>1. \A o : Handle(o) \in {"persist", "emit"} /\ (Handle(o) = "persist" => o \in Resolved)
      BY DEF Handle
    <3>2. QED
      BY <1>5, <3>1 DEF Consume
  <2>1. Payloads'
    <3>1. \A t \in Shards : \A i \in 1 .. Len(results'[t]) :
             \E j \in 1 .. Len(results[t]) : results'[t][i] = results[t][j]
      <4>1. \A i \in 1 .. Len(Tail(results[s])) :
               i + 1 \in 1 .. Len(results[s]) /\ Tail(results[s])[i] = results[s][i + 1]
        BY <2>a
      <4>2. QED
        BY <2>a, <4>1
    <3>2. QED
      BY <2>a, <3>1 DEF Core, Payloads
  <2>2. Verdicts'
    BY <2>a, <2>b, <2>c DEF Core, Verdicts
  <2>3. QED
    BY <1>5, <2>1, <2>2, Keep DEF Core, Consume
<1>6. ASSUME NEW s \in Shards, Flush(s) PROVE Core'
  <2>a. /\ consumer \in [Shards -> Main] /\ consumer[s].at = "flush" /\ s \in Running
        /\ UNCHANGED <<owner, fate, committed, items, process, parent, crashed>>
    BY <1>6 DEF TypeOK, Flush, Consuming, Running, Alive
  <2>b. PICK a \in {"persist", "emit"} :
           /\ consumer' = [consumer EXCEPT ![s].at = a]
           /\ a = "persist" => fate[consumer[s].symbol] \in Resolved
    <3>1. \A o : Handle(o) \in {"persist", "emit"} /\ (Handle(o) = "persist" => o \in Resolved)
      BY DEF Handle
    <3>2. QED
      BY <1>6, <3>1 DEF Flush
  <2>c. /\ consumer'[s].at = a /\ consumer'[s].symbol = consumer[s].symbol
        /\ consumer'[s].saved = consumer[s].saved
        /\ \A t \in Shards : t # s => consumer'[t] = consumer[t]
    BY <2>a, <2>b DEF Main
  <2>1. Verdicts'
    BY <2>a, <2>b, <2>c DEF Core, Verdicts
  <2>2. Charged'
    <3>1. parent \notin AfterRun
      BY <2>a DEF Core, Reaped
    <3>2. QED
      BY <2>a, <3>1 DEF Core, Charged, AfterRun
  <2>3. QED
    BY <1>6, <2>1, <2>2, Keep DEF Core, Flush
<1>7. ASSUME NEW s \in Shards, Persist(s) PROVE Core'
  <2>a. /\ consumer[s].symbol \in Symbols /\ owner[consumer[s].symbol] = s
        /\ s \in Running /\ committed \subseteq committed'
        /\ committed' \subseteq committed \cup {consumer[s].symbol}
        /\ fate[consumer[s].symbol] \in Resolved
        /\ UNCHANGED <<owner, fate, items, marked, parent, process, exit, leftover>>
    BY <1>7 DEF Core, Verdicts, Persist, Consuming, Running, Alive
  <2>1. Verdicts'
    BY <1>7 DEF TypeOK, Core, Verdicts, Persist, Consuming, Alive
  <2>2. OwnedData'
    BY <2>a, ShardAssumption DEF Core, OwnedData
  <2>3. Reaped'
    BY <2>a DEF Core, Reaped, AfterRun, Running, Alive
  <2>4. AuditTrue'
    BY <2>a, ShardAssumption DEF Core, AuditTrue
  <2>5. ExitHonest'
    BY <2>a DEF Core, ExitHonest
  <2>6. DelistSparesTransport'
    <3>1. Resolved \cap Counted = {}
      BY DEF Resolved, Counted
    <3>2. QED
      BY <2>a, <3>1 DEF Core, DelistSparesTransport
  <2>7. QED
    BY <1>7, <2>1, <2>2, <2>3, <2>4, <2>5, <2>6, Keep DEF Core, Persist
<1>8. ASSUME NEW s \in Shards, Emit(s) PROVE Core'
  <2> DEFINE x == consumer[s].symbol
  <2>a. /\ x \in Symbols /\ owner[x] = s /\ fate[x] \in Outcomes
        /\ consumer[s].saved => x \in committed
        /\ consumer \in [Shards -> Main] /\ items \in [Symbols -> SUBSET Status]
        /\ s \in Running
        /\ UNCHANGED <<owner, fate, committed, process, parent, exit, leftover, marked>>
    BY <1>8 DEF TypeOK, Core, Verdicts, Emit, Consuming, Running, Alive
  <2>b. /\ items' = [items EXCEPT ![x] = @ \cup Cells(fate[x], consumer[s].saved)]
        /\ consumer' = [consumer EXCEPT ![s] =
               IF fate[x] \in Counted THEN [@ EXCEPT !.at = "mark"] ELSE Waiting]
    BY <1>8 DEF Emit
  <2>c. LET c == Cells(fate[x], consumer[s].saved)
        IN  /\ "ok" \in c => consumer[s].saved
            /\ "unknown" \in c <=> fate[x] \in Counted
            /\ "not_attempted" \notin c
    BY DEF Cells, Resolved, Counted
  <2>d. \A y \in Symbols : /\ items[y] \subseteq items'[y]
                           /\ y # x => items'[y] = items[y]
    BY <2>a, <2>b
  <2>e. \A v \in Status : v \in items'[x] => v \in items[x] \/ v \in Cells(fate[x], consumer[s].saved)
    BY <2>a, <2>b
  <2>f. Cells(fate[x], consumer[s].saved) \subseteq items'[x]
    BY <2>a, <2>b
  <2> HIDE DEF x
  <2>1. Verdicts'
    <3>1. \A t \in Shards : t # s => consumer'[t] = consumer[t]
      BY <2>a, <2>b
    <3>2. CASE fate[x] \in Counted
      <4>1. consumer'[s].at = "mark" /\ consumer'[s].symbol = x
        BY <2>a, <2>b, <3>2 DEF Main, x
      <4>2. "unknown" \in items'[x]
        BY <2>c, <2>f, <3>2
      <4>3. QED
        BY <2>a, <2>d, <3>1, <3>2, <4>1, <4>2 DEF Core, Verdicts
    <3>3. CASE fate[x] \notin Counted
      <4>1. consumer'[s].at = "get"
        BY <2>a, <2>b, <3>3 DEF Waiting
      <4>2. QED
        BY <2>a, <2>d, <3>1, <4>1 DEF Core, Verdicts
    <3>4. QED
      BY <3>2, <3>3
  <2>2. Reaped'
    <3>1. parent \notin AfterRun /\ \A y \in Symbols : "not_attempted" \notin items[y]
      BY <2>a DEF Core, Reaped
    <3>2. \A y \in Symbols : "not_attempted" \notin items'[y]
      BY <2>c, <2>d, <2>e, <3>1 DEF Status
    <3>3. QED
      BY <2>a, <3>1, <3>2 DEF Core, Reaped, AfterRun, Running, Alive
  <2>3. AuditTrue'
    <3>1. ASSUME NEW y \in Symbols
          PROVE  /\ "ok" \in items'[y] => y \in committed
                 /\ "unknown" \in items'[y] => fate[y] \in Counted
                 /\ "not_attempted" \in items'[y] => owner[y] = None /\ y \notin committed
      <4>1. /\ "ok" \in items[y] => y \in committed
            /\ "unknown" \in items[y] => fate[y] \in Counted
            /\ "not_attempted" \in items[y] => owner[y] = None /\ y \notin committed
        BY DEF Core, AuditTrue
      <4>2. QED
        BY <2>a, <2>c, <2>d, <2>e, <4>1 DEF Status
    <3>2. QED
      BY <2>a, <3>1 DEF AuditTrue
  <2>4. DelistSparesTransport'
    BY <2>a, <2>d DEF TypeOK, Core, DelistSparesTransport
  <2>5. QED
    BY <1>8, <2>1, <2>2, <2>3, <2>4, Keep DEF Core, Emit
<1>9. ASSUME NEW s \in Shards, Mark(s) PROVE Core'
  <2>1. Verdicts'
    BY <1>9 DEF TypeOK, Core, Verdicts, Mark, Consuming, Alive, Waiting
  <2>2. DelistSparesTransport'
    <3>1. /\ fate[consumer[s].symbol] \in Counted /\ "unknown" \in items[consumer[s].symbol]
          /\ consumer[s].symbol \in Symbols
      BY <1>9 DEF Core, Verdicts, Mark, Consuming
    <3>2. marked' = marked \cup {consumer[s].symbol} /\ UNCHANGED <<fate, items, committed>>
      BY <1>9 DEF Mark
    <3>3. Resolved \cap Counted = {}
      BY DEF Resolved, Counted
    <3>4. consumer[s].symbol \notin committed
      BY <3>1, <3>3 DEF Core, OwnedData
    <3>5. QED
      BY <3>1, <3>2, <3>4 DEF Core, DelistSparesTransport
  <2>3. QED
    BY <1>9, <2>1, <2>2, Keep DEF Core, Mark
<1>10. ASSUME NEW s \in Shards, EndOfResults(s) PROVE Core'
  <2>1. Verdicts'
    BY <1>10 DEF TypeOK, Core, Verdicts, EndOfResults, Consuming, Alive
  <2>2. QED
    BY <1>10, <2>1, Keep DEF Core, EndOfResults
<1>11. ASSUME NEW s \in Shards, Close(s) PROVE Core'
  <2>a. s \in Running /\ process' = [process EXCEPT ![s] = "exited"] /\ UNCHANGED <<parent, crashed>>
        /\ process \in [Shards -> Ends \cup {"alive"}]
    BY <1>11 DEF TypeOK, Close, Consuming, Running, Alive
  <2>1. Reaped'
    BY <1>11 DEF TypeOK, Core, Reaped, Running, Alive, AfterRun, Close, Consuming, Alive
  <2>2. Charged'
    <3>1. parent \notin AfterRun
      BY <2>a DEF Core, Reaped
    <3>2. QED
      BY <2>a, <3>1 DEF Core, Charged, AfterRun
  <2>3. QED
    BY <1>11, <2>1, <2>2, Keep DEF Core, Close
<1>12. ASSUME NEW s \in Shards, RaisedExit(s) PROVE Core'
  <2>1. Reaped'
    BY <1>12 DEF TypeOK, Core, Reaped, Running, Alive, AfterRun, RaisedExit, Consuming, Alive
  <2>2. Charged'
    BY <1>12 DEF TypeOK, Core, Charged, RaisedExit, Consuming, Alive
  <2>3. QED
    BY <1>12, <2>1, <2>2, Keep DEF Core, RaisedExit
<1>13. ASSUME NEW s \in Shards, Raise(s) PROVE Core'
  <2>1. Verdicts'
    BY <1>13 DEF TypeOK, Core, Verdicts, Raise, Consuming, Alive
  <2>2. QED
    BY <1>13, <2>1, Keep DEF Core, Raise
<1>14. ASSUME NEW s \in Shards, Kill(s) PROVE Core'
  <2>1. Reaped'
    BY <1>14 DEF TypeOK, Core, Reaped, Running, Alive, AfterRun, Kill, Consuming, Alive
  <2>2. Charged'
    BY <1>14 DEF TypeOK, Core, Charged, Kill, Consuming, Alive
  <2>3. QED
    BY <1>14, <2>1, <2>2, Keep DEF Core, Kill
<1>15. ASSUME JoinAll PROVE Core'
  <2>1. Reaped'
    BY <1>15 DEF TypeOK, Core, Reaped, Running, Alive, AfterRun, JoinAll, Reap, Joined
  <2>2. Charged'
    BY <1>15 DEF TypeOK, Core, Charged, JoinAll, Reap, Joined
  <2>3. QED
    BY <1>15, <2>1, <2>2, Keep DEF Core, JoinAll, Reap
<1>16. ASSUME StopWaiting PROVE Core'
  <2>1. Reaped'
    BY <1>16 DEF TypeOK, Core, Reaped, Running, Alive, AfterRun, StopWaiting, Reap, CutShort
  <2>2. Charged'
    BY <1>16 DEF TypeOK, Core, Charged, StopWaiting, Reap, CutShort
  <2>3. QED
    BY <1>16, <2>1, <2>2, Keep DEF Core, StopWaiting, Reap
<1>17. ASSUME Terminate PROVE Core'
  <2>1. Reaped'
    BY <1>17 DEF TypeOK, Core, Reaped, Running, Alive, AfterRun, Terminate
  <2>2. Charged'
    <3>1. process' = [t \in Shards |-> IF process[t] = "alive" THEN "killed" ELSE process[t]]
          /\ parent = "terminate" /\ parent' = "record" /\ crashed' = crashed
      BY <1>17 DEF Terminate, Alive
    <3>2. QED
      BY <3>1 DEF Core, Charged
  <2>3. QED
    BY <1>17, <2>1, <2>2, Keep DEF Core, Terminate
<1>18. ASSUME RecordCrashes PROVE Core'
  <2>1. Reaped'
    BY <1>18, HealthEvents DEF TypeOK, Core, Reaped, Running, Alive, AfterRun, RecordCrashes
  <2>2. Charged'
    BY <1>18, HealthEvents DEF TypeOK, Core, Charged, RecordCrashes
  <2>3. QED
    BY <1>18, <2>1, <2>2, Keep DEF Core, RecordCrashes
<1>19. ASSUME Drain PROVE Core'
  <2>1. Reaped'
    <3>1. PICK k \in got .. Len(Universe) + Cardinality(Shards) : leftover' = Queued(got + 1, k)
      BY <1>19 DEF Drain
    <3>2. \A x \in leftover' : owner[x] = None
      <4>1. got \in Nat
        BY UniverseFacts DEF TypeOK
      <4>2. \A i \in ((got + 1) .. k) \cap DOMAIN Universe : owner[Universe[i]] = None
        BY <4>1, UniverseFacts DEF Core, Unowned
      <4>3. QED
        BY <3>1, <4>2 DEF Queued
    <3>3. \A x \in leftover' : x \notin committed
      BY <3>2 DEF Core, OwnedData
    <3>4. /\ parent = "drain" /\ parent' = "leftover" 
          /\ UNCHANGED <<process, items, exit, owner, committed>>
      BY <1>19 DEF Drain
    <3>5. QED
      BY <3>2, <3>3, <3>4 DEF Core, Reaped, AfterRun, Running, Alive
  <2>2. Charged'
    BY <1>19 DEF TypeOK, Core, Charged, Drain
  <2>3. QED
    BY <1>19, <2>1, <2>2, Keep DEF Core, Drain
<1>20. ASSUME RecordNotAttempted PROVE Core'
  <2>1. Verdicts'
    BY <1>20 DEF TypeOK, Core, Verdicts, RecordNotAttempted
  <2>2. Reaped'
    BY <1>20 DEF TypeOK, Core, Reaped, Running, Alive, AfterRun, RecordNotAttempted
  <2>3. Charged'
    BY <1>20 DEF TypeOK, Core, Charged, RecordNotAttempted
  <2>4. AuditTrue'
    <3>1. /\ \A x \in leftover : owner[x] = None /\ x \notin committed
          /\ UNCHANGED <<owner, committed, fate>>
      BY <1>20 DEF Core, Reaped, RecordNotAttempted
    <3>2. \A x \in Symbols : \/ items'[x] = items[x]
                             \/ x \in leftover /\ items'[x] = items[x] \cup {"not_attempted"}
      BY <1>20 DEF RecordNotAttempted
    <3>3. QED
      BY <3>1, <3>2 DEF Core, AuditTrue
  <2>5. DelistSparesTransport'
    BY <1>20 DEF TypeOK, Core, DelistSparesTransport, RecordNotAttempted
  <2>6. QED
    BY <1>20, <2>1, <2>2, <2>3, <2>4, <2>5, Keep DEF Core, RecordNotAttempted
<1>21. ASSUME FinalizeRun PROVE Core'
  <2>1. Reaped'
    BY <1>21 DEF TypeOK, Core, Reaped, Running, Alive, AfterRun, FinalizeRun, ExitCode, Recorded, Missing, Status
  <2>2. Charged'
    BY <1>21 DEF TypeOK, Core, Charged, FinalizeRun, ExitCode, Recorded, Missing, Status
  <2>3. ExitHonest'
    <3>1. exit' = ExitCode /\ UNCHANGED <<committed, fate>>
      BY <1>21 DEF FinalizeRun
    <3>2. ASSUME ExitCode = "ok", NEW x \in Symbols PROVE x \in committed \/ fate[x] \in Counted
      <4>1. Recorded("failed") = {} /\ Missing = {} /\ Recorded("not_attempted") = {}
        BY <3>2 DEF ExitCode
      <4>2. items[x] # {} /\ "failed" \notin items[x] /\ "not_attempted" \notin items[x]
        BY <4>1 DEF Recorded, Missing
      <4>3. items[x] \subseteq Status
        BY DEF TypeOK
      <4>4. "ok" \in items[x] \/ "unknown" \in items[x]
        BY <4>2, <4>3 DEF Status
      <4>5. QED
        BY <4>4 DEF Core, AuditTrue
    <3>3. QED
      BY <3>1, <3>2 DEF ExitHonest
  <2>4. QED
    BY <1>21, <2>1, <2>2, <2>3, Keep DEF Core, FinalizeRun
<1>22. ASSUME ParentDies PROVE Core'
  <2>1. Reaped'
    BY <1>22 DEF TypeOK, Core, Reaped, Running, Alive, AfterRun, ParentDies
  <2>2. Charged'
    BY <1>22 DEF TypeOK, Core, Charged, ParentDies
  <2>3. QED
    BY <1>22, <2>1, <2>2, Keep DEF Core, ParentDies
<1>23. ASSUME UNCHANGED vars PROVE Core'
  BY <1>23, Keep DEF Core, vars
<1>24. QED
  BY <1>1, <1>2, <1>3, <1>4, <1>5, <1>6, <1>7, <1>8, <1>9, <1>10, <1>11, <1>12, <1>13, <1>14, <1>15, <1>16, <1>17, <1>18, <1>19, <1>20, <1>21, <1>22, <1>23 DEF Next, WorkerStep, ConsumerStep, ParentStep

LEMMA InitCore == Init => Core
<1> SUFFICES ASSUME Init PROVE Core
  OBVIOUS
<1>1. \A s \in Shards, w \in Workers : worker[s][w].at = "check"
  BY DEF Init, Idle
<1>2. \A s \in Shards : results[s] = <<>> /\ consumer[s].at = "get"
  BY DEF Init, Waiting
<1>3. \A i \in DOMAIN Universe : owner[Universe[i]] = None /\ fate[Universe[i]] = None
  BY UniverseFacts DEF Init
<1>4. Unowned /\ Hands /\ Payloads /\ Verdicts
  BY <1>1, <1>2, <1>3 DEF Unowned, Hands, Payloads, Verdicts
<1>5. OwnedData /\ Reaped /\ Charged /\ AuditTrue /\ DelistSparesTransport /\ ExitHonest
  BY DEF Init, OwnedData, Reaped, Charged, AuditTrue, DelistSparesTransport, ExitHonest, AfterRun, None
<1>6. QED
  BY <1>4, <1>5 DEF Core

LEMMA CoreHolds == Spec => [](TypeOK /\ Core)
<1>1. Init => TypeOK /\ Core
  BY InitType, InitCore
<1>2. TypeOK /\ Core /\ [Next]_vars => (TypeOK /\ Core)'
  BY StepType, CoreStep
<1>3. QED
  BY <1>1, <1>2, PTL DEF Spec

-------------------------------------------------------------------------------
(* What the run promises *)

\* A run whose exit code reports success has written every symbol that
\* resolved and lost none to the transport, whatever crashed, was killed or was
\* left in the queue.
THEOREM SuccessIsHonest == Spec => []ExitHonest
<1>1. TypeOK /\ Core => ExitHonest
  BY DEF Core
<1>2. QED
  BY <1>1, CoreHolds, PTL

\* An audit row says what happened to its symbol.
THEOREM AuditIsTrue == Spec => []AuditTrue
<1>1. TypeOK /\ Core => AuditTrue
  BY DEF Core
<1>2. QED
  BY <1>1, CoreHolds, PTL

\* A symbol counted toward delisting was not lost to the transport and has no
\* data of the run.
THEOREM NoDelistByTransport == Spec => []DelistSparesTransport
<1>1. TypeOK /\ Core => DelistSparesTransport
  BY DEF Core
<1>2. QED
  BY <1>1, CoreHolds, PTL

\* Every shard that did not end by itself has cost its proxy its place when
\* the run is closed.
THEOREM CrashesAreCharged == Spec => []CrashAccounted
<1>1. TypeOK /\ Core => CrashAccounted
  BY DEF Core, Charged, CrashAccounted
<1>2. QED
  BY <1>1, CoreHolds, PTL

\* Nothing moves under the count the run is closed from.
THEOREM CountHoldsStill == Spec => CountsAreFinal
<1>1. TypeOK /\ Core /\ [Next]_vars
          => [(parent \in {"finalize", "done"}) => UNCHANGED <<dataVars, proxy>>]_vars
  <2> SUFFICES ASSUME TypeOK, Core, [Next]_vars, parent \in {"finalize", "done"}
               PROVE  UNCHANGED <<dataVars, proxy>>
    OBVIOUS
  <2>1. \A s \in Shards : ~Alive(s)
    BY DEF Core, Reaped, AfterRun, Running
  <2>2. ASSUME NEW s \in Shards, NEW w \in Workers PROVE ~WorkerStep(s, w)
    BY <2>1 DEF WorkerStep, Check, Take, TakeNothing, Fetch, At
  <2>3. ASSUME NEW s \in Shards PROVE ~ConsumerStep(s) /\ ~Raise(s) /\ ~Kill(s)
    BY <2>1 DEF ConsumerStep, Consume, Flush, Persist, Emit, Mark, EndOfResults, Close,
                RaisedExit, Raise, Kill, Consuming
  <2>4. ASSUME ParentStep \/ StopWaiting \/ ParentDies PROVE UNCHANGED <<dataVars, proxy>>
    BY <2>4 DEF ParentStep, JoinAll, StopWaiting, Joined, CutShort, Terminate, RecordCrashes,
                Drain, RecordNotAttempted, FinalizeRun, ParentDies, dataVars, healthVars
  <2>5. ASSUME UNCHANGED vars PROVE UNCHANGED <<dataVars, proxy>>
    BY <2>5 DEF vars, dataVars, healthVars
  <2>6. QED
    BY <2>2, <2>3, <2>4, <2>5 DEF Next
<1>2. QED
  BY <1>1, CoreHolds, PTL DEF Spec, CountsAreFinal

-------------------------------------------------------------------------------
(* What a shard takes late, and what it holds *)

\* The workers about to take a symbol have passed the check; of those that did
\* before their shard withdrew, each took one symbol, still will, or ended.
Passed(s) == {w \in Workers : worker[s][w].at = "source"}

Withdrawing ==
    \A s \in Shards : IF tracker[s].withdrawn
                      THEN late[s] + Cardinality(Passed(s)) <= Cardinality(Workers)
                      ELSE late[s] = 0

\* Where the symbols of a shard are until they are audited.
Fetched(s)   == {worker[s][w].symbol : w \in Workers}
InResults(s) == {results[s][i] : i \in 1 .. Len(results[s])}
Unaudited(s) == {x \in Symbols : owner[x] = s /\ items[x] = {}}

Held ==
    \A s \in Shards :
        /\ Len(results[s]) <= ResultsMax
        /\ \A x \in Unaudited(s) :
              \/ \E w \in Workers : worker[s][w].at = "fetch" /\ worker[s][w].symbol = x
              \/ \E i \in 1 .. Len(results[s]) : results[s][i] = x
              \/ consumer[s].at \in {"flush", "persist", "emit", "mark", "raised"}
                    /\ consumer[s].symbol = x

Loads == Withdrawing /\ Held

\* A shard has finitely many workers past the check.
LEMMA PassedFinite ==
    ASSUME NEW P \in SUBSET Workers
    PROVE  /\ IsFiniteSet(P) /\ Cardinality(P) \in Nat /\ Cardinality(Workers) \in Nat
           /\ Cardinality(P) <= Cardinality(Workers)
           /\ \A w \in P : Cardinality(P \ {w}) = Cardinality(P) - 1
<1>1. IsFiniteSet(Workers)
  BY ShardAssumption
<1>2. IsFiniteSet(P) /\ Cardinality(P) <= Cardinality(Workers)
  BY <1>1, FS_Subset
<1>3. Cardinality(P) \in Nat /\ Cardinality(Workers) \in Nat
  BY <1>1, <1>2, FS_CardinalityType
<1>4. \A w \in P : Cardinality(P \ {w}) = Cardinality(P) - 1
  BY <1>2, FS_RemoveElement
<1> QED
  BY <1>2, <1>3, <1>4

\* A union has at most as many elements as its parts together.
LEMMA UnionBound ==
    ASSUME NEW A, NEW B, IsFiniteSet(A), IsFiniteSet(B)
    PROVE  IsFiniteSet(A \cup B) /\ Cardinality(A \cup B) <= Cardinality(A) + Cardinality(B)
<1>1. /\ IsFiniteSet(A \cup B)
      /\ Cardinality(A \cup B) = Cardinality(A) + Cardinality(B) - Cardinality(A \cap B)
  BY FS_Union
<1>2. IsFiniteSet(A \cap B)
  BY FS_Subset
<1>3. Cardinality(A) \in Nat /\ Cardinality(B) \in Nat /\ Cardinality(A \cap B) \in Nat
  BY <1>2, FS_CardinalityType
<1> QED
  BY <1>1, <1>3

\* A shard that withdraws has taken nothing late; every late symbol is one
\* worker less past the check.
LEMMA WithdrawingStep == TypeOK /\ Withdrawing /\ [Next]_vars => Withdrawing'
<1> SUFFICES ASSUME TypeOK, Withdrawing, [Next]_vars PROVE Withdrawing'
  OBVIOUS
<1> USE DEF queueVars, workerVars, healthVars, dataVars, parentVars, faultVars
<1>a. \A s \in Shards : /\ Passed(s) \subseteq Workers /\ late[s] \in Nat
                        /\ Cardinality(Passed(s)) \in Nat /\ Cardinality(Workers) \in Nat
                        /\ Cardinality(Passed(s)) <= Cardinality(Workers)
                        /\ \A w \in Passed(s) :
                              Cardinality(Passed(s) \ {w}) = Cardinality(Passed(s)) - 1
  <2> TAKE s \in Shards
  <2>1. Passed(s) \in SUBSET Workers /\ late[s] \in Nat
    BY DEF Passed, TypeOK
  <2> QED
    BY <2>1, PassedFinite
\* Only a Take counts a late symbol, and only a Check adds to those past it.
<1>b. ASSUME NEW s \in Shards, NEW w \in Workers, NEW a,
             worker' = [worker EXCEPT ![s][w] = a], worker[s][w].at = "source", a.at # "source",
             UNCHANGED tracker,
             \/ late' = late
             \/ late' = [late EXCEPT ![s] = IF tracker[s].withdrawn THEN @ + 1 ELSE @]
      PROVE  Withdrawing'
  <2>1. \A t \in Shards : t # s => Passed(t)' = Passed(t) /\ late'[t] = late[t]
    BY <1>b DEF Passed, TypeOK
  <2>2. Passed(s)' = Passed(s) \ {w} /\ w \in Passed(s)
    BY <1>b DEF Passed, TypeOK
  <2>3. late'[s] \in {late[s], IF tracker[s].withdrawn THEN late[s] + 1 ELSE late[s]}
    BY <1>b DEF TypeOK
  <2>4. Cardinality(Passed(s)') = Cardinality(Passed(s)) - 1
    BY <2>2, <1>a
  <2>5. CASE tracker[s].withdrawn
    <3>1. late[s] + Cardinality(Passed(s)) <= Cardinality(Workers)
      BY <2>5 DEF Withdrawing
    <3>2. late'[s] + Cardinality(Passed(s)') <= Cardinality(Workers)
      BY <3>1, <2>3, <2>4, <1>a
    <3> QED
      BY <3>2, <2>1, <2>5, <1>b DEF Withdrawing
  <2>6. CASE ~tracker[s].withdrawn
    BY <2>1, <2>3, <2>6, <1>b DEF Withdrawing
  <2> QED
    BY <2>5, <2>6
<1>c. ASSUME UNCHANGED <<worker, late, tracker>> PROVE Withdrawing'
  BY <1>c DEF Withdrawing, Passed
<1>1. ASSUME NEW s \in Shards, NEW w \in Workers, Check(s, w) PROVE Withdrawing'
  <2>1. UNCHANGED <<late, tracker>> /\ worker[s][w].at = "check"
        /\ worker' = [worker EXCEPT ![s][w].at = IF tracker[s].withdrawn THEN "end" ELSE "source"]
    BY <1>1 DEF Check, At
  <2>2. \A t \in Shards : tracker[t].withdrawn => Passed(t)' = Passed(t)
    <3>1. \A t \in Shards, v \in Workers :
             tracker[t].withdrawn => (worker'[t][v].at = "source" <=> worker[t][v].at = "source")
      BY <2>1 DEF TypeOK, Thread
    <3> QED
      BY <3>1 DEF Passed
  <2> QED
    BY <2>1, <2>2 DEF Withdrawing
<1>2. ASSUME NEW s \in Shards, NEW w \in Workers, Take(s, w) PROVE Withdrawing'
  <2>1. worker[s][w].at = "source" /\ UNCHANGED tracker
    BY <1>2 DEF Take, At
  <2>2. CASE got < Len(Universe)
    <3> DEFINE a == [at |-> "fetch", symbol |-> Universe[got + 1]]
    <3>1. /\ worker' = [worker EXCEPT ![s][w] = a] /\ a.at # "source"
          /\ late' = [late EXCEPT ![s] = IF tracker[s].withdrawn THEN @ + 1 ELSE @]
      BY <2>2, <1>2 DEF Take
    <3> HIDE DEF a
    <3> QED
      BY <3>1, <2>1, <1>b
  <2>3. CASE ~(got < Len(Universe))
    <3> DEFINE a == [worker[s][w] EXCEPT !.at = "end"]
    <3>1. a.at # "source" /\ worker' = [worker EXCEPT ![s][w] = a] /\ late' = late
      BY <2>3, <1>2 DEF Take, TypeOK, Thread
    <3> QED
      BY <3>1, <2>1, <1>b
  <2> QED
    BY <2>2, <2>3
<1>3. ASSUME NEW s \in Shards, NEW w \in Workers, TakeNothing(s, w) PROVE Withdrawing'
  <2> DEFINE a == [worker[s][w] EXCEPT !.at = "end"]
  <2>1. /\ worker[s][w].at = "source" /\ UNCHANGED <<tracker, late>>
        /\ a.at # "source" /\ worker' = [worker EXCEPT ![s][w] = a]
    BY <1>3 DEF TakeNothing, At, TypeOK, Thread
  <2> QED
    BY <2>1, <1>b
<1>4. ASSUME NEW s \in Shards, NEW w \in Workers, Fetch(s, w) PROVE Withdrawing'
  <2>1. \A t \in Shards : Passed(t)' = Passed(t)
    <3>1. \A t \in Shards, v \in Workers : worker'[t][v].at = "source" <=> worker[t][v].at = "source"
      BY <1>4 DEF Fetch, At, TypeOK, Idle
    <3> QED
      BY <3>1 DEF Passed
  <2> QED
    BY <2>1, <1>4 DEF Fetch, Withdrawing
<1>5. ASSUME NEW s \in Shards, Consume(s) PROVE Withdrawing'
  <2>1. UNCHANGED <<worker, late>>
        /\ \A t \in Shards : \/ tracker'[t] = tracker[t]
                             \/ tracker[t].withdrawn /\ tracker'[t].withdrawn
                             \/ ~tracker[t].withdrawn
    BY <1>5 DEF Consume, TypeOK, Tracked, Tracker
  <2>2. \A t \in Shards : Passed(t)' = Passed(t)
    BY <2>1 DEF Passed
  <2>3. \A t \in Shards : ~tracker[t].withdrawn
            => late'[t] = 0 /\ late'[t] + Cardinality(Passed(t)') <= Cardinality(Workers)
    BY <2>1, <2>2, <1>a DEF Withdrawing
  <2> QED
    BY <2>1, <2>2, <2>3 DEF Withdrawing
<1>6. ASSUME NEW s \in Shards, ConsumerStep(s) \/ Raise(s) \/ Kill(s), ~Consume(s)
      PROVE  Withdrawing'
  BY <1>6, <1>c DEF ConsumerStep, Flush, Persist, Emit, Mark, EndOfResults, Close, RaisedExit,
                    Raise, Kill
<1>7. ASSUME ParentStep \/ StopWaiting \/ ParentDies \/ UNCHANGED vars PROVE Withdrawing'
  BY <1>7, <1>c DEF ParentStep, JoinAll, StopWaiting, Reap, Terminate, RecordCrashes, Drain,
                    RecordNotAttempted, FinalizeRun, ParentDies, vars
<1> QED
  BY <1>1, <1>2, <1>3, <1>4, <1>5, <1>6, <1>7 DEF Next, WorkerStep, ConsumerStep

\* A symbol goes from a worker to the results, to the consumer and into the
\* audit, and is lost to none of them.
LEMMA HeldStep == TypeOK /\ Verdicts /\ Held /\ [Next]_vars => Held'
<1> SUFFICES ASSUME TypeOK, Verdicts, Held, [Next]_vars PROVE Held'
  OBVIOUS
<1> USE DEF queueVars, workerVars, healthVars, dataVars, parentVars, faultVars
<1> DEFINE Busy == {"flush", "persist", "emit", "mark", "raised"}
           At1(s, x) == \E w \in Workers : worker[s][w].at = "fetch" /\ worker[s][w].symbol = x
           At2(s, x) == \E i \in 1 .. Len(results[s]) : results[s][i] = x
           At3(s, x) == consumer[s].at \in Busy /\ consumer[s].symbol = x
<1>a. \A s \in Shards : /\ Len(results[s]) <= ResultsMax /\ results[s] \in Seq(Symbols)
                        /\ \A x \in Symbols : owner[x] = s /\ items[x] = {}
                                 => At1(s, x) \/ At2(s, x) \/ At3(s, x)
  <2>1. \A s \in Shards : results[s] \in Seq(Symbols)
    BY DEF TypeOK
  <2> QED
    BY <2>1 DEF Held, Unaudited
<1>b. ASSUME \A s \in Shards : /\ Len(results'[s]) <= ResultsMax
                               /\ \A x \in Symbols : (owner[x] = s)' /\ (items[x] = {})'
                                      => At1(s, x)' \/ At2(s, x)' \/ At3(s, x)'
      PROVE  Held'
  BY <1>b DEF Held, Unaudited
<1> HIDE DEF Busy
<1>c. ASSUME NEW s \in Shards, NEW w \in Workers, NEW a, worker[s][w].at # "fetch",
             worker' = [worker EXCEPT ![s][w] = a], UNCHANGED <<owner, items, results, consumer>>
      PROVE  Held'
  <2>1. \A t \in Shards, x \in Symbols : At1(t, x) => At1(t, x)'
    BY <1>c DEF TypeOK
  <2> QED
    BY <2>1, <1>a, <1>b, <1>c
<1>d. ASSUME UNCHANGED <<worker, owner, results, consumer>>,
             \A x \in Symbols : items[x] # {} => items'[x] # {}
      PROVE  Held'
  BY <1>a, <1>b, <1>d
<1>e. ASSUME UNCHANGED <<worker, owner, results>>, NEW s \in Shards, NEW c,
             consumer' = [consumer EXCEPT ![s] = c],
             \A x \in Symbols : items[x] # {} => items'[x] # {},
             consumer[s].at \in Busy =>
                \/ c.at \in Busy /\ c.symbol = consumer[s].symbol
                \/ consumer[s].symbol \in Symbols => items'[consumer[s].symbol] # {}
      PROVE  Held'
  <2>1. \A t \in Shards, x \in Symbols : At3(t, x) => At3(t, x)' \/ items'[x] # {}
    BY <1>e DEF TypeOK
  <2> QED
    BY <2>1, <1>a, <1>b, <1>e
<1>1. ASSUME NEW s \in Shards, NEW w \in Workers, Check(s, w) \/ TakeNothing(s, w) PROVE Held'
  <2>1. PICK a : worker' = [worker EXCEPT ![s][w] = a]
    BY <1>1 DEF Check, TakeNothing
  <2> QED
    BY <2>1, <1>1, <1>c DEF Check, TakeNothing, At
<1>2. ASSUME NEW s \in Shards, NEW w \in Workers, Take(s, w) PROVE Held'
  <2>1. CASE ~(got < Len(Universe))
    <3>1. PICK a : worker' = [worker EXCEPT ![s][w] = a]
      BY <1>2, <2>1 DEF Take
    <3> QED
      BY <2>1, <3>1, <1>2, <1>c DEF Take, At
  <2>2. CASE got < Len(Universe)
    <3> DEFINE y == Universe[got + 1]
    <3>1. /\ worker[s][w].at = "source" /\ worker' = [worker EXCEPT ![s][w] = [at |-> "fetch", symbol |-> y]]
          /\ owner' = [owner EXCEPT ![y] = s] /\ UNCHANGED <<items, results, consumer>>
      BY <1>2, <2>2 DEF Take, At
    <3> HIDE DEF y
    <3>2. worker'[s][w].at = "fetch" /\ worker'[s][w].symbol = y
      BY <3>1 DEF TypeOK
    <3>3. \A t \in Shards, x \in Symbols : At1(t, x) => At1(t, x)'
      BY <3>1 DEF TypeOK
    <3>4. \A t \in Shards, x \in Symbols : owner'[x] = t => owner[x] = t \/ (x = y /\ t = s)
      BY <3>1 DEF TypeOK
    <3> QED
      BY <3>1, <3>2, <3>3, <3>4, <1>a, <1>b
  <2> QED
    BY <2>1, <2>2
<1>3. ASSUME NEW s \in Shards, NEW w \in Workers, Fetch(s, w) PROVE Held'
  <2>2. PICK y \in Symbols : y = worker[s][w].symbol
    <3>1. worker[s][w] \in Thread /\ worker[s][w].at = "fetch"
      BY <1>3 DEF TypeOK, Fetch, At
    <3> QED
      BY <3>1, Records
  <2>1. /\ worker[s][w].at = "fetch" /\ Len(results[s]) < ResultsMax
        /\ results' = [results EXCEPT ![s] = Append(results[s], y)]
        /\ worker' = [worker EXCEPT ![s][w] = Idle] /\ UNCHANGED <<owner, items, consumer>>
    BY <2>2, <1>3 DEF Fetch, At
  <2>3. \A t \in Shards, x \in Symbols : At1(t, x) => At1(t, x)' \/ (t = s /\ x = y)
    BY <2>1, <2>2 DEF TypeOK
  <2>4. /\ Len(results'[s]) = Len(results[s]) + 1 /\ Len(results[s]) \in Nat
        /\ \A i \in 1 .. Len(results[s]) : results'[s][i] = results[s][i]
        /\ results'[s][Len(results[s]) + 1] = y
    BY <2>1, <2>2, <1>a, AppendProperties, LenProperties DEF TypeOK
  <2>5. \A t \in Shards : t # s => results'[t] = results[t]
    BY <2>1 DEF TypeOK
  <2>6. Len(results'[s]) <= ResultsMax
    BY <2>1, <2>4, ShardAssumption
  <2>7. At2(s, y)' /\ \A x \in Symbols : At2(s, x) => At2(s, x)'
    <3>1. \A i \in 1 .. Len(results[s]) : i \in 1 .. Len(results'[s])
      BY <2>4
    <3>2. Len(results[s]) + 1 \in 1 .. Len(results'[s])
      BY <2>4
    <3> QED
      BY <2>4, <3>1, <3>2
  <2>8. \A t \in Shards, x \in Symbols : At2(t, x) => At2(t, x)'
    BY <2>5, <2>7
  <2>9. \A t \in Shards : Len(results'[t]) <= ResultsMax
    BY <2>5, <2>6, <1>a
  <2> QED
    BY SMTT(30), <2>1, <2>3, <2>7, <2>8, <2>9, <1>a, <1>b
<1>4. ASSUME NEW s \in Shards, Consume(s) PROVE Held'
  <2>0. PICK y : y = Head(results[s])
    OBVIOUS
  <2>1. /\ consumer[s].at = "get" /\ results[s] # <<>>
        /\ results' = [results EXCEPT ![s] = Tail(results[s])]
        /\ UNCHANGED <<worker, owner, items>>
    BY <1>4 DEF Consume, Consuming
  <2>2. /\ \A t \in Shards : t # s => consumer'[t] = consumer[t]
        /\ consumer'[s].symbol = y /\ consumer'[s].at \in {"flush", "persist", "emit"}
    BY <2>0, <1>4 DEF Consume, TypeOK, Handle
  <2>3. /\ Len(results[s]) \in Nat \ {0} /\ y = results[s][1]
        /\ Len(results'[s]) = Len(results[s]) - 1
        /\ \A i \in 1 .. Len(results'[s]) : results'[s][i] = results[s][i + 1]
    BY <2>0, <2>1, <1>a, HeadTailProperties, LenProperties DEF TypeOK
  <2>4. At3(s, y)'
    BY <2>2 DEF Busy
  <2>5. \A t \in Shards : t # s => results'[t] = results[t]
    BY <2>1 DEF TypeOK
  <2>6. ASSUME NEW x \in Symbols, At2(s, x) PROVE At2(s, x)' \/ x = y
    <3>1. PICK i \in 1 .. Len(results[s]) : results[s][i] = x
      BY <2>6
    <3>2. i = 1 \/ (i - 1 \in 1 .. Len(results'[s]) /\ results'[s][i - 1] = x)
      BY <3>1, <2>3
    <3> QED
      BY <3>1, <3>2, <2>3
  <2>7. \A x \in Symbols : At3(s, x) => FALSE
    BY <2>1 DEF Busy
  <2>8. \A t \in Shards, x \in Symbols :
           At1(t, x) \/ At2(t, x) \/ At3(t, x) => At1(t, x)' \/ At2(t, x)' \/ At3(t, x)'
    <3>1. ASSUME NEW t \in Shards, t # s, NEW x \in Symbols, At1(t, x) \/ At2(t, x) \/ At3(t, x)
          PROVE  At1(t, x)' \/ At2(t, x)' \/ At3(t, x)'
      BY <3>1, <2>1, <2>2, <2>5
    <3>2. ASSUME NEW x \in Symbols, At1(s, x) \/ At2(s, x) \/ At3(s, x)
          PROVE  At1(s, x)' \/ At2(s, x)' \/ At3(s, x)'
      <4>1. At1(s, x) => At1(s, x)'
        BY <2>1
      <4> QED
        BY <4>1, <3>2, <2>4, <2>6, <2>7
    <3> QED
      BY <3>1, <3>2
  <2>9. \A t \in Shards : Len(results'[t]) <= ResultsMax
    BY <2>3, <2>5, <1>a, ShardAssumption
  <2> QED
    BY <2>1, <2>8, <2>9, <1>a, <1>b
<1>5. ASSUME NEW s \in Shards, Flush(s) \/ Persist(s) \/ EndOfResults(s) \/ Raise(s) PROVE Held'
  <2>1. PICK c : consumer' = [consumer EXCEPT ![s] = c]
    BY <1>5 DEF Flush, Persist, EndOfResults, Raise
  <2>2. UNCHANGED <<worker, owner, results, items>>
    BY <1>5 DEF Flush, Persist, EndOfResults, Raise
  <2>3. consumer[s].at \in Busy => c.at \in Busy /\ c.symbol = consumer[s].symbol
    <3>1. consumer'[s] = c
      BY <2>1 DEF TypeOK
    <3>2. consumer[s] \in Main
      BY DEF TypeOK
    <3>3. CASE Flush(s)
      BY <3>1, <3>2, <3>3 DEF Flush, Handle, TypeOK, Busy, Main
    <3>4. CASE Persist(s)
      <4>1. PICK sent \in BOOLEAN : consumer' = [consumer EXCEPT ![s].at = "emit", ![s].saved = sent]
        BY <3>4 DEF Persist
      <4>2. consumer'[s] = [consumer[s] EXCEPT !.at = "emit", !.saved = sent]
        BY <4>1 DEF TypeOK
      <4> QED
        BY <3>1, <3>2, <4>2 DEF Busy, Main
    <3>5. CASE EndOfResults(s)
      BY <3>5 DEF EndOfResults, Consuming, Busy
    <3>6. CASE Raise(s)
      BY <3>1, <3>2, <3>6 DEF Raise, TypeOK, Busy, Main
    <3> QED
      BY <3>3, <3>4, <3>5, <3>6, <1>5
  <2> QED
    BY <2>1, <2>2, <2>3, <1>e
<1>6. ASSUME NEW s \in Shards, Emit(s) PROVE Held'
  <2> DEFINE y == consumer[s].symbol
  <2>1. /\ UNCHANGED <<worker, owner, results>>
        /\ items' = [items EXCEPT ![y] = @ \cup Cells(fate[y], consumer[s].saved)]
    BY <1>6 DEF Emit
  <2>2. PICK c : consumer' = [consumer EXCEPT ![s] = c]
    BY <1>6 DEF Emit
  <2>3. Cells(fate[y], consumer[s].saved) # {}
    BY DEF Cells
  <2>4. /\ \A x \in Symbols : items[x] # {} => items'[x] # {}
        /\ y \in Symbols => items'[y] # {}
    BY <2>1, <2>3 DEF TypeOK
  <2> QED
    BY <2>1, <2>2, <2>4, <1>e
<1>7. ASSUME NEW s \in Shards, Mark(s) PROVE Held'
  <2>1. UNCHANGED <<worker, owner, results, items>> /\ consumer' = [consumer EXCEPT ![s] = Waiting]
        /\ consumer[s].at = "mark"
    BY <1>7 DEF Mark, Consuming
  <2>2. items[consumer[s].symbol] # {}
    BY <2>1 DEF Verdicts
  <2> QED
    BY <2>1, <2>2, <1>e
<1>8. ASSUME NEW s \in Shards, Close(s) \/ RaisedExit(s) \/ Kill(s) PROVE Held'
  BY <1>8, <1>d DEF Close, RaisedExit, Kill
<1>9. ASSUME ParentStep \/ StopWaiting \/ ParentDies \/ UNCHANGED vars PROVE Held'
  <2>1. /\ UNCHANGED <<worker, owner, results, consumer>>
        /\ \/ UNCHANGED items
           \/ items' = [x \in Symbols |->
                          IF x \in leftover THEN items[x] \cup {"not_attempted"} ELSE items[x]]
    BY <1>9 DEF ParentStep, JoinAll, StopWaiting, Reap, Terminate, RecordCrashes, Drain,
                RecordNotAttempted, FinalizeRun, ParentDies, vars
  <2>2. \A x \in Symbols : items[x] # {} => items'[x] # {}
    BY <2>1
  <2> QED
    BY <2>1, <2>2, <1>d
<1> QED
  BY <1>1, <1>2, <1>3, <1>4, <1>5, <1>6, <1>7, <1>8, <1>9 DEF Next, WorkerStep, ConsumerStep

\* Loads is inductive on top of Core.
LEMMA LoadsHold == Spec => [](TypeOK /\ Core /\ Loads)
<1>1. Init => Loads
  <2> SUFFICES ASSUME Init PROVE Loads
    OBVIOUS
  <2>1. \A s \in Shards : tracker[s].withdrawn = FALSE /\ late[s] = 0
    BY DEF Init
  <2>2. \A s \in Shards : Len(results[s]) <= ResultsMax /\ Unaudited(s) = {}
    BY ShardAssumption DEF Init, Unaudited
  <2> QED
    BY <2>1, <2>2 DEF Loads, Withdrawing, Held
<1>2. TypeOK /\ Core /\ Loads /\ [Next]_vars => (TypeOK /\ Core /\ Loads)'
  BY StepType, CoreStep, WithdrawingStep, HeldStep DEF Core, Loads
<1>3. Init => TypeOK /\ Core /\ Loads
  BY <1>1, InitType, InitCore
<1> QED
  BY <1>2, <1>3, PTL DEF Spec

\* A withdrawn shard takes at most one symbol per worker.
THEOREM WithdrawalIsPrompt == Spec => []WithdrawBounded
<1>1. TypeOK /\ Loads => WithdrawBounded
  <2> SUFFICES ASSUME TypeOK, Loads, NEW s \in Shards PROVE late[s] <= Cardinality(Workers)
    BY DEF WithdrawBounded
  <2>1. Passed(s) \in SUBSET Workers /\ late[s] \in Nat
    BY DEF Passed, TypeOK
  <2>2. Cardinality(Passed(s)) \in Nat /\ Cardinality(Workers) \in Nat
    BY <2>1, PassedFinite
  <2>3. \/ late[s] + Cardinality(Passed(s)) <= Cardinality(Workers)
        \/ late[s] = 0
    BY DEF Loads, Withdrawing
  <2> QED
    BY <2>1, <2>2, <2>3
<1> QED
  BY <1>1, LoadsHold, PTL

\* What a shard has taken and not audited is with a worker, in the results or
\* with the consumer, so their sizes bound it.
LEMMA UnauditedBounded ==
    ASSUME TypeOK, Held, NEW s \in Shards
    PROVE  Cardinality(Unaudited(s)) <= ResultsMax + Cardinality(Workers) + 1
<1> DEFINE F == Fetched(s)
           R == InResults(s)
           C == {consumer[s].symbol}
<1>1. IsFiniteSet(F) /\ Cardinality(F) <= Cardinality(Workers)
  <2> DEFINE f == [w \in Workers |-> worker[s][w].symbol]
  <2>1. f \in Surjection(Workers, F)
    BY DEF Surjection, Fetched
  <2> QED
    BY <2>1, ShardAssumption, FS_Surjection
<1>2. results[s] \in Seq(Symbols) /\ Len(results[s]) \in Nat
  BY LenProperties DEF TypeOK
<1>3. IsFiniteSet(R) /\ Cardinality(R) <= Len(results[s])
  <2> DEFINE f == [i \in 1 .. Len(results[s]) |-> results[s][i]]
  <2>1. f \in Surjection(1 .. Len(results[s]), R)
    BY DEF Surjection, InResults
  <2>2. IsFiniteSet(1 .. Len(results[s])) /\ Cardinality(1 .. Len(results[s])) = Len(results[s])
    BY <1>2, FS_Interval
  <2> HIDE DEF f
  <2> QED
    BY <2>1, <2>2, FS_Surjection
<1>4. IsFiniteSet(C) /\ Cardinality(C) = 1
  BY FS_Singleton
<1> HIDE DEF F, R, C
<1>5. IsFiniteSet(F \cup R) /\ Cardinality(F \cup R) <= Cardinality(F) + Cardinality(R)
  BY <1>1, <1>3, UnionBound
<1>6. /\ IsFiniteSet((F \cup R) \cup C)
      /\ Cardinality((F \cup R) \cup C) <= Cardinality(F \cup R) + Cardinality(C)
  BY <1>4, <1>5, UnionBound
<1>7. Unaudited(s) \subseteq (F \cup R) \cup C
  BY DEF Held, Unaudited, F, R, C, Fetched, InResults
<1>8. IsFiniteSet(Unaudited(s)) /\ Cardinality(Unaudited(s)) <= Cardinality((F \cup R) \cup C)
  BY <1>6, <1>7, FS_Subset
<1>9. /\ Cardinality(F) \in Nat /\ Cardinality(R) \in Nat /\ Cardinality(F \cup R) \in Nat
      /\ Cardinality((F \cup R) \cup C) \in Nat /\ Cardinality(Unaudited(s)) \in Nat
      /\ Cardinality(Workers) \in Nat
  BY <1>1, <1>3, <1>5, <1>6, <1>8, FS_CardinalityType, ShardAssumption
<1>10. Len(results[s]) <= ResultsMax
  BY DEF Held
<1> QED
  BY <1>1, <1>2, <1>3, <1>4, <1>5, <1>6, <1>8, <1>9, <1>10, ShardAssumption

\* Whatever its consumer does, or no longer does, a shard never has more
\* symbols taken and not audited than its queue, its workers and one.
THEOREM BacklogIsBounded == Spec => []BacklogHolds
<1>1. TypeOK /\ Core /\ Loads => BacklogHolds
  BY UnauditedBounded DEF Core, Loads, Unaudited, Backpressure, BacklogHolds
<1> QED
  BY <1>1, LoadsHold, PTL

--------------------------------------------------------------------------------
(* What the datasets do to the database. *)

\* A key and a row as they are built, with the fields of the model and no other.
IsKey(k) == k = [owner |-> k.owner, day |-> k.day, part |-> k.part, item |-> k.item]
IsRow(r) ==
    /\ r = [key |-> r.key, c |-> r.c, d |-> r.d, e |-> r.e, known |-> r.known, seen |-> r.seen]
    /\ IsKey(r.key)
\* A table: rows, one for a key.
IsTable(S) == /\ \A r \in S : IsRow(r)
              /\ \A r, s \in S : r.key = s.key => r = s

\* A statement as the datasets make them: its rows are one for a key, those of a
\* replaced scope lie in it, and only an upsert has rows it touches alone.
SoundStmt(s) ==
    /\ s.w \in WriteShape
    /\ IsTable(s.rows \cup s.touched) /\ Keys(s.rows) \cap Keys(s.touched) = {}
    /\ s.w.mode = "replace" => s.touched = {} /\ \A n \in s.rows : InScope(n.key, s.w, s.scopes)

\* Answering a row with its like changes nothing but the time it was seen.
LEMMA SeenRow ==
    ASSUME NEW o, NEW n, IsRow(o)
    PROVE  Seen(o, n) = [key |-> o.key, c |-> o.c, d |-> o.d, e |-> o.e, known |-> o.known, seen |-> n.seen]
  BY DEF Seen, IsRow

\* Rows have the same content when their key, their columns and their flag agree.
LEMMA ContentFields ==
    \A r, q : Content(r) = Content(q) <=> r.key = q.key /\ r.c = q.c /\ r.d = q.d /\ r.e = q.e /\ r.known = q.known
  BY DEF Content

\* In tables of the same contents every row has its like.
LEMMA ContentsSame ==
    ASSUME NEW S, NEW P, Contents(S) = Contents(P), NEW r \in S
    PROVE  \E q \in P : r.key = q.key /\ r.c = q.c /\ r.d = q.d /\ r.e = q.e /\ r.known = q.known
  <1>1. Content(r) \in Contents(P)  BY DEF Contents
  <1>2. PICK q \in P : Content(r) = Content(q)  BY <1>1 DEF Contents
  <1> QED  BY <1>2, ContentFields

\* A table whose rows all have their like in another says no more than it.
LEMMA ContentsFrom ==
    ASSUME NEW S, NEW P,
           \A r \in S : \E q \in P : r.key = q.key /\ r.c = q.c /\ r.d = q.d /\ r.e = q.e /\ r.known = q.known
    PROVE  Contents(S) \subseteq Contents(P)
  <1> SUFFICES ASSUME NEW r \in S PROVE Content(r) \in Contents(P)  BY DEF Contents
  <1>1. PICK q \in P : r.key = q.key /\ r.c = q.c /\ r.d = q.d /\ r.e = q.e /\ r.known = q.known  OBVIOUS
  <1>2. Content(r) = Content(q)  BY <1>1, ContentFields
  <1> QED  BY <1>2 DEF Contents

\* The pairs of a join are a stored row and a new one of the same key.
LEMMA PairForms ==
    ASSUME NEW T, NEW S
    PROVE  /\ \A p \in Pairs(T, S) : p = <<p[1], p[2]>> /\ p[1] \in T /\ p[2] \in S /\ p[1].key = p[2].key
           /\ \A o \in T, n \in S : o.key = n.key =>
                 \E p \in Pairs(T, S) : p = <<o, n>> /\ p[1] = o /\ p[2] = n
<1>1. ASSUME NEW p \in Pairs(T, S)
      PROVE  p = <<p[1], p[2]>> /\ p[1] \in T /\ p[2] \in S /\ p[1].key = p[2].key
  BY DEF Pairs
<1>2. ASSUME NEW o \in T, NEW n \in S, o.key = n.key
      PROVE  \E p \in Pairs(T, S) : p = <<o, n>> /\ p[1] = o /\ p[2] = n
  <2> <<o, n>> \in Pairs(T, S)  BY <1>2 DEF Pairs
  <2> <<o, n>>[1] = o /\ <<o, n>>[2] = n  OBVIOUS
  <2> QED  OBVIOUS
<1> QED  BY <1>1, <1>2

\* Where a row comes from that is stored after a statement.
Arises(T, s, r) ==
    \/ r \in T /\ r.key \notin Keys(s.rows \cup s.touched) /\ r \notin Removed(T, s)
    \/ r \in New(T, s.rows)
    \/ \E o \in T, n \in s.rows : <<o, n>> \in Moved(T, s) /\ r = Update(o, n, s.w)
    \/ \E o \in T, n \in s.rows : o.key = n.key /\ <<o, n>> \notin Moved(T, s) /\ r = Seen(o, n)
    \/ \E o \in T, n \in s.touched : o.key = n.key /\ r = Seen(o, n)

\* How a row comes to be in a table after a statement executed naively.
PlainlyArises(T, s, r) ==
    \/ r \in T \ Replaced(T, s) /\ r.key \notin Keys(s.rows \cup s.touched)
    \/ r \in New(T \ Replaced(T, s), s.rows)
    \/ \E o \in T \ Replaced(T, s), n \in s.rows : o.key = n.key /\ r = Upserted(o, n, s.w)
    \/ \E o \in T \ Replaced(T, s), n \in s.touched : o.key = n.key /\ r = Seen(o, n)

\* CollectedWrite leaves the rows of Arises and no others.
LEMMA Written ==
    ASSUME NEW T, NEW s, NEW r
    PROVE  r \in CollectedWrite(T, s) <=> Arises(T, s, r)
<1> DEFINE answered == Keys(s.rows \cup s.touched)
<1>1. r \in Returned(T, s) <=>
        r \in New(T, s.rows) \/ \E o \in T, n \in s.rows : <<o, n>> \in Moved(T, s) /\ r = Update(o, n, s.w)
  <2>1. \A p \in Moved(T, s) : p = <<p[1], p[2]>> /\ p[1] \in T /\ p[2] \in s.rows
    BY DEF Moved, Pairs
  <2> QED  BY <2>1 DEF Returned
<1>2. r \in TouchVolatile(T, s) <=>
        \E o \in T, n \in s.rows : o.key = n.key /\ <<o, n>> \notin Moved(T, s) /\ r = Seen(o, n)
  <2>1. ASSUME r \in TouchVolatile(T, s)
        PROVE  \E o \in T, n \in s.rows : o.key = n.key /\ <<o, n>> \notin Moved(T, s) /\ r = Seen(o, n)
    <3>1. PICK p \in Pairs(T, s.rows) \ Moved(T, s) : r = Seen(p[1], p[2])  BY <2>1 DEF TouchVolatile
    <3>2. p[1] \in T /\ p[2] \in s.rows /\ p[1].key = p[2].key /\ <<p[1], p[2]>> \notin Moved(T, s)
      BY <3>1, PairForms
    <3> QED  BY <3>1, <3>2
  <2>2. ASSUME NEW o \in T, NEW n \in s.rows, o.key = n.key, <<o, n>> \notin Moved(T, s), r = Seen(o, n)
        PROVE  r \in TouchVolatile(T, s)
    <3>1. PICK p \in Pairs(T, s.rows) : p = <<o, n>> /\ p[1] = o /\ p[2] = n  BY <2>2, PairForms
    <3> QED  BY <2>2, <3>1 DEF TouchVolatile
  <2> QED  BY <2>1, <2>2
<1>3. r \in {Seen(p[1], p[2]) : p \in Pairs(T, s.touched)} <=>
        \E o \in T, n \in s.touched : o.key = n.key /\ r = Seen(o, n)
  BY PairForms
<1>4. r \in CollectedWrite(T, s) <=>
        \/ r \in T /\ r.key \notin answered /\ r \notin Removed(T, s)
        \/ r \in Returned(T, s) \/ r \in TouchVolatile(T, s)
        \/ r \in {Seen(p[1], p[2]) : p \in Pairs(T, s.touched)}
  BY DEF CollectedWrite
<1> QED  BY <1>1, <1>2, <1>3, <1>4 DEF Arises

\* PlainWrite leaves the rows of PlainlyArises and no others.
LEMMA PlainlyWritten ==
    ASSUME NEW T, NEW s, NEW r
    PROVE  r \in PlainWrite(T, s) <=> PlainlyArises(T, s, r)
<1> DEFINE left == T \ Replaced(T, s)
<1>1. r \in {Upserted(p[1], p[2], s.w) : p \in Pairs(left, s.rows)} <=>
        \E o \in left, n \in s.rows : o.key = n.key /\ r = Upserted(o, n, s.w)
  BY PairForms
<1>2. r \in {Seen(p[1], p[2]) : p \in Pairs(left, s.touched)} <=>
        \E o \in left, n \in s.touched : o.key = n.key /\ r = Seen(o, n)
  BY PairForms
<1>3. r \in PlainWrite(T, s) <=>
        \/ r \in left /\ r.key \notin Keys(s.rows \cup s.touched)
        \/ r \in New(left, s.rows)
        \/ r \in {Upserted(p[1], p[2], s.w) : p \in Pairs(left, s.rows)}
        \/ r \in {Seen(p[1], p[2]) : p \in Pairs(left, s.touched)}
  BY DEF PlainWrite
<1> QED  BY <1>1, <1>2, <1>3 DEF PlainlyArises


\* A row is moved when a column the statement compares, or the flag, differs.
LEMMA MovedPairs ==
    ASSUME NEW T, NEW s, NEW o, NEW n, s.w \in WriteShape
    PROVE  <<o, n>> \in Moved(T, s) <=>
             /\ o \in T /\ n \in s.rows /\ o.key = n.key
             /\ \/ "c" \in Effective(s.w) /\ o.c # n.c
                \/ "d" \in Effective(s.w) /\ o.d # n.d
                \/ "e" \in Effective(s.w) /\ o.e # n.e
                \/ o.known # n.known
<1>1. <<o, n>> \in Pairs(T, s.rows) <=> o \in T /\ n \in s.rows /\ o.key = n.key  BY DEF Pairs
<1>2. <<o, n>>[1] = o /\ <<o, n>>[2] = n  OBVIOUS
<1>3. Effective(s.w) \subseteq {"c", "d", "e"}  BY DEF Effective, WriteShape
<1> QED  BY <1>1, <1>2, <1>3 DEF Moved

\* The rows after a statement are a table again.
LEMMA WriteTable ==
    ASSUME NEW T, NEW s, IsTable(T), SoundStmt(s)
    PROVE  IsTable(CollectedWrite(T, s))
<1> DEFINE A == s.rows \cup s.touched
<1> DEFINE Unanswered(r) == r \in T /\ r.key \notin Keys(A)
<1> DEFINE Inserted(r) == r \in s.rows /\ r.key \notin Keys(T)
<1> DEFINE Changed(r) == \E o \in T, n \in s.rows : /\ o.key = n.key /\ <<o, n>> \in Moved(T, s)
                                                  /\ r = Update(o, n, s.w) /\ r.key = o.key
<1> DEFINE Kept(r) == \E o \in T, n \in s.rows : /\ o.key = n.key /\ <<o, n>> \notin Moved(T, s)
                                               /\ r = Seen(o, n) /\ r.key = o.key
<1> DEFINE Touched(r) == \E o \in T, n \in s.touched : o.key = n.key /\ r = Seen(o, n) /\ r.key = o.key
<1>1. /\ \A r \in A : IsRow(r)
      /\ \A q, r \in A : q.key = r.key => q = r
      /\ \A q \in s.rows, r \in s.touched : q.key # r.key
  BY DEF SoundStmt, IsTable, Keys
<1>2. /\ \A r \in T : IsRow(r)
      /\ \A q, r \in T : q.key = r.key => q = r
  BY DEF IsTable
<1>3. \A o, n : IsRow(o) => /\ IsRow(Update(o, n, s.w)) /\ Update(o, n, s.w).key = o.key
                           /\ IsRow(Seen(o, n)) /\ Seen(o, n).key = o.key
  <2> SUFFICES ASSUME NEW o, NEW n, IsRow(o)
               PROVE  /\ IsRow(Update(o, n, s.w)) /\ Update(o, n, s.w).key = o.key
                      /\ IsRow(Seen(o, n)) /\ Seen(o, n).key = o.key
    OBVIOUS
  <2>1. IsRow(Update(o, n, s.w)) /\ Update(o, n, s.w).key = o.key  BY DEF Update, IsRow
  <2>2. IsRow(Seen(o, n)) /\ Seen(o, n).key = o.key  BY SeenRow DEF IsRow
  <2> QED  BY <2>1, <2>2
<1>4. ASSUME NEW r \in CollectedWrite(T, s)
      PROVE  IsRow(r) /\ (Unanswered(r) \/ Inserted(r) \/ Changed(r) \/ Kept(r) \/ Touched(r))
  <2>1. CASE Unanswered(r)  BY <2>1, <1>2
  <2>2. ASSUME r \in New(T, s.rows) PROVE IsRow(r) /\ Inserted(r)  BY <2>2, <1>1 DEF New
  <2>3. ASSUME NEW o \in T, NEW n \in s.rows, <<o, n>> \in Moved(T, s), r = Update(o, n, s.w)
        PROVE  IsRow(r) /\ Changed(r)
    <3>1. o.key = n.key  BY <2>3, MovedPairs DEF SoundStmt
    <3> QED  BY <2>3, <3>1, <1>2, <1>3
  <2>4. ASSUME NEW o \in T, NEW n \in s.rows, o.key = n.key, <<o, n>> \notin Moved(T, s), r = Seen(o, n)
        PROVE  IsRow(r) /\ Kept(r)
    BY <2>4, <1>2, <1>3
  <2>5. ASSUME NEW o \in T, NEW n \in s.touched, o.key = n.key, r = Seen(o, n)
        PROVE  IsRow(r) /\ Touched(r)
    BY <2>5, <1>2, <1>3
  <2>6. Arises(T, s, r)  BY Written
  <2> HIDE DEF Changed, Kept, Touched
  <2> QED  BY <2>1, <2>2, <2>3, <2>4, <2>5, <2>6 DEF Arises
<1>5. ASSUME NEW n \in A, NEW r \in CollectedWrite(T, s), r.key = n.key, n.key \notin Keys(T)
      PROVE  r = n
  <2>1. r.key \in Keys(A)  BY <1>5 DEF Keys
  <2>2. \A o \in T : o.key # r.key  BY <1>5 DEF Keys
  <2>3. r \in A  BY <1>4, <2>1, <2>2
  <2> QED  BY <2>3, <1>1, <1>5
<1>6. ASSUME NEW n \in A, NEW o \in T, o.key = n.key, NEW r \in CollectedWrite(T, s), r.key = n.key
      PROVE  r = IF n \in s.rows /\ <<o, n>> \in Moved(T, s) THEN Update(o, n, s.w) ELSE Seen(o, n)
  <2>1. ~Unanswered(r) /\ ~Inserted(r)  BY <1>6 DEF Keys
  <2>2. ASSUME NEW p \in T, NEW m \in s.rows, p.key = m.key, r.key = p.key
        PROVE  p = o /\ m = n
    BY <2>2, <1>1, <1>2, <1>6
  <2>3. CASE Changed(r)  BY <2>2, <2>3
  <2>4. CASE Kept(r)  BY <2>2, <2>4
  <2>5. ASSUME NEW p \in T, NEW m \in s.touched, p.key = m.key, r.key = p.key
        PROVE  p = o /\ m = n /\ n \notin s.rows
    BY <2>5, <1>1, <1>2, <1>6
  <2>6. CASE Touched(r)  BY <2>5, <2>6
  <2> QED  BY <1>4, <2>1, <2>3, <2>4, <2>6
<1>7. ASSUME NEW q \in CollectedWrite(T, s), NEW r \in CollectedWrite(T, s), q.key = r.key
      PROVE  q = r
  <2>1. CASE q.key \notin Keys(A)
    <3>1. \A n \in A : n.key # q.key  BY <2>1 DEF Keys
    <3>2. Unanswered(q) /\ Unanswered(r)  BY <3>1, <1>4, <1>7
    <3> QED  BY <3>2, <1>2, <1>7
  <2>2. CASE q.key \in Keys(A)
    <3>1. PICK n \in A : n.key = q.key  BY <2>2 DEF Keys
    <3>2. CASE n.key \notin Keys(T)  BY <3>1, <3>2, <1>5, <1>7
    <3>3. ASSUME NEW o \in T, o.key = n.key PROVE q = r  BY <3>1, <3>3, <1>6, <1>7
    <3> QED  BY <3>2, <3>3 DEF Keys
  <2> QED  BY <2>1, <2>2
<1> QED  BY <1>4, <1>7 DEF IsTable

\* The naive execution, too, leaves one row for a key.
LEMMA PlainTable ==
    ASSUME NEW T, NEW s, IsTable(T), SoundStmt(s)
    PROVE  IsTable(PlainWrite(T, s))
<1> DEFINE A == s.rows \cup s.touched
<1> DEFINE L == T \ Replaced(T, s)
<1>1. /\ \A r \in A : IsRow(r)
      /\ \A q, r \in A : q.key = r.key => q = r
      /\ \A q \in s.rows, r \in s.touched : q.key # r.key
  BY DEF SoundStmt, IsTable, Keys
<1>2. /\ \A r \in L : IsRow(r)
      /\ \A q, r \in L : q.key = r.key => q = r
  BY DEF IsTable
<1>3. ASSUME NEW o, NEW n, IsRow(o)
      PROVE  /\ IsRow(Upserted(o, n, s.w)) /\ Upserted(o, n, s.w).key = o.key
             /\ IsRow(Seen(o, n)) /\ Seen(o, n).key = o.key
  <2>1. IsRow(Upserted(o, n, s.w)) /\ Upserted(o, n, s.w).key = o.key  BY <1>3 DEF Upserted, IsRow
  <2>2. IsRow(Seen(o, n)) /\ Seen(o, n).key = o.key  BY <1>3, SeenRow DEF IsRow
  <2> QED  BY <2>1, <2>2
<1> DEFINE Unanswered(r) == r \in L /\ r.key \notin Keys(A)
<1> DEFINE Inserted(r) == r \in s.rows /\ r.key \notin Keys(L)
<1> DEFINE Changed(r) == \E o \in L, n \in s.rows : o.key = n.key /\ r = Upserted(o, n, s.w) /\ r.key = o.key
<1> DEFINE Touched(r) == \E o \in L, n \in s.touched : o.key = n.key /\ r = Seen(o, n) /\ r.key = o.key
<1>4. ASSUME NEW r \in PlainWrite(T, s)
      PROVE  IsRow(r) /\ (Unanswered(r) \/ Inserted(r) \/ Changed(r) \/ Touched(r))
  <2>1. CASE Unanswered(r)  BY <2>1, <1>2
  <2>2. ASSUME r \in New(L, s.rows) PROVE IsRow(r) /\ Inserted(r)  BY <2>2, <1>1 DEF New
  <2>3. ASSUME NEW o \in L, NEW n \in s.rows, o.key = n.key, r = Upserted(o, n, s.w)
        PROVE  IsRow(r) /\ Changed(r)
    BY <2>3, <1>2, <1>3
  <2>4. ASSUME NEW o \in L, NEW n \in s.touched, o.key = n.key, r = Seen(o, n)
        PROVE  IsRow(r) /\ Touched(r)
    BY <2>4, <1>2, <1>3
  <2>5. PlainlyArises(T, s, r)  BY PlainlyWritten
  <2> HIDE DEF Changed, Touched
  <2> QED  BY <2>1, <2>2, <2>3, <2>4, <2>5 DEF PlainlyArises
<1>5. ASSUME NEW n \in A, NEW r \in PlainWrite(T, s), r.key = n.key, n.key \notin Keys(L)
      PROVE  r = n
  <2>1. r.key \in Keys(A)  BY <1>5 DEF Keys
  <2>2. \A o \in L : o.key # r.key  BY <1>5 DEF Keys
  <2>3. r \in A  BY <1>4, <2>1, <2>2
  <2> QED  BY <2>3, <1>1, <1>5
<1>6. ASSUME NEW n \in A, NEW o \in L, o.key = n.key, NEW r \in PlainWrite(T, s), r.key = n.key
      PROVE  r = IF n \in s.rows THEN Upserted(o, n, s.w) ELSE Seen(o, n)
  <2>1. ~Unanswered(r) /\ ~Inserted(r)  BY <1>6 DEF Keys
  <2>2. ASSUME NEW p \in L, NEW m \in s.rows, p.key = m.key, r.key = p.key
        PROVE  p = o /\ m = n
    BY <2>2, <1>1, <1>2, <1>6
  <2>3. CASE Changed(r)  BY <2>2, <2>3
  <2>5. ASSUME NEW p \in L, NEW m \in s.touched, p.key = m.key, r.key = p.key
        PROVE  p = o /\ m = n /\ n \notin s.rows
    BY <2>5, <1>1, <1>2, <1>6
  <2>6. CASE Touched(r)  BY <2>5, <2>6
  <2> QED  BY <1>4, <2>1, <2>3, <2>6
<1>7. ASSUME NEW q \in PlainWrite(T, s), NEW r \in PlainWrite(T, s), q.key = r.key
      PROVE  q = r
  <2>1. CASE q.key \notin Keys(A)
    <3>1. \A n \in A : n.key # q.key  BY <2>1 DEF Keys
    <3>2. Unanswered(q) /\ Unanswered(r)  BY <3>1, <1>4, <1>7
    <3> QED  BY <3>2, <1>2, <1>7
  <2>2. CASE q.key \in Keys(A)
    <3>1. PICK n \in A : n.key = q.key  BY <2>2 DEF Keys
    <3>2. CASE n.key \notin Keys(L)  BY <3>1, <3>2, <1>5, <1>7
    <3>3. ASSUME NEW o \in L, o.key = n.key PROVE q = r  BY <3>1, <3>3, <1>6, <1>7
    <3> QED  BY <3>2, <3>3 DEF Keys
  <2> QED  BY <2>1, <2>2
<1> QED  BY <1>4, <1>7 DEF IsTable

\* The comparison that skips rows which have not changed loses nothing: on tables
\* of the same contents the writer and the naive execution leave the same contents.
LEMMA SameContents ==
    ASSUME NEW T, NEW P, NEW s, IsTable(T), IsTable(P), SoundStmt(s), Contents(T) = Contents(P)
    PROVE  Contents(CollectedWrite(T, s)) = Contents(PlainWrite(P, s))
<1> DEFINE Alike(r, q) == r.key = q.key /\ r.c = q.c /\ r.d = q.d /\ r.e = q.e /\ r.known = q.known
<1> DEFINE answered == Keys(s.rows \cup s.touched)
<1>1. \A r \in T : \E q \in P : Alike(r, q)  BY ContentsSame
<1>2. \A q \in P : \E r \in T : Alike(r, q)
  <2> SUFFICES ASSUME NEW q \in P PROVE \E r \in T : Alike(r, q)  OBVIOUS
  <2> QED  BY ContentsSame
<1>3. Keys(T) = Keys(P)  BY <1>1, <1>2 DEF Keys
<1>4. \A n \in s.rows \cup s.touched : n.key \in answered  BY DEF Keys
<1>5. s.w.mode = "replace" => /\ s.touched = {}
                             /\ \A o \in P, n \in s.rows : o.key = n.key => o \in Replaced(P, s)
  BY DEF SoundStmt, Replaced
<1>6. s.w.mode # "replace" => Replaced(P, s) = {} /\ Replaced(T, s) = {} /\ Effective(s.w) = s.w.update
  BY DEF Replaced, Effective
<1>7. s.w.mode = "replace" => Effective(s.w) = {"c", "d", "e"}  BY DEF Effective
<1>8. ASSUME s.w.mode = "replace", NEW n \in s.rows
      PROVE  n \in PlainWrite(P, s)
  <2>1. n.key \notin Keys(P \ Replaced(P, s))  BY <1>5, <1>8 DEF Keys
  <2> QED  BY <2>1, PlainlyWritten, <1>8 DEF New, PlainlyArises
<1>9. ASSUME NEW r \in CollectedWrite(T, s)
      PROVE  \E q \in PlainWrite(P, s) : Alike(r, q)
  <2>1. CASE r \in T /\ r.key \notin answered /\ r \notin Removed(T, s)
    <3>1. PICK q \in P : Alike(r, q)  BY <1>1, <2>1
    <3>2. q \notin Replaced(P, s)
      <4> SUFFICES ASSUME q \in Replaced(P, s) PROVE FALSE  OBVIOUS
      <4>1. r \in Replaced(T, s)  BY <2>1, <3>1 DEF Replaced
      <4>2. r.key \in Keys(s.rows)  BY <2>1, <4>1 DEF Removed
      <4> QED  BY <2>1, <4>2 DEF Keys
    <3>3. q \in PlainWrite(P, s)  BY <2>1, <3>1, <3>2, PlainlyWritten DEF PlainlyArises
    <3> QED  BY <3>1, <3>3
  <2>2. CASE r \in New(T, s.rows)
    <3>1. r \in s.rows /\ r.key \notin Keys(P)  BY <2>2, <1>3 DEF New
    <3>2. r \in New(P \ Replaced(P, s), s.rows)  BY <3>1 DEF New, Keys
    <3>3. r \in PlainWrite(P, s)  BY <3>2, PlainlyWritten DEF PlainlyArises
    <3> QED  BY <3>3
  <2>3. ASSUME NEW o \in T, NEW n \in s.rows, o.key = n.key, r.key = o.key, r.known = n.known,
               r.c = IF "c" \in Effective(s.w) THEN n.c ELSE o.c,
               r.d = IF "d" \in Effective(s.w) THEN n.d ELSE o.d,
               r.e = IF "e" \in Effective(s.w) THEN n.e ELSE o.e
        PROVE  \E q \in PlainWrite(P, s) : Alike(r, q)
    <3>1. CASE s.w.mode = "replace"  BY <1>7, <1>8, <2>3, <3>1
    <3>2. CASE s.w.mode # "replace"
      <4>1. PICK q \in P : Alike(o, q)  BY <1>1
      <4>2. Upserted(q, n, s.w) \in PlainWrite(P, s)
        BY <1>6, <2>3, <3>2, <4>1, PlainlyWritten DEF PlainlyArises
      <4>3. Alike(r, Upserted(q, n, s.w))  BY <1>6, <2>3, <3>2, <4>1 DEF Upserted
      <4> QED  BY <4>2, <4>3
    <3> QED  BY <3>1, <3>2
  <2>4. ASSUME NEW o \in T, NEW n \in s.rows, <<o, n>> \in Moved(T, s), r = Update(o, n, s.w)
        PROVE  \E q \in PlainWrite(P, s) : Alike(r, q)
    <3>1. o.key = n.key  BY <2>4, MovedPairs DEF SoundStmt
    <3>2. /\ r.key = o.key /\ r.known = n.known
          /\ r.c = IF "c" \in Effective(s.w) THEN n.c ELSE o.c
          /\ r.d = IF "d" \in Effective(s.w) THEN n.d ELSE o.d
          /\ r.e = IF "e" \in Effective(s.w) THEN n.e ELSE o.e
      BY <2>4 DEF Update
    <3> QED  BY <2>3, <3>1, <3>2
  <2>5. ASSUME NEW o \in T, NEW n \in s.rows, o.key = n.key, <<o, n>> \notin Moved(T, s), r = Seen(o, n)
        PROVE  \E q \in PlainWrite(P, s) : Alike(r, q)
    <3>1. /\ "c" \in Effective(s.w) => o.c = n.c
          /\ "d" \in Effective(s.w) => o.d = n.d
          /\ "e" \in Effective(s.w) => o.e = n.e
          /\ o.known = n.known
      BY <2>5, MovedPairs DEF SoundStmt
    <3>2. r.key = o.key /\ r.c = o.c /\ r.d = o.d /\ r.e = o.e /\ r.known = o.known  BY <2>5, SeenRow DEF IsTable
    <3> QED  BY <2>3, <2>5, <3>1, <3>2
  <2>6. ASSUME NEW o \in T, NEW n \in s.touched, o.key = n.key, r = Seen(o, n)
        PROVE  \E q \in PlainWrite(P, s) : Alike(r, q)
    <3>1. PICK q \in P : Alike(o, q)  BY <1>1
    <3>2. Seen(q, n) \in PlainWrite(P, s)  BY <1>5, <1>6, <2>6, <3>1, PlainlyWritten DEF PlainlyArises
    <3>3. Alike(o, r) /\ Alike(q, Seen(q, n))  BY <2>6, SeenRow DEF IsTable
    <3> QED  BY <3>1, <3>2, <3>3
  <2>7. Arises(T, s, r)  BY Written
  <2> QED  BY <2>1, <2>2, <2>4, <2>5, <2>6, <2>7 DEF Arises
<1>10. ASSUME NEW q \in PlainWrite(P, s)
       PROVE  \E r \in CollectedWrite(T, s) : Alike(q, r)
  <2>1. ASSUME NEW n \in s.rows, s.w.mode = "replace", q = n
        PROVE  \E r \in CollectedWrite(T, s) : Alike(q, r)
    <3>1. CASE n.key \notin Keys(T)
      <4>1. n \in CollectedWrite(T, s)  BY <3>1, Written DEF New, Arises
      <4> QED  BY <2>1, <4>1
    <3>2. ASSUME NEW o \in T, o.key = n.key, <<o, n>> \in Moved(T, s)
          PROVE  \E r \in CollectedWrite(T, s) : Alike(q, r)
      <4>1. Update(o, n, s.w) \in CollectedWrite(T, s)  BY <3>2, Written DEF Arises
      <4>2. Alike(n, Update(o, n, s.w))  BY <1>7, <2>1, <3>2 DEF Update
      <4> QED  BY <2>1, <4>1, <4>2
    <3>3. ASSUME NEW o \in T, o.key = n.key, <<o, n>> \notin Moved(T, s)
          PROVE  \E r \in CollectedWrite(T, s) : Alike(q, r)
      <4>1. Seen(o, n) \in CollectedWrite(T, s)  BY <3>3, Written DEF Arises
      <4>2. Alike(n, o)  BY <1>7, <2>1, <3>3, MovedPairs DEF SoundStmt
      <4>3. Alike(o, Seen(o, n))  BY SeenRow DEF IsTable
      <4> QED  BY <2>1, <4>1, <4>2, <4>3
    <3> QED  BY <3>1, <3>2, <3>3 DEF Keys
  <2>2. CASE q \in P \ Replaced(P, s) /\ q.key \notin answered
    <3>1. PICK r \in T : Alike(q, r)  BY <1>2, <2>2
    <3>2. r \notin Removed(T, s)  BY <2>2, <3>1 DEF Removed, Replaced
    <3>3. r \in CollectedWrite(T, s)  BY <2>2, <3>1, <3>2, Written DEF Arises
    <3> QED  BY <3>1, <3>3
  <2>3. CASE q \in New(P \ Replaced(P, s), s.rows)
    <3>1. CASE s.w.mode = "replace"  BY <2>1, <2>3, <3>1 DEF New
    <3>2. CASE s.w.mode # "replace"
      <4>1. q \in New(T, s.rows)  BY <1>3, <1>6, <2>3, <3>2 DEF New, Keys
      <4>2. q \in CollectedWrite(T, s)  BY <4>1, Written DEF Arises
      <4> QED  BY <4>2
    <3> QED  BY <3>1, <3>2
  <2>4. ASSUME NEW o \in P \ Replaced(P, s), NEW n \in s.rows, o.key = n.key, q = Upserted(o, n, s.w)
        PROVE  \E r \in CollectedWrite(T, s) : Alike(q, r)
    <3>1. s.w.mode # "replace"  BY <1>5, <2>4
    <3>2. PICK t \in T : Alike(o, t)  BY <1>2
    <3>3. CASE <<t, n>> \in Moved(T, s)
      <4>1. Update(t, n, s.w) \in CollectedWrite(T, s)  BY <3>3, Written DEF Arises
      <4>2. Alike(q, Update(t, n, s.w))  BY <1>6, <2>4, <3>1, <3>2 DEF Upserted, Update
      <4> QED  BY <4>1, <4>2
    <3>4. CASE <<t, n>> \notin Moved(T, s)
      <4>1. Seen(t, n) \in CollectedWrite(T, s)  BY <2>4, <3>2, <3>4, Written DEF Arises
      <4>2. /\ "c" \in s.w.update => t.c = n.c
            /\ "d" \in s.w.update => t.d = n.d
            /\ "e" \in s.w.update => t.e = n.e
            /\ t.known = n.known
        <5>1. t.key = n.key  BY <2>4, <3>2
        <5>2. s.w \in WriteShape /\ Effective(s.w) = s.w.update  BY <1>6, <3>1 DEF SoundStmt
        <5> QED  BY <3>4, <5>1, <5>2, MovedPairs
      <4>3. Alike(q, t)  BY <2>4, <3>2, <4>2 DEF Upserted
      <4>4. Alike(t, Seen(t, n))  BY SeenRow DEF IsTable
      <4> QED  BY <4>1, <4>3, <4>4
    <3> QED  BY <3>3, <3>4
  <2>5. ASSUME NEW o \in P \ Replaced(P, s), NEW n \in s.touched, o.key = n.key, q = Seen(o, n)
        PROVE  \E r \in CollectedWrite(T, s) : Alike(q, r)
    <3>1. PICK t \in T : Alike(o, t)  BY <1>2
    <3>2. Seen(t, n) \in CollectedWrite(T, s)  BY <2>5, <3>1, Written DEF Arises
    <3>3. Alike(t, Seen(t, n)) /\ Alike(o, q)  BY <2>5, SeenRow DEF IsTable
    <3> QED  BY <3>1, <3>2, <3>3
  <2>6. PlainlyArises(P, s, q)  BY PlainlyWritten
  <2> QED  BY <2>2, <2>3, <2>4, <2>5, <2>6 DEF PlainlyArises
<1>11. Contents(CollectedWrite(T, s)) \subseteq Contents(PlainWrite(P, s))
  BY <1>9, ContentsFrom
<1>12. Contents(PlainWrite(P, s)) \subseteq Contents(CollectedWrite(T, s))
  BY <1>10, ContentsFrom
<1> QED  BY <1>11, <1>12
\* Where nothing is replaced, fetched_at included.
LEMMA SameRows ==
    ASSUME NEW T, NEW s, IsTable(T), SoundStmt(s), s.w.mode # "replace"
    PROVE  CollectedWrite(T, s) = PlainWrite(T, s)
<1>1. Replaced(T, s) = {} /\ Removed(T, s) = {} /\ Effective(s.w) = s.w.update
  BY DEF Replaced, Removed, Effective
<1>2. ASSUME NEW o \in T, NEW n \in s.rows, o.key = n.key
      PROVE  Upserted(o, n, s.w) = IF <<o, n>> \in Moved(T, s) THEN Update(o, n, s.w) ELSE Seen(o, n)
  <2>1. CASE <<o, n>> \in Moved(T, s)  BY <1>1, <2>1 DEF Update, Upserted
  <2>2. CASE <<o, n>> \notin Moved(T, s)
    <3>1. /\ "c" \in Effective(s.w) => o.c = n.c
          /\ "d" \in Effective(s.w) => o.d = n.d
          /\ "e" \in Effective(s.w) => o.e = n.e
          /\ o.known = n.known
      BY <1>2, <2>2, MovedPairs DEF SoundStmt
    <3>2. Seen(o, n) = [key |-> o.key, c |-> o.c, d |-> o.d, e |-> o.e, known |-> o.known, seen |-> n.seen]
      BY SeenRow DEF IsTable
    <3>3. /\ "c" \in s.w.update => o.c = n.c
          /\ "d" \in s.w.update => o.d = n.d
          /\ "e" \in s.w.update => o.e = n.e
      BY <1>1, <3>1
    <3> QED  BY <2>2, <3>1, <3>2, <3>3 DEF Upserted
  <2> QED  BY <2>1, <2>2
<1>3. ASSUME NEW r
      PROVE  Arises(T, s, r) <=> PlainlyArises(T, s, r)
  <2>1. ASSUME NEW o \in T, NEW n \in s.rows, <<o, n>> \in Moved(T, s)
        PROVE  o.key = n.key
    BY <2>1, MovedPairs DEF SoundStmt
  <2>2. (\E o \in T, n \in s.rows : o.key = n.key /\ r = Upserted(o, n, s.w)) <=>
          \/ \E o \in T, n \in s.rows : <<o, n>> \in Moved(T, s) /\ r = Update(o, n, s.w)
          \/ \E o \in T, n \in s.rows : o.key = n.key /\ <<o, n>> \notin Moved(T, s) /\ r = Seen(o, n)
    BY <1>2, <2>1
  <2>3. T \ Replaced(T, s) = T  BY <1>1
  <2> QED  BY <1>1, <2>2, <2>3 DEF Arises, PlainlyArises
<1> QED  BY <1>3, Written, PlainlyWritten

\* What a consumer has rebuilt covers the rows of the table after the statement,
\* and has no key the statement took away.
LEMMA HeardAll ==
    ASSUME NEW T, NEW M, NEW s, IsTable(T), SoundStmt(s), Contents(T) \subseteq M
    PROVE  Contents(CollectedWrite(T, s)) \subseteq Heard(M, T, s)
<1> DEFINE heard == Keys(Removed(T, s) \cup Returned(T, s))
<1>1. \A x : x \in Heard(M, T, s) <=> (x \in M /\ x.key \notin heard) \/ x \in Contents(Returned(T, s))
  BY DEF Heard
<1>2. \A r \in T : Content(r) \in M /\ Content(r).key = r.key  BY DEF Contents, Content
<1>3. \A q, r \in T : q.key = r.key => q = r  BY DEF IsTable
<1>4. ASSUME NEW k \in heard
      PROVE  \/ \E r \in Removed(T, s) : r.key = k
             \/ \E n \in New(T, s.rows) : n.key = k
             \/ \E o \in T, n \in s.rows : <<o, n>> \in Moved(T, s) /\ o.key = k
  <2>1. PICK r \in Removed(T, s) \cup Returned(T, s) : r.key = k  BY DEF Keys
  <2>2. ASSUME NEW p \in Moved(T, s), r = Update(p[1], p[2], s.w)
        PROVE  \E o \in T, n \in s.rows : <<o, n>> \in Moved(T, s) /\ o.key = k
    <3>1. p = <<p[1], p[2]>> /\ p[1] \in T /\ p[2] \in s.rows  BY PairForms DEF Moved
    <3> QED  BY <2>1, <2>2, <3>1 DEF Update
  <2> QED  BY <2>1, <2>2 DEF Returned
<1>5. ASSUME NEW r \in T, r.key \notin Keys(s.rows), r \notin Removed(T, s)
      PROVE  Content(r) \in Heard(M, T, s)
  <2>1. r.key \notin heard
    <3> SUFFICES ASSUME r.key \in heard PROVE FALSE  OBVIOUS
    <3>1. \A q \in Removed(T, s) : q.key # r.key  BY <1>3, <1>5 DEF Removed, Replaced
    <3>2. \A n \in s.rows : n.key # r.key  BY <1>5 DEF Keys
    <3>3. \A o \in T, n \in s.rows : <<o, n>> \in Moved(T, s) => o.key = n.key
      BY MovedPairs DEF SoundStmt
    <3> QED  BY <1>4, <3>1, <3>2, <3>3 DEF New
  <2> QED  BY <1>1, <1>2, <2>1
<1>6. ASSUME NEW r \in CollectedWrite(T, s)
      PROVE  Content(r) \in Heard(M, T, s)
  <2>1. CASE r \in T /\ r.key \notin Keys(s.rows \cup s.touched) /\ r \notin Removed(T, s)
    <3>1. r.key \notin Keys(s.rows)  BY <2>1 DEF Keys
    <3> QED  BY <1>5, <2>1, <3>1
  <2>2. CASE r \in Returned(T, s)  BY <1>1, <2>2 DEF Contents
  <2>3. ASSUME NEW o \in T, NEW n \in s.rows, o.key = n.key, <<o, n>> \notin Moved(T, s), r = Seen(o, n)
        PROVE  Content(r) \in Heard(M, T, s)
    <3>1. Content(r) = Content(o)
      <4>1. r = [key |-> o.key, c |-> o.c, d |-> o.d, e |-> o.e, known |-> o.known, seen |-> n.seen]
        BY <2>3, SeenRow DEF IsTable
      <4> QED  BY <4>1 DEF Content
    <3>2. o.key \notin heard
      <4> SUFFICES ASSUME o.key \in heard PROVE FALSE  OBVIOUS
      <4>1. \A q \in Removed(T, s) : q.key # o.key  BY <2>3 DEF Removed, Keys
      <4>2. \A m \in New(T, s.rows) : m.key # o.key  BY DEF New, Keys
      <4>3. ASSUME NEW p \in T, NEW m \in s.rows, <<p, m>> \in Moved(T, s), p.key = o.key
            PROVE  FALSE
        <5>1. p.key = m.key  BY <4>3, MovedPairs DEF SoundStmt
        <5>2. m = n  BY <2>3, <4>3, <5>1 DEF SoundStmt, IsTable
        <5>3. p = o  BY <1>3, <4>3
        <5> QED  BY <2>3, <4>3, <5>2, <5>3
      <4> QED  BY <1>4, <4>1, <4>2, <4>3
    <3> QED  BY <1>1, <1>2, <3>1, <3>2
  <2>4. ASSUME NEW o \in T, NEW n \in s.touched, o.key = n.key, r = Seen(o, n)
        PROVE  Content(r) \in Heard(M, T, s)
    <3>1. Content(r) = Content(o)
      <4>1. r = [key |-> o.key, c |-> o.c, d |-> o.d, e |-> o.e, known |-> o.known, seen |-> n.seen]
        BY <2>4, SeenRow DEF IsTable
      <4> QED  BY <4>1 DEF Content
    <3>2. o.key \notin Keys(s.rows)  BY <2>4 DEF SoundStmt, Keys
    <3>3. o \notin Removed(T, s)  BY <2>4 DEF SoundStmt, Removed, Replaced
    <3> QED  BY <1>5, <3>1, <3>2, <3>3
  <2>5. ASSUME NEW o \in T, NEW n \in s.rows, <<o, n>> \in Moved(T, s), r = Update(o, n, s.w)
        PROVE  r \in Returned(T, s)
    <3>1. <<o, n>>[1] = o /\ <<o, n>>[2] = n  OBVIOUS
    <3> QED  BY <2>5, <3>1 DEF Returned
  <2>6. Arises(T, s, r)  BY Written
  <2> QED  BY <2>1, <2>2, <2>3, <2>4, <2>5, <2>6 DEF Arises, Returned
<1> QED  BY <1>6 DEF Contents

\* A statement's events name each row it deletes: no key stays in the mirror that
\* was not there before without its row being there.
LEMMA NothingForgotten ==
    ASSUME NEW T, NEW M, NEW s, IsTable(T), SoundStmt(s)
    PROVE  Keys(Heard(M, T, s)) \ Keys(CollectedWrite(T, s)) \subseteq Keys(M) \ Keys(T)
<1> SUFFICES ASSUME NEW x \in Heard(M, T, s), x.key \notin Keys(CollectedWrite(T, s))
             PROVE  x \in M /\ x.key \notin Keys(T)
  BY DEF Keys
<1> DEFINE heard == Keys(Removed(T, s) \cup Returned(T, s))
<1>1. Returned(T, s) \subseteq CollectedWrite(T, s)  BY DEF CollectedWrite
<1>2. x \notin Contents(Returned(T, s))  BY <1>1 DEF Contents, Content, Keys
<1>3. x \in M /\ x.key \notin heard  BY <1>2 DEF Heard
<1>4. ASSUME NEW o \in T, o.key = x.key
      PROVE  FALSE
  <2>1. o \notin Removed(T, s)  BY <1>3, <1>4 DEF Keys
  <2>2. CASE o.key \notin Keys(s.rows \cup s.touched)
    <3>1. o \in CollectedWrite(T, s)  BY <2>1, <2>2, Written DEF Arises
    <3> QED  BY <1>4, <3>1 DEF Keys
  <2>3. ASSUME NEW n \in s.touched, o.key = n.key PROVE FALSE
    <3>1. Seen(o, n) \in CollectedWrite(T, s)  BY <2>3, Written DEF Arises
    <3>2. Seen(o, n).key = o.key  BY SeenRow DEF IsTable
    <3> QED  BY <1>4, <3>1, <3>2 DEF Keys
  <2>4. ASSUME NEW n \in s.rows, o.key = n.key PROVE FALSE
    <3>1. CASE <<o, n>> \in Moved(T, s)
      <4>1. Update(o, n, s.w) \in CollectedWrite(T, s)  BY <3>1, Written DEF Arises
      <4>2. Update(o, n, s.w).key = o.key  BY DEF Update
      <4> QED  BY <1>4, <4>1, <4>2 DEF Keys
    <3>2. CASE <<o, n>> \notin Moved(T, s)
      <4>1. Seen(o, n) \in CollectedWrite(T, s)  BY <2>4, <3>2, Written DEF Arises
      <4>2. Seen(o, n).key = o.key  BY SeenRow DEF IsTable
      <4> QED  BY <1>4, <4>1, <4>2 DEF Keys
    <3> QED  BY <3>1, <3>2
  <2> QED  BY <2>2, <2>3, <2>4 DEF Keys
<1> QED  BY <1>3, <1>4 DEF Keys

\* A copy that has of the stored keys what is stored still does after a statement's
\* events, and what else it had it keeps, but for the keys the statement inserts.
LEMMA HeardExactly ==
    ASSUME NEW T, NEW M, NEW s, IsTable(T), SoundStmt(s), {x \in M : x.key \in Keys(T)} = Contents(T)
    PROVE  LET U == CollectedWrite(T, s)
           IN  /\ {x \in Heard(M, T, s) : x.key \in Keys(U)} = Contents(U)
               /\ {x \in Heard(M, T, s) : x.key \notin Keys(U)}
                    = {x \in M : x.key \notin Keys(T) /\ x.key \notin Keys(U)}
<1> DEFINE U == CollectedWrite(T, s)
<1> DEFINE heard == Keys(Removed(T, s) \cup Returned(T, s))
<1>1. \A x : x \in Heard(M, T, s) <=> (x \in M /\ x.key \notin heard) \/ x \in Contents(Returned(T, s))
  BY DEF Heard
<1>2. /\ \A S : \A x \in Contents(S) : x.key \in Keys(S)
      /\ \A S : \A r \in S : Content(r) \in Contents(S) /\ Content(r).key = r.key
  BY DEF Contents, Content, Keys
<1>3. Returned(T, s) \subseteq U /\ Removed(T, s) \subseteq T
  BY DEF CollectedWrite, Removed, Replaced
<1>4. Contents(U) \subseteq Heard(M, T, s)  BY HeardAll
<1>5. IsTable(U)  BY WriteTable
<1>6. ASSUME NEW r \in U, r.key \notin Keys(T) PROVE r \in Returned(T, s)
  <2>1. \A o \in T : o.key # r.key  BY <1>6 DEF Keys
  <2>2. \A o \in T : \A n : Seen(o, n).key = o.key /\ Update(o, n, s.w).key = o.key
    BY SeenRow DEF IsTable, Update
  <2>3. Arises(T, s, r)  BY Written
  <2>4. ~ \E o \in T, n \in s.rows \cup s.touched : r = Seen(o, n) \/ r = Update(o, n, s.w)  BY <2>1, <2>2
  <2>5. r \notin T  BY <2>1
  <2>6. r \in New(T, s.rows)  BY <2>3, <2>4, <2>5 DEF Arises
  <2> QED  BY <2>6 DEF Returned
<1>7. ASSUME NEW x \in Heard(M, T, s), x.key \in Keys(U) PROVE x \in Contents(U)
  <2>1. CASE x \in Contents(Returned(T, s))  BY <1>3, <2>1 DEF Contents
  <2>2. CASE x \in M /\ x.key \notin heard
    <3>1. PICK r \in U : r.key = x.key  BY <1>7 DEF Keys
    <3>2. r \notin Returned(T, s)  BY <2>2, <3>1 DEF Keys
    <3>3. x.key \in Keys(T)  BY <1>6, <3>1, <3>2
    <3>4. x \in Contents(T)  BY <2>2, <3>3
    <3>5. PICK o \in T : x = Content(o)  BY <3>4 DEF Contents
    <3>6. Content(r) \in Contents(U) /\ Content(r).key = x.key  BY <1>2, <3>1
    <3>7. Content(r) \in Heard(M, T, s)  BY <1>4, <3>6
    <3>8. Content(r) \notin Contents(Returned(T, s))
      <4> SUFFICES ASSUME Content(r) \in Contents(Returned(T, s)) PROVE FALSE  OBVIOUS
      <4>1. x.key \in Keys(Returned(T, s))  BY <1>2, <3>6
      <4> QED  BY <2>2, <4>1 DEF Keys
    <3>9. Content(r) \in Contents(T)  BY <1>1, <3>3, <3>6, <3>7, <3>8
    <3>10. PICK q \in T : Content(r) = Content(q)  BY <3>9 DEF Contents
    <3>11. q.key = o.key  BY <1>2, <3>5, <3>6, <3>10
    <3>12. q = o  BY <3>11 DEF IsTable
    <3> QED  BY <3>5, <3>6, <3>10, <3>12
  <2> QED  BY <1>1, <2>1, <2>2
<1>8. ASSUME NEW x \in Heard(M, T, s), x.key \notin Keys(U)
      PROVE  x \in M /\ x.key \notin Keys(T)
  <2>1. x \notin Contents(Returned(T, s))  BY <1>2, <1>3, <1>8 DEF Keys
  <2>2. x \in M /\ x.key \in Keys(Heard(M, T, s)) \ Keys(U)  BY <1>1, <1>8, <2>1 DEF Keys
  <2>3. x.key \in Keys(M) \ Keys(T)  BY <2>2, NothingForgotten
  <2> QED  BY <2>2, <2>3
<1>9. ASSUME NEW x \in M, x.key \notin Keys(T), x.key \notin Keys(U) PROVE x \in Heard(M, T, s)
  <2>1. x.key \notin heard  BY <1>3, <1>9 DEF Keys
  <2> QED  BY <1>1, <2>1
<1> HIDE DEF U, heard
<1>10. {x \in Heard(M, T, s) : x.key \in Keys(U)} = Contents(U)  BY <1>2, <1>4, <1>7
<1>11. {x \in Heard(M, T, s) : x.key \notin Keys(U)} = {x \in M : x.key \notin Keys(T) /\ x.key \notin Keys(U)}
  BY <1>8, <1>9
<1> QED  BY <1>10, <1>11 DEF U

\* The row a write makes for a key out of what the answer says of it, and a row of
\* a list of names.
RowAt(w, k, body) ==
    [key |-> k, c |-> IF "c" \in w.insert THEN body ELSE {}, d |-> IF "d" \in w.insert THEN body ELSE {}, e |-> IF "e" \in w.insert THEN body ELSE {},
     known |-> Flag(w, k), seen |-> now + 1]
TagAt(w, c, d) == RowAt(w, Key(w, IF c.part = "a" THEN Owner ELSE Foreign, d, "-", c.item), {})

\* An answer some dataset may get.
IsAnswer(ans) == ans.cells \in Sheets /\ ans.read \subseteq Parts

\* Every answer of a dataset is a sheet and the parts that were read.
LEMMA AnswerForm == ASSUME NEW ds, NEW ans \in Answers(ds) PROVE IsAnswer(ans)
  BY DEF Answers, IsAnswer, Parts

\* A write uses cells of the answer, of parts it asked for and that were read.
LEMMA CellsForm ==
    ASSUME NEW w, NEW ans, IsAnswer(ans), NEW c \in CellsOf(w, ans)
    PROVE  /\ c \in ans.cells /\ c.part \in w.parts \cap ans.read
           /\ w.shape = "list" /\ "part" \notin w.key => c.part = "a"
  BY DEF CellsOf

\* A key has the columns of the primary key and blanks for the rest.
LEMMA KeyForm ==
    \A w, o, d, p, i :
       /\ IsKey(Key(w, o, d, p, i))
       /\ "owner" \in w.key => Key(w, o, d, p, i).owner = o
       /\ "owner" \notin w.key => Key(w, o, d, p, i).owner = "-"
       /\ "day" \in w.key => Key(w, o, d, p, i).day = d
       /\ "day" \notin w.key => Key(w, o, d, p, i).day = 0
       /\ "part" \in w.key => Key(w, o, d, p, i).part = p
       /\ "part" \notin w.key => Key(w, o, d, p, i).part = "-"
       /\ "item" \in w.key => Key(w, o, d, p, i).item = i
       /\ "item" \notin w.key => Key(w, o, d, p, i).item = "-"
  BY DEF Key, IsKey

\* The rows of a write, by its shape.
AboutPart(w, from, ans, p) ==
    {<<c.item, c.val>> : c \in {x \in CellsOf(from, ans) : "part" \in w.key => x.part = p}}

\* What a row of a write is, by the shape of the write.
RowForm(w, from, ans, d, r) ==
    /\ w.shape = "one" =>
         \E p \in IF "part" \in w.key THEN w.parts \cap Spoken(w, ans) ELSE {"-"} :
            r = RowAt(w, Key(w, Owner, d, p, "-"), AboutPart(w, from, ans, p))
    /\ w.shape = "self" => r = RowAt(w, Key(w, "-", d, "-", Owner), AboutPart(w, from, ans, "-"))
    /\ w.shape = "list" =>
         \E c \in CellsOf(from, ans) : r = RowAt(w, Key(w, Owner, d, c.part, c.item), {<<c.item, c.val>>})
    /\ w.shape = "tag" => \E c \in CellsOf(from, ans) : r = TagAt(w, c, d)
    /\ w.shape = "link" => \E c \in CellsOf(from, ans) :
          r = TagAt(w, c, d) \/ r = RowAt(w, Key(w, Owner, d, "-", c.item), {})

\* RowsFrom is the set of those rows.
LEMMA RowForms ==
    ASSUME NEW w \in WriteShape, NEW from, NEW ans, NEW d
    PROVE  \A r : r \in RowsFrom(w, from, ans, d) <=> RowForm(w, from, ans, d, r)
<1>1. CASE w.shape = "one"  BY <1>1 DEF RowsFrom, RowAt, RowForm, AboutPart
<1>2. CASE w.shape = "self"  BY <1>2 DEF RowsFrom, RowAt, RowForm, AboutPart
<1>3. CASE w.shape = "list"  BY <1>3 DEF RowsFrom, RowAt, RowForm
<1>4. CASE w.shape = "tag"  BY <1>4 DEF RowsFrom, RowAt, TagAt, RowForm
<1>5. CASE w.shape = "link"  BY <1>5 DEF RowsFrom, RowAt, TagAt, RowForm
<1> QED  BY <1>1, <1>2, <1>3, <1>4, <1>5 DEF WriteShape

\* Such a row is a row, of the key it was made for.
LEMMA RowAtRow == \A w, k, body : IsKey(k) => IsRow(RowAt(w, k, body)) /\ RowAt(w, k, body).key = k
  BY DEF RowAt, IsRow

\* A list has one cell for a key: a sheet says one thing of an item of a part.
LEMMA CellsUnique ==
    ASSUME NEW w, NEW ans, IsAnswer(ans), w.shape = "list", "item" \in w.key,
           NEW b \in CellsOf(w, ans), NEW c \in CellsOf(w, ans), NEW d,
           Key(w, Owner, d, b.part, b.item) = Key(w, Owner, d, c.part, c.item)
    PROVE  b = c
<1>1. b.item = c.item  BY KeyForm
<1>2. b.part = c.part
  <2>1. CASE "part" \in w.key  BY <2>1, KeyForm
  <2>2. CASE "part" \notin w.key  BY <2>2, CellsForm
  <2> QED  BY <2>1, <2>2
<1>3. b \in ans.cells /\ c \in ans.cells  BY CellsForm
<1> QED  BY <1>1, <1>2, <1>3, SheetsAssumption DEF IsAnswer

\* One row for a key, whatever the answer.
LEMMA RowsTable ==
    ASSUME NEW w \in WriteShape, NEW from, NEW ans, IsAnswer(ans), NEW d,
           w.shape = "list" => from = w /\ "item" \in w.key
    PROVE  IsTable(RowsFrom(w, from, ans, d))
<1> DEFINE S == RowsFrom(w, from, ans, d)
<1>0. \A r \in S : RowForm(w, from, ans, d, r)  BY RowForms
<1> HIDE DEF S
<1>1. ASSUME NEW r \in S PROVE IsRow(r)
  <2>1. CASE w.shape = "one"  BY <2>1, <1>0, RowAtRow, KeyForm DEF RowForm
  <2>2. CASE w.shape = "self"  BY <2>2, <1>0, RowAtRow, KeyForm DEF RowForm
  <2>3. CASE w.shape = "list"
    <3>1. PICK c \in CellsOf(from, ans) : r = RowAt(w, Key(w, Owner, d, c.part, c.item), {<<c.item, c.val>>})
      BY <2>3, <1>0 DEF RowForm
    <3> QED  BY <3>1, RowAtRow, KeyForm
  <2>4. CASE w.shape = "tag"  BY <2>4, <1>0, RowAtRow, KeyForm DEF RowForm, TagAt
  <2>5. CASE w.shape = "link"  BY <2>5, <1>0, RowAtRow, KeyForm DEF RowForm, TagAt
  <2> QED  BY <2>1, <2>2, <2>3, <2>4, <2>5 DEF WriteShape
<1>2. ASSUME NEW q \in S, NEW r \in S, q.key = r.key PROVE q = r
  <2>1. CASE w.shape = "one"
    <3>1. PICK p \in IF "part" \in w.key THEN w.parts \cap Spoken(w, ans) ELSE {"-"} :
             q = RowAt(w, Key(w, Owner, d, p, "-"), AboutPart(w, from, ans, p))
      BY <2>1, <1>0 DEF RowForm
    <3>2. PICK m \in IF "part" \in w.key THEN w.parts \cap Spoken(w, ans) ELSE {"-"} :
             r = RowAt(w, Key(w, Owner, d, m, "-"), AboutPart(w, from, ans, m))
      BY <2>1, <1>0 DEF RowForm
      <3>3. Key(w, Owner, d, p, "-") = Key(w, Owner, d, m, "-")  BY <1>2, <3>1, <3>2, RowAtRow, KeyForm
    <3>4. p = m
      <4>1. CASE "part" \in w.key  BY <3>3, <4>1, KeyForm
      <4>2. CASE "part" \notin w.key  BY <3>1, <3>2, <4>2
      <4> QED  BY <4>1, <4>2
    <3> QED  BY <3>1, <3>2, <3>4
  <2>2. CASE w.shape = "self"  BY <2>2, <1>0 DEF RowForm
  <2>3. CASE w.shape = "list"
    <3>1. PICK b \in CellsOf(w, ans) : q = RowAt(w, Key(w, Owner, d, b.part, b.item), {<<b.item, b.val>>})
      BY <2>3, <1>0 DEF RowForm
    <3>2. PICK c \in CellsOf(w, ans) : r = RowAt(w, Key(w, Owner, d, c.part, c.item), {<<c.item, c.val>>})
      BY <2>3, <1>0 DEF RowForm
    <3>3. Key(w, Owner, d, b.part, b.item) = Key(w, Owner, d, c.part, c.item)
      BY <1>2, <3>1, <3>2, RowAtRow, KeyForm
    <3>4. b = c  BY <2>3, <3>3, CellsUnique
    <3> QED  BY <3>1, <3>2, <3>4
  <2>4. CASE w.shape \in {"tag", "link"}
    <3>1. PICK k : IsKey(k) /\ q = RowAt(w, k, {})  BY <2>4, <1>0, KeyForm DEF RowForm, TagAt
    <3>2. PICK l : IsKey(l) /\ r = RowAt(w, l, {})  BY <2>4, <1>0, KeyForm DEF RowForm, TagAt
    <3> QED  BY <1>2, <3>1, <3>2, RowAtRow
  <2> QED  BY <2>1, <2>2, <2>3, <2>4 DEF WriteShape
<1> QED  BY <1>1, <1>2 DEF IsTable, S

\* The part and the day of a row are those of its write; a row of `symbols` is
\* the owner's or one the answer names.
Near(w, k)  == k.part \in w.parts \cup {"-"} /\ k.day \in {0, day, now + 1}
\* A key with blanks wherever the primary key of the write has no column.
Keyed(w, k) ==
    /\ IsKey(k)
    /\ "day" \notin w.key => k.day = 0
    /\ "part" \notin w.key => k.part = "-"
    /\ "owner" \notin w.key => k.owner = "-"
    /\ "item" \notin w.key => k.item = "-"
\* A row of one kind or a list is the owner's, of a part that was asked for and, in a list, read.
Asked(w, ans, k) ==
    /\ w.shape \in {"one", "list"} /\ "owner" \in w.key => k.owner = Owner
    /\ w.shape \in {"one", "list"} /\ "part" \in w.key => k.part \in w.parts
    /\ w.shape = "list" /\ "part" \in w.key => k.part \in ans.read

\* A key a write may make out of an answer.
Heeds(w, ans, k) ==
    /\ Near(w, k) /\ Keyed(w, k) /\ Asked(w, ans, k)
    /\ w.table = "symbols" => k.item \in {Owner} \cup {c.item : c \in ans.cells}

\* Every row of a sound write has such a key.
LEMMA KeysHeed ==
    ASSUME NEW w \in WriteShape, SoundWrite(w), NEW ans, IsAnswer(ans), NEW from,
           w.shape \in {"list", "tag", "link"} => from = w, NEW d \in {day, now + 1},
           NEW r \in RowsFrom(w, from, ans, d)
    PROVE  Heeds(w, ans, r.key)
<1>0. RowForm(w, from, ans, d, r)  BY RowForms
<1>1. ASSUME NEW o, NEW p \in w.parts \cup {"-"}, NEW i
      PROVE  Near(w, Key(w, o, d, p, i)) /\ Keyed(w, Key(w, o, d, p, i))
  <2>1. Key(w, o, d, p, i).part \in {p, "-"} /\ Key(w, o, d, p, i).day \in {d, 0}  BY DEF Key
  <2>2. Keyed(w, Key(w, o, d, p, i))  BY KeyForm DEF Keyed
  <2> QED  BY <2>1, <2>2 DEF Near
<1>2. CASE w.shape = "one"
  <2>1. PICK p \in IF "part" \in w.key THEN w.parts \cap Spoken(w, ans) ELSE {"-"} :
           r = RowAt(w, Key(w, Owner, d, p, "-"), AboutPart(w, from, ans, p))
    BY <1>0, <1>2 DEF RowForm
  <2>2. r.key = Key(w, Owner, d, p, "-") /\ p \in w.parts \cup {"-"}  BY <2>1, RowAtRow, KeyForm
  <2>3. Asked(w, ans, r.key)  BY <1>2, <2>1, <2>2, KeyForm DEF Asked
  <2> QED  BY <1>1, <1>2, <2>2, <2>3 DEF Heeds, SoundWrite
<1>3. CASE w.shape = "self"
  <2>1. r.key = Key(w, "-", d, "-", Owner)  BY <1>0, <1>3, RowAtRow, KeyForm DEF RowForm
  <2>2. w.table = "symbols" => r.key.item = Owner  BY <2>1, KeyForm DEF SoundWrite
  <2>3. Asked(w, ans, r.key)  BY <1>3 DEF Asked
  <2> QED  BY <1>1, <2>1, <2>2, <2>3 DEF Heeds
<1>4. CASE w.shape = "list"
  <2>1. PICK c \in CellsOf(w, ans) : r = RowAt(w, Key(w, Owner, d, c.part, c.item), {<<c.item, c.val>>})
    BY <1>0, <1>4 DEF RowForm
  <2>2. r.key = Key(w, Owner, d, c.part, c.item)  BY <2>1, RowAtRow, KeyForm
  <2>3. r.key.item = c.item  BY <1>4, <2>2, KeyForm DEF SoundWrite
  <2>4. c.part \in w.parts /\ c \in ans.cells /\ c.part \in ans.read  BY CellsForm
  <2>5. Asked(w, ans, r.key)  BY <2>2, <2>4, KeyForm DEF Asked
  <2> QED  BY <1>1, <2>2, <2>3, <2>4, <2>5 DEF Heeds
<1>5. CASE w.shape \in {"tag", "link"}
  <2>1. PICK o, i : r = RowAt(w, Key(w, o, d, "-", i), {})  BY <1>0, <1>5 DEF RowForm, TagAt
  <2>2. r.key = Key(w, o, d, "-", i)  BY <2>1, RowAtRow, KeyForm
  <2>3. Asked(w, ans, r.key)  BY <1>5 DEF Asked
  <2> QED  BY <1>1, <1>5, <2>2, <2>3 DEF Heeds, SoundWrite
<1> QED  BY <1>2, <1>3, <1>4, <1>5 DEF WriteShape

\* A replacement clears scopes of the owner alone.
LEMMA ScopesNear ==
    ASSUME NEW w \in WriteShape, SoundWrite(w), NEW ans, IsAnswer(ans), NEW d \in {day, now + 1},
           NEW k \in Scopes(w, RowsOf(w, ans, d), ans, d)
    PROVE  Near(w, k)
<1>1. CASE w.given = "rows"  BY <1>1, KeysHeed DEF Scopes, RowsOf, Keys, Heeds
<1>2. CASE w.given # "rows"
  <2>1. PICK p \in w.parts : k = Key(w, Owner, d, p, "-")  BY <1>2 DEF Scopes, WriteShape
  <2> QED  BY <2>1 DEF Key, Near
<1> QED  BY <1>1, <1>2

\* A replace is of the rows of its own answer.
LEMMA RowsInScope ==
    ASSUME NEW w \in WriteShape, SoundWrite(w), w.mode = "replace", NEW ans, IsAnswer(ans), NEW d,
           NEW r \in RowsOf(w, ans, d)
    PROVE  InScope(r.key, w, Scopes(w, RowsOf(w, ans, d), ans, d))
<1> DEFINE scopes == Scopes(w, RowsOf(w, ans, d), ans, d)
<1>0. RowForm(w, w, ans, d, r)  BY RowForms DEF RowsOf
<1>1. CASE w.given = "rows"  BY <1>1 DEF InScope, Scopes, Keys
<1>2. ASSUME w.given # "rows", NEW p \in w.parts, w.given = "read" => p \in ans.read, NEW i,
             r.key = Key(w, Owner, d, p, i)
      PROVE  InScope(r.key, w, scopes)
  <2>1. Key(w, Owner, d, p, "-") \in scopes  BY <1>2 DEF Scopes, WriteShape
  <2>2. w.scope \subseteq {"owner", "day", "part"}  BY <1>2 DEF SoundWrite, WriteShape, Fields
  <2>3. \A f \in {"owner", "day", "part"} : r.key[f] = Key(w, Owner, d, p, "-")[f]  BY <1>2 DEF Key
  <2> QED  BY <2>1, <2>2, <2>3 DEF InScope
<1>3. CASE w.given # "rows" /\ w.shape = "list"
  <2>1. PICK c \in CellsOf(w, ans) : r = RowAt(w, Key(w, Owner, d, c.part, c.item), {<<c.item, c.val>>})
    BY <1>0, <1>3 DEF RowForm
  <2>2. c.part \in w.parts /\ c.part \in ans.read  BY CellsForm
  <2>3. r.key = Key(w, Owner, d, c.part, c.item)  BY <2>1, RowAtRow, KeyForm
  <2> QED  BY <1>2, <1>3, <2>2, <2>3
<1>4. CASE w.given = "all" /\ w.shape = "one"
  <2>1. PICK p \in IF "part" \in w.key THEN w.parts \cap Spoken(w, ans) ELSE {"-"} :
           r.key = Key(w, Owner, d, p, "-")
    BY <1>0, <1>4, RowAtRow, KeyForm DEF RowForm
  <2>2. PICK m \in w.parts : r.key = Key(w, Owner, d, m, "-")
    <3>1. CASE "part" \in w.key  BY <2>1, <3>1
    <3>2. CASE "part" \notin w.key
      <4>1. PICK m \in w.parts : TRUE  BY <1>4 DEF SoundWrite
      <4>2. Key(w, Owner, d, m, "-") = Key(w, Owner, d, p, "-")  BY <3>2 DEF Key
      <4> QED  BY <2>1, <4>2
    <3> QED  BY <3>1, <3>2
  <2> QED  BY <1>2, <1>4, <2>2
<1> QED  BY <1>1, <1>3, <1>4 DEF SoundWrite

\* A sound write makes sound statements.
LEMMA StmtSound ==
    ASSUME NEW w \in WriteShape, SoundWrite(w), NEW ans, IsAnswer(ans), NEW d
    PROVE  /\ SoundStmt(StmtOf(w, ans, d)) /\ StmtOf(w, ans, d).w = w
           /\ StmtOf(w, ans, d).rows = RowsOf(w, ans, d) /\ StmtOf(w, ans, d).touched = {}
           /\ StmtOf(w, ans, d).scopes = Scopes(w, RowsOf(w, ans, d), ans, d)
<1> DEFINE new == RowsOf(w, ans, d)
<1> DEFINE s == StmtOf(w, ans, d)
<1>1. s.w = w /\ s.rows = new /\ s.touched = {} /\ s.scopes = Scopes(w, new, ans, d)
  BY DEF StmtOf, Stmt
<1>2. IsTable(new)  BY RowsTable DEF RowsOf, SoundWrite
<1>3. s.rows \cup s.touched = new /\ Keys(s.touched) = {}  BY <1>1 DEF Keys
<1>4. w.mode = "replace" => \A n \in new : InScope(n.key, w, Scopes(w, new, ans, d))  BY RowsInScope
<1> HIDE DEF s, new
<1>5. SoundStmt(s)  BY <1>1, <1>2, <1>3, <1>4 DEF SoundStmt
<1> QED  BY <1>1, <1>5 DEF s, new
\* The statements of a sync.
LEMMA DatasetForm ==
    ASSUME NEW ds, SoundDataset(ds)
    PROVE  /\ WritesOf(ds) = ToSet(ds.free) \cup ToSet(ds.writes)
           /\ WritesOf(ds) \subseteq WriteShape
           /\ \A w \in WritesOf(ds) : SoundWrite(w)
           /\ \A v, w \in WritesOf(ds) : v.table = w.table => v = w
           /\ ToSet(ds.free) \cap ToSet(ds.writes) = {}
           /\ ds.gate \in {"hash", "snapshot"} =>
                 /\ {ds.writes[1], ds.writes[2]} \subseteq ToSet(ds.writes)
                 /\ ds.writes[1].table # ds.writes[2].table
                 /\ ds.writes[1].shape = "one" /\ ds.writes[1].mode = "upsert"
           /\ ds.gate = "hash" =>
                 /\ ToSet(ds.writes) = {ds.writes[1], ds.writes[2]}
                 /\ ds.writes[2].mode = "replace" /\ ds.writes[2].shape = "list"
                 /\ ds.writes[2].scope = ds.writes[1].key /\ ds.writes[1].parts \subseteq ds.writes[2].parts
           /\ ds.gate = "snapshot" => ds.writes[2].shape = "one" /\ ds.writes[2].mode = "upsert"
<1>1. ds.free \in Seq(WriteShape) /\ ds.writes \in Seq(WriteShape)  BY DEF SoundDataset
<1>2. ToSet(ds.free \o ds.writes) = ToSet(ds.free) \cup ToSet(ds.writes)
  <2>1. ASSUME NEW f \in Seq(WriteShape), NEW g \in Seq(WriteShape)
        PROVE  ToSet(f \o g) = ToSet(f) \cup ToSet(g)
    <3>1. DOMAIN f = 1 .. Len(f) /\ DOMAIN g = 1 .. Len(g) /\ DOMAIN (f \o g) = 1 .. Len(f) + Len(g)
      OBVIOUS
    <3>2. \A i \in DOMAIN f : i \in DOMAIN (f \o g) /\ (f \o g)[i] = f[i]  BY <3>1
    <3>3. \A i \in DOMAIN g : Len(f) + i \in DOMAIN (f \o g) /\ (f \o g)[Len(f) + i] = g[i]  BY <3>1
    <3>4. \A i \in DOMAIN (f \o g) : \/ i \in DOMAIN f /\ (f \o g)[i] = f[i]
                                     \/ i - Len(f) \in DOMAIN g /\ (f \o g)[i] = g[i - Len(f)]
      BY <3>1
    <3>5. ToSet(f) \subseteq ToSet(f \o g)  BY <3>2 DEF ToSet
    <3>6. ToSet(g) \subseteq ToSet(f \o g)  BY <3>3 DEF ToSet
    <3>7. ToSet(f \o g) \subseteq ToSet(f) \cup ToSet(g)  BY <3>4 DEF ToSet
    <3> QED  BY <3>5, <3>6, <3>7
  <2> QED  BY <1>1, <2>1
<1>3. \A i \in 1 .. Len(ds.writes) : ds.writes[i] \in ToSet(ds.writes)  BY <1>1 DEF ToSet
<1>4. ToSet(ds.free) \subseteq WriteShape /\ ToSet(ds.writes) \subseteq WriteShape  BY <1>1 DEF ToSet
<1>5. ds.gate \in {"hash", "snapshot"} => {ds.writes[1], ds.writes[2]} \subseteq ToSet(ds.writes)
  BY <1>1, <1>3 DEF SoundDataset
<1>6. ds.gate = "hash" => ToSet(ds.writes) = {ds.writes[1], ds.writes[2]}
  <2>1. ASSUME NEW g \in Seq(WriteShape), Len(g) = 2 PROVE ToSet(g) = {g[1], g[2]}
    <3>1. DOMAIN g = {1, 2}  BY <2>1
    <3> QED  BY <3>1 DEF ToSet
  <2> QED  BY <1>1, <2>1 DEF SoundDataset
<1> QED  BY <1>1, <1>2, <1>4, <1>5, <1>6 DEF SoundDataset, WritesOf

\* Where a statement comes from.
FromWrite(ds, ans, s) ==
    /\ s.w \in WritesOf(ds)
    /\ \A r \in s.rows \cup s.touched : Heeds(s.w, ans, r.key)
    /\ \A k \in s.scopes : Near(s.w, k)

\* So do the writes of a dataset, one statement for a table.
LEMMA StmtsForm ==
    ASSUME NEW ds, SoundDataset(ds), NEW ans, IsAnswer(ans), NEW W \in SUBSET WritesOf(ds)
    PROVE  /\ \A s \in Stmts(W, ans) : SoundStmt(s) /\ s.w \in W /\ FromWrite(ds, ans, s)
           /\ \A s, t \in Stmts(W, ans) : s.w.table = t.w.table => s = t
<1>1. ASSUME NEW w \in W
      PROVE  LET s == StmtOf(w, ans, day) IN SoundStmt(s) /\ s.w = w /\ FromWrite(ds, ans, s)
  <2> DEFINE s == StmtOf(w, ans, day)
  <2>1. w \in WriteShape /\ SoundWrite(w) /\ w \in WritesOf(ds)  BY DatasetForm
  <2>2. SoundStmt(s) /\ s.w = w /\ s.rows \cup s.touched = RowsOf(w, ans, day)  BY <2>1, StmtSound
  <2>3. s.scopes = Scopes(w, RowsOf(w, ans, day), ans, day)  BY <2>1, StmtSound
  <2>4. \A r \in RowsOf(w, ans, day) : Heeds(w, ans, r.key)  BY <2>1, KeysHeed DEF RowsOf
  <2>5. \A k \in s.scopes : Near(w, k)  BY <2>1, <2>3, ScopesNear
  <2> HIDE DEF s
  <2>6. FromWrite(ds, ans, s)  BY <2>1, <2>2, <2>4, <2>5 DEF FromWrite
  <2> QED  BY <2>2, <2>6 DEF s
<1>2. \A s \in Stmts(W, ans) : \E w \in W : s = StmtOf(w, ans, day)  BY DEF Stmts
<1> QED  BY <1>1, <1>2, DatasetForm

\* So does a hash-gated dataset, whether it writes the children or not.
LEMMA HashForm ==
    ASSUME NEW ds, SoundDataset(ds), ds.gate = "hash", NEW ans, IsAnswer(ans), NEW full
    PROVE  /\ \A s \in HashStmts(ds, ans, full) : SoundStmt(s) /\ FromWrite(ds, ans, s)
           /\ \A s, t \in HashStmts(ds, ans, full) : s.w.table = t.w.table => s = t
<1> DEFINE head == ds.writes[1]
<1> DEFINE child == ds.writes[2]
<1> DEFINE new == RowsFrom(head, child, ans, day)
<1> DEFINE moved == FreshRows(head, new, full)
<1> DEFINE kids == {r \in RowsOf(child, ans, day) : InScope(r.key, child, Keys(moved))}
<1>1. head \in WriteShape /\ child \in WriteShape /\ SoundWrite(head) /\ SoundWrite(child)
  BY DatasetForm
<1>2. /\ head.shape = "one" /\ head.mode = "upsert"
      /\ child.shape = "list" /\ child.mode = "replace" /\ "item" \in child.key
      /\ child.scope = head.key /\ head.parts \subseteq child.parts
      /\ {head, child} \subseteq WritesOf(ds) /\ head.table # child.table
  <2>1. /\ head.shape = "one" /\ head.mode = "upsert"
        /\ child.shape = "list" /\ child.mode = "replace"
        /\ child.scope = head.key /\ head.parts \subseteq child.parts
        /\ {head, child} \subseteq WritesOf(ds) /\ head.table # child.table
    BY DatasetForm
  <2>2. "item" \in child.key  BY <1>1, <2>1 DEF SoundWrite
  <2> QED  BY <2>1, <2>2
<1>3. [child EXCEPT !.mode = "replace", !.scope = head.key] = child
  <2>1. \A w \in WriteShape : [w EXCEPT !.mode = w.mode, !.scope = w.scope] = w  BY DEF WriteShape
  <2>2. [child EXCEPT !.mode = child.mode, !.scope = child.scope] = child  BY <1>1, <2>1
  <2> QED  BY <1>2, <2>2
<1>4. IsTable(new)
  <2>1. head.shape # "list"  BY <1>2
  <2> HIDE DEF head, child
  <2> QED  BY <1>1, <2>1, RowsTable
<1>5. \A r \in new : Heeds(head, ans, r.key)
  <2>1. head.shape \notin {"list", "tag", "link"}  BY <1>2
  <2> HIDE DEF head, child
  <2> QED  BY <1>1, <2>1, KeysHeed
<1>6. moved \subseteq new  BY DEF FreshRows
<1> DEFINE first == Stmt(head, moved, {}, new \ moved)
<1> DEFINE second == Stmt(child, kids, Keys(moved), {})
<1>7. SoundStmt(first) /\ FromWrite(ds, ans, first) /\ first.w = head
  <2>1. moved \cup (new \ moved) = new  BY <1>6
  <2>2. Keys(moved) \cap Keys(new \ moved) = {}  BY <1>4, <1>6 DEF IsTable, Keys
  <2> HIDE DEF moved, new, head
  <2>3. SoundStmt(first)  BY <1>1, <1>2, <1>4, <2>1, <2>2 DEF SoundStmt, Stmt
  <2>4. FromWrite(ds, ans, first)  BY <1>2, <1>5, <2>1 DEF FromWrite, Stmt
  <2> QED  BY <2>3, <2>4 DEF Stmt
<1>8. SoundStmt(second) /\ FromWrite(ds, ans, second) /\ second.w = child
  <2>1. IsTable(kids)
    <3>1. IsTable(RowsOf(child, ans, day))
      <4> HIDE DEF child
      <4> QED  BY <1>1, <1>2, RowsTable DEF RowsOf
    <3> QED  BY <3>1 DEF IsTable
  <2>2. \A r \in kids : Heeds(child, ans, r.key)
    <3> HIDE DEF child
    <3> QED  BY <1>1, KeysHeed DEF RowsOf
  <2>3. \A k \in Keys(moved) : Near(child, k)
    <3> HIDE DEF moved, new, head, child
    <3> QED  BY <1>2, <1>5, <1>6 DEF Keys, Heeds, Near
  <2>4. kids \cup {} = kids /\ Keys({}) = {}  BY DEF Keys
  <2>5. \A r \in kids : InScope(r.key, child, Keys(moved))  OBVIOUS
  <2> HIDE DEF child, moved, kids
  <2>6. SoundStmt(second)  BY <1>1, <2>1, <2>4, <2>5 DEF SoundStmt, Stmt
  <2>7. FromWrite(ds, ans, second)  BY <1>2, <2>2, <2>3, <2>4 DEF FromWrite, Stmt
  <2> QED  BY <2>6, <2>7 DEF Stmt
<1>9. HashStmts(ds, ans, full) = {first, second} \cup Stmts(ToSet(ds.free), ans)  BY <1>3 DEF HashStmts
<1>10. ToSet(ds.free) \subseteq WritesOf(ds) /\ ToSet(ds.free) \cap {head, child} = {}  BY DatasetForm
<1> HIDE DEF head, child, new, moved, kids, first, second
<1>11. ASSUME NEW s \in Stmts(ToSet(ds.free), ans)
       PROVE  SoundStmt(s) /\ FromWrite(ds, ans, s) /\ s.w.table \notin {head.table, child.table}
  <2>1. SoundStmt(s) /\ s.w \in ToSet(ds.free) /\ FromWrite(ds, ans, s)  BY <1>10, StmtsForm
  <2>2. s.w \in WritesOf(ds) /\ s.w \notin {head, child}  BY <1>10, <2>1
  <2> QED  BY <1>2, <2>1, <2>2, DatasetForm
<1>12. \A s, t \in HashStmts(ds, ans, full) : s.w.table = t.w.table => s = t
  <2>1. \A s, t \in Stmts(ToSet(ds.free), ans) : s.w.table = t.w.table => s = t  BY <1>10, StmtsForm
  <2> QED  BY <1>2, <1>7, <1>8, <1>9, <1>11, <2>1
<1> QED  BY <1>7, <1>8, <1>9, <1>11, <1>12

\* So does a snapshot dataset, with the rows of its history that moved.
LEMMA SnapshotForm ==
    ASSUME NEW ds, SoundDataset(ds), ds.gate = "snapshot", NEW ans, IsAnswer(ans), NEW full
    PROVE  /\ \A s \in SnapshotStmts(ds, ans, full) : SoundStmt(s) /\ FromWrite(ds, ans, s)
           /\ \A s, t \in SnapshotStmts(ds, ans, full) : s.w.table = t.w.table => s = t
<1> DEFINE hist == ds.writes[2]
<1> DEFINE moved == FreshRows(ds.writes[1], RowsOf(ds.writes[1], ans, day), full)
<1> DEFINE kept == {h \in RowsOf(hist, ans, now + 1) : \E n \in moved : n.key.part = h.key.part}
<1>1. hist \in WriteShape /\ SoundWrite(hist) /\ hist.shape = "one" /\ hist.mode = "upsert"  BY DatasetForm
<1>2. IsTable(kept)
  <2>1. IsTable(RowsOf(hist, ans, now + 1))  BY <1>1, RowsTable DEF RowsOf
  <2> QED  BY <2>1 DEF IsTable
<1>3. SoundStmt(Stmt(hist, kept, {}, {})) /\ Stmt(hist, kept, {}, {}).w = hist
  <2>1. kept \cup {} = kept /\ Keys({}) = {}  BY DEF Keys
  <2> HIDE DEF kept, hist
  <2> QED  BY <1>1, <1>2, <2>1 DEF SoundStmt, Stmt
<1>4. SnapshotStmts(ds, ans, full) = Stmts(ToSet(ds.writes) \ {hist}, ans) \cup {Stmt(hist, kept, {}, {})}
  BY DEF SnapshotStmts
<1>5. ToSet(ds.writes) \ {hist} \subseteq WritesOf(ds)  BY DatasetForm
<1> HIDE DEF kept
<1>6. \A s \in Stmts(ToSet(ds.writes) \ {hist}, ans) :
         SoundStmt(s) /\ FromWrite(ds, ans, s) /\ s.w.table # hist.table
  <2>1. \A s \in Stmts(ToSet(ds.writes) \ {hist}, ans) :
           SoundStmt(s) /\ FromWrite(ds, ans, s) /\ s.w \in ToSet(ds.writes) \ {hist}
    BY <1>5, StmtsForm
  <2>2. hist \in WritesOf(ds)  BY DatasetForm
  <2> QED  BY <1>5, <2>1, <2>2, DatasetForm
<1>7. FromWrite(ds, ans, Stmt(hist, kept, {}, {}))
  <2>1. hist \in WritesOf(ds)  BY DatasetForm
  <2>2. \A r \in RowsOf(hist, ans, now + 1) : Heeds(hist, ans, r.key)
    <3> HIDE DEF hist
    <3> QED  BY <1>1, KeysHeed DEF RowsOf
  <2>3. \A r \in kept \cup {} : Heeds(hist, ans, r.key)  BY <2>2 DEF kept
  <2> HIDE DEF hist
  <2> QED  BY <2>1, <2>3 DEF FromWrite, Stmt
<1>8. \A s, t \in Stmts(ToSet(ds.writes) \ {hist}, ans) : s.w.table = t.w.table => s = t
  BY <1>5, StmtsForm
<1> QED  BY <1>3, <1>4, <1>6, <1>7, <1>8
\* A sync has one statement at most for a table, and each is sound.
LEMMA SyncForm ==
    ASSUME NEW ds, SoundDataset(ds), NEW ans \in Answers(ds), NEW full, NEW open
    PROVE  /\ \A s \in StmtsOf(ds, ans, full, open) : SoundStmt(s) /\ FromWrite(ds, ans, s)
           /\ \A s, t \in StmtsOf(ds, ans, full, open) : s.w.table = t.w.table => s = t
<1>1. IsAnswer(ans)  BY AnswerForm
<1>2. CASE ds.gate \in {"none", "asof"}
  <2>1. PICK W \in SUBSET WritesOf(ds) : StmtsOf(ds, ans, full, open) = Stmts(W, ans)
    <3> DEFINE W == ToSet(ds.free) \cup IF open THEN ToSet(ds.writes) ELSE {}
    <3>1. W \in SUBSET WritesOf(ds)  BY DatasetForm
    <3>2. Stmts(W, ans) = Stmts(ToSet(ds.free), ans) \cup IF open THEN Stmts(ToSet(ds.writes), ans) ELSE {}
      BY DEF Stmts
    <3>3. StmtsOf(ds, ans, full, open) = Stmts(W, ans)  BY <1>2, <3>2 DEF StmtsOf, AsOfStmts
    <3> QED  BY <3>1, <3>3
  <2>2. \A s \in Stmts(W, ans) : SoundStmt(s) /\ FromWrite(ds, ans, s)  BY <1>1, StmtsForm
  <2>3. \A s, t \in Stmts(W, ans) : s.w.table = t.w.table => s = t  BY <1>1, StmtsForm
  <2> QED  BY <2>1, <2>2, <2>3
<1>3. CASE ds.gate = "hash"  BY <1>1, <1>3, HashForm DEF StmtsOf
<1>4. CASE ds.gate = "snapshot"  BY <1>1, <1>4, SnapshotForm DEF StmtsOf
<1> QED  BY <1>2, <1>3, <1>4 DEF SoundDataset

\* The syncs of one table, and a database that lost rows by their keys alone.
UpsertOnly(t) == \A w \in AllWrites : w.table = t => w.mode = "upsert"
Lost(S, gone) == {r \in S : r.key \notin gone}

\* What is stored is a table, as the plain writer has it, and in the mirror.
StoredWell(t) ==
    /\ IsTable(rows[t]) /\ IsTable(plain[t])
    /\ Contents(rows[t]) = Contents(plain[t])
    /\ UpsertOnly(t) => rows[t] = plain[t]
    /\ {x \in mirror[t] : x.key \in Keys(rows[t])} = Contents(rows[t])

\* What the writer keeps of every table.
WriterInv == group \in DOMAIN Groups /\ \A t \in Tables : StoredWell(t)

\* A step of the writer on a table.
WriterStep(t, s) ==
    /\ rows'[t] = CollectedWrite(rows[t], s)
    /\ plain'[t] = PlainWrite(plain[t], s)
    /\ mirror'[t] = Heard(mirror[t], rows[t], s)

\* A step that leaves a table and what listeners know of it alone.
Untouched(t) == rows'[t] = rows[t] /\ plain'[t] = plain[t] /\ mirror'[t] = mirror[t]

\* A transaction with one statement for a table executes it there and nothing else.
LEMMA CommitForm ==
    ASSUME NEW sync, Commit(sync), NEW t \in Tables,
           \A s, u \in sync.stmts : s.w.table = u.w.table => s = u
    PROVE  /\ (\A s \in sync.stmts : s.w.table # t) => Untouched(t)
           /\ \A s \in sync.stmts : s.w.table = t => WriterStep(t, s)
<1> DEFINE On == {s \in sync.stmts : s.w.table = t}
<1>1. /\ rows'[t] = After(rows[t], {CollectedWrite(rows[t], s) : s \in On})
      /\ plain'[t] = After(plain[t], {PlainWrite(plain[t], s) : s \in On})
      /\ mirror'[t] = After(mirror[t], {Heard(mirror[t], rows[t], s) : s \in On})
  BY DEF Commit
<1> HIDE DEF On
<1>2. ASSUME On = {} PROVE Untouched(t)
  <2>1. /\ {CollectedWrite(rows[t], s) : s \in On} = {}
        /\ {PlainWrite(plain[t], s) : s \in On} = {}
        /\ {Heard(mirror[t], rows[t], s) : s \in On} = {}
    BY <1>2
  <2>2. \A T : After(T, {}) = T  BY DEF After
  <2>3. rows'[t] = rows[t]  BY <1>1, <2>1, <2>2, Zenon
  <2>4. plain'[t] = plain[t]  BY <1>1, <2>1, <2>2, Zenon
  <2>5. mirror'[t] = mirror[t]  BY <1>1, <2>1, <2>2, Zenon
  <2> QED  BY <2>3, <2>4, <2>5 DEF Untouched
<1>3. ASSUME NEW s \in sync.stmts, s.w.table = t PROVE WriterStep(t, s)
  <2>1. On = {s}  BY <1>3 DEF On
  <2>2. /\ {CollectedWrite(rows[t], u) : u \in On} = {CollectedWrite(rows[t], s)}
        /\ {PlainWrite(plain[t], u) : u \in On} = {PlainWrite(plain[t], s)}
        /\ {Heard(mirror[t], rows[t], u) : u \in On} = {Heard(mirror[t], rows[t], s)}
    BY <2>1
  <2>3. \A T, x : After(T, {x}) = x  BY DEF After
  <2>4. rows'[t] = CollectedWrite(rows[t], s)  BY <1>1, <2>2, <2>3, ZenonT(60)
  <2>5. plain'[t] = PlainWrite(plain[t], s)  BY <1>1, <2>2, <2>3, ZenonT(60)
  <2>6. mirror'[t] = Heard(mirror[t], rows[t], s)  BY <1>1, <2>2, <2>3, ZenonT(60)
  <2> QED  BY <2>4, <2>5, <2>6 DEF WriterStep
<1>4. (\A s \in sync.stmts : s.w.table # t) => On = {}  BY DEF On
<1> QED  BY <1>2, <1>3, <1>4

\* What a sync does to the tables: each is left, or written by one statement.
Synced(ds, stmts, ans) ==
    /\ \A s \in stmts : SoundStmt(s) /\ FromWrite(ds, ans, s) /\ s.w.table \in Tables /\ WriterStep(s.w.table, s)
    /\ \A t \in Tables : (\A s \in stmts : s.w.table # t) => Untouched(t)

\* A sync's transaction executes statements of the dataset's writes.
LEMMA SyncWrites ==
    ASSUME group \in DOMAIN Groups, NEW ds \in Mates, NEW ans \in Answers(ds), NEW full,
           Commit(SyncOf(ds, ans, full))
    PROVE  Synced(ds, SyncOf(ds, ans, full).stmts, ans)
<1> DEFINE stmts == SyncOf(ds, ans, full).stmts
<1>1. SoundDataset(ds)  BY GroupsAssumption DEF Mates
<1>2. PICK open : stmts = StmtsOf(ds, ans, full, open)  BY DEF SyncOf
<1>3. /\ \A s \in stmts : SoundStmt(s) /\ FromWrite(ds, ans, s)
      /\ \A s, u \in stmts : s.w.table = u.w.table => s = u
  BY <1>1, <1>2, SyncForm
<1>4. \A s \in stmts : s.w \in AllWrites /\ s.w.table \in Tables
  BY <1>3 DEF FromWrite, AllWrites, GroupWrites, Mates, Tables, GroupTables
<1>5. \A t \in Tables : /\ (\A s \in stmts : s.w.table # t) => Untouched(t)
                        /\ \A s \in stmts : s.w.table = t => WriterStep(t, s)
  BY <1>3, CommitForm
<1> QED  BY <1>3, <1>4, <1>5 DEF Synced

\* A sync is an answer and the transaction it leads to, at the next moment.
LEMMA SyncSteps ==
    ASSUME group \in DOMAIN Groups, NEW ds \in Mates, Sync(ds)
    PROVE  /\ UNCHANGED <<group, day, prunes>> /\ now' = now + 1 /\ now < MaxSyncs[group]
           /\ \E ans, full : ans \in Answers(ds) /\
                 Commit(SyncOf(ds, ans, full)) /\ Synced(ds, SyncOf(ds, ans, full).stmts, ans)
<1>1. PICK ans \in Answers(ds), full \in BOOLEAN : Commit(SyncOf(ds, ans, full))  BY DEF Sync
<1> QED  BY <1>1, SyncWrites DEF Sync

\* Each table, one by one.
LEMMA TableSynced ==
    ASSUME NEW ds, NEW stmts, NEW ans, Synced(ds, stmts, ans), NEW t \in Tables
    PROVE  \/ Untouched(t)
           \/ \E s \in stmts : s.w.table = t /\ WriterStep(t, s) /\ SoundStmt(s) /\ FromWrite(ds, ans, s)
  BY DEF Synced

\* A sync keeps the writer's invariant, whatever it is answered.
LEMMA SyncWell ==
    ASSUME WriterInv, NEW ds \in Mates, Sync(ds)
    PROVE  WriterInv'
<1>1. PICK ans, stmts : Synced(ds, stmts, ans)  BY SyncSteps DEF WriterInv
<1>2. group' = group /\ Tables' = Tables /\ AllWrites' = AllWrites
  BY SyncSteps DEF Tables, AllWrites, WriterInv
<1>3. ASSUME NEW t \in Tables, Untouched(t) PROVE StoredWell(t)'
  BY <1>2, <1>3 DEF WriterInv, StoredWell, Untouched, UpsertOnly
<1>4. ASSUME NEW t \in Tables, NEW s, s.w.table = t, WriterStep(t, s), SoundStmt(s), FromWrite(ds, ans, s)
      PROVE  StoredWell(t)'
  <2>1. StoredWell(t)  BY DEF WriterInv
  <2>2. IsTable(rows'[t]) /\ IsTable(plain'[t])
    BY <1>4, <2>1, WriteTable, PlainTable DEF StoredWell, WriterStep
  <2>3. Contents(rows'[t]) = Contents(plain'[t])  BY <1>4, <2>1, SameContents DEF StoredWell, WriterStep
  <2>4. {x \in mirror'[t] : x.key \in Keys(rows'[t])} = Contents(rows'[t])
    BY <1>4, <2>1, HeardExactly DEF StoredWell, WriterStep
  <2>5. ASSUME UpsertOnly(t) PROVE rows'[t] = plain'[t]
    <3>1. s.w \in AllWrites
      BY <1>4 DEF FromWrite, AllWrites, GroupWrites, Mates, WriterInv
    <3>2. s.w.mode # "replace"  BY <1>4, <2>5, <3>1 DEF UpsertOnly
    <3> QED  BY <1>4, <2>1, <2>5, <3>2, SameRows DEF StoredWell, WriterStep
  <2>6. UpsertOnly(t)' <=> UpsertOnly(t)  BY <1>2 DEF UpsertOnly
  <2> QED  BY <2>2, <2>3, <2>4, <2>5, <2>6 DEF StoredWell
<1> QED  BY <1>1, <1>2, <1>3, <1>4, TableSynced DEF WriterInv

\* Deleting by key keeps what is stored a table, as the plain writer has it.
LEMMA LostWell ==
    ASSUME NEW t \in Tables, StoredWell(t), UNCHANGED group, NEW gone, mirror'[t] = mirror[t],
           rows'[t] = Lost(rows[t], gone), plain'[t] = Lost(plain[t], gone)
    PROVE  StoredWell(t)'
<1>1. \A S : Contents(Lost(S, gone)) = {x \in Contents(S) : x.key \notin gone}
  <2>1. \A r : Content(r).key = r.key  BY DEF Content
  <2> QED  BY <2>1 DEF Contents, Lost
<1>2. IsTable(rows'[t]) /\ IsTable(plain'[t])  BY DEF StoredWell, IsTable, Lost
<1>3. Contents(rows'[t]) = Contents(plain'[t])  BY <1>1 DEF StoredWell
<1>4. {x \in mirror'[t] : x.key \in Keys(rows'[t])} = Contents(rows'[t])
  <2>1. \A k : k \in Keys(Lost(rows[t], gone)) <=> k \in Keys(rows[t]) /\ k \notin gone  BY DEF Lost, Keys
  <2>2. {x \in mirror[t] : x.key \in Keys(rows[t])} = Contents(rows[t])  BY DEF StoredWell
  <2> QED  BY <1>1, <2>1, <2>2
<1>5. UpsertOnly(t)' <=> UpsertOnly(t)  BY DEF UpsertOnly, AllWrites
<1>6. UpsertOnly(t) => rows'[t] = plain'[t]  BY DEF StoredWell
<1> QED  BY <1>2, <1>3, <1>4, <1>5, <1>6 DEF StoredWell

\* What is deleted of a table, by keys.
ByKeys(D, S, gone) == D = {r \in S : r.key \in gone}

\* The days of a table, and whether it has rows, can be told from its keys.
LEMMA DaysByKeys ==
    ASSUME NEW S, NEW P, Keys(S) = Keys(P)
    PROVE  Days(S) = Days(P) /\ (S = {} <=> P = {})
<1>1. \A T : Days(T) = {k.day : k \in Keys(T)}  BY DEF Days, Keys
<1>2. \A T : T = {} <=> Keys(T) = {}  BY ZenonT(60) DEF Keys
<1> QED  BY <1>1, <1>2

\* So can what retention deletes of a table of dated answers.
LEMMA AsOfByKeys ==
    ASSUME NEW S, NEW P, Keys(S) = Keys(P), NEW t, NEW before
    PROVE  \E gone : ByKeys(PruneAsOf(t, S, before), S, gone) /\ ByKeys(PruneAsOf(t, P, before), P, gone)
<1>1. Protected(t, S, before) = Protected(t, P, before)
  <2>1. Days(S) = Days(P) /\ (S = {} <=> P = {})  BY DaysByKeys
  <2>2. Max(Days(S)) = Max(Days(P))  BY <2>1
  <2>3. (IF S # {} /\ Max(Days(S)) < before THEN {Max(Days(S))} ELSE {})
           = (IF P # {} /\ Max(Days(P)) < before THEN {Max(Days(P))} ELSE {})
    BY <2>1, <2>2
  <2> DEFINE gateDays == {gates[<<ds.name, p>>].day :
        ds \in {x \in Mates : x.gate = "asof" /\ \E w \in ToSet(x.writes) : w.table = t},
        p \in Parts \cup {"*"}}
  <2>4. \A T : Protected(t, T, before)
                 = gateDays \cup (IF T # {} /\ Max(Days(T)) < before THEN {Max(Days(T))} ELSE {})
    BY DEF Protected
  <2> HIDE DEF gateDays
  <2> QED  BY <2>3, <2>4
<1> DEFINE gone == {k \in Keys(S) : k.day < before /\ k.day \notin Protected(t, S, before)}
<1>2. ByKeys(PruneAsOf(t, S, before), S, gone)  BY DEF ByKeys, PruneAsOf, Keys
<1>3. ByKeys(PruneAsOf(t, P, before), P, gone)  BY <1>1 DEF ByKeys, PruneAsOf, Keys
<1> QED  BY <1>2, <1>3

\* Two databases with the same keys in every table.
SameKeys(A, B) == \A t \in Tables : Keys(A[t]) = Keys(B[t])

\* So can what it deletes of the screens.
LEMMA ScreensByKeys ==
    ASSUME NEW A, NEW B, SameKeys(A, B), {"screen_runs", "screen_members"} \subseteq Tables,
           NEW t \in Tables, NEW before
    PROVE  \E gone : /\ ByKeys(PruneScreens(A, t, before), A[t], gone)
                     /\ ByKeys(PruneScreens(B, t, before), B[t], gone)
<1> DEFINE newest(db) == Max({0} \cup Days(db["screen_runs"]))
<1> DEFINE members(db) == {r \in db["screen_members"] : r.key.day < before /\ r.key.day # newest(db)}
<1>1. newest(A) = newest(B)
  <2>1. Keys(A["screen_runs"]) = Keys(B["screen_runs"])  BY DEF SameKeys
  <2>2. Days(A["screen_runs"]) = Days(B["screen_runs"])  BY <2>1, DaysByKeys
  <2> QED  BY <2>2
<1> HIDE DEF newest
<1>2. members(A) = {} <=> members(B) = {}
  <2>1. Keys(A["screen_members"]) = Keys(B["screen_members"])  BY DEF SameKeys
  <2> QED  BY <1>1, <2>1 DEF Keys
<1>3. Keys(A[t]) = Keys(B[t])  BY DEF SameKeys
<1> DEFINE aged == {k \in Keys(A[t]) : k.day < before /\ k.day # newest(A)}
<1> DEFINE stale == {k \in Keys(A[t]) : k.day < before /\ \E l \in Keys(A[t]) : l.item = k.item /\ l.day > k.day}
<1> DEFINE gone == IF t = "screen_members" THEN aged
                   ELSE IF t = "screen_runs" THEN (IF members(A) = {} THEN {} ELSE aged)
                   ELSE IF t = "screen_quotes" THEN stale ELSE {}
<1>4. ASSUME NEW db, newest(db) = newest(A), Keys(db[t]) = Keys(A[t]), members(db) = {} <=> members(A) = {}
      PROVE  ByKeys(PruneScreens(db, t, before), db[t], gone)
  <2>0. PruneScreens(db, t, before) =
           CASE t = "screen_members" -> members(db)
             [] t = "screen_runs" -> {r \in db[t] : members(db) # {} /\ r.key.day < before /\ r.key.day # newest(db)}
             [] t = "screen_quotes" -> {r \in db[t] : r.key.day < before /\
                                           \E s \in db[t] : s.key.item = r.key.item /\ s.key.day > r.key.day}
             [] OTHER -> {}
    BY DEF PruneScreens, newest
  <2>5. \A r \in db[t] : r.key \in Keys(A[t])  BY <1>4 DEF Keys
  <2>6. \A k \in Keys(A[t]) : \E r \in db[t] : r.key = k  BY <1>4 DEF Keys
  <2>1. CASE t = "screen_members"
    <3>1. PruneScreens(db, t, before) = members(db) /\ gone = aged  BY <2>0, <2>1
    <3> QED  BY <3>1, <2>1, <2>5, <1>4 DEF ByKeys
  <2>2. CASE t = "screen_runs"
    <3>1. PruneScreens(db, t, before)
            = {r \in db[t] : members(db) # {} /\ r.key.day < before /\ r.key.day # newest(db)}
      BY <2>0, <2>2
    <3>2. gone = IF members(A) = {} THEN {} ELSE aged  BY <2>2
    <3> HIDE DEF members
    <3> QED  BY <3>1, <3>2, <2>5, <1>4 DEF ByKeys
  <2>3. CASE t = "screen_quotes"
    <3>1. PruneScreens(db, t, before)
            = {r \in db[t] : r.key.day < before /\
                                           \E s \in db[t] : s.key.item = r.key.item /\ s.key.day > r.key.day}
      BY <2>0, <2>3
    <3>2. gone = stale  BY <2>3
    <3> HIDE DEF members
    <3>3. ASSUME NEW r \in db[t]
          PROVE  (\E s \in db[t] : s.key.item = r.key.item /\ s.key.day > r.key.day)
                 <=> \E l \in Keys(A[t]) : l.item = r.key.item /\ l.day > r.key.day
      BY <2>5, <2>6
    <3> QED  BY <3>1, <3>2, <3>3, <2>5 DEF ByKeys
  <2>4. CASE t \notin {"screen_members", "screen_runs", "screen_quotes"}
    <3>1. PruneScreens(db, t, before) = {} /\ gone = {}  BY <2>0, <2>4
    <3> QED  BY <3>1 DEF ByKeys
  <2> QED  BY <2>1, <2>2, <2>3, <2>4
<1>5. ByKeys(PruneScreens(A, t, before), A[t], gone)  BY <1>4
<1>6. ByKeys(PruneScreens(B, t, before), B[t], gone)  BY <1>1, <1>2, <1>3, <1>4
<1> QED  BY <1>5, <1>6

\* So can what links to a table.
LEMMA LinkedByKeys ==
    ASSUME NEW A, NEW B, SameKeys(A, B), NEW ts
    PROVE  Linked(A, ts) = Linked(B, ts)
<1>1. \A db, t : {r.key.item : r \in db[t]} = {k.item : k \in Keys(db[t])}  BY DEF Keys
<1> QED  BY <1>1, ZenonT(60) DEF Linked, SameKeys

\* Rows lost twice are lost once, by both sets of keys.
LEMMA LostTwice == \A S, g, h : Lost(Lost(S, g), h) = Lost(S, g \cup h)
  BY DEF Lost

\* A table that lost rows has the other keys.
LEMMA LostKeys == \A S, g : Keys(Lost(S, g)) = Keys(S) \ g
  BY DEF Lost, Keys

\* Removing what was chosen by key is losing those keys.
LEMMA LessByKeys == \A S, D, g : ByKeys(D, S, g) => S \ D = Lost(S, g)
  BY DEF ByKeys, Lost

\* Two databases with the same keys lose the same ones.
LostAlike(A, B, C, D) == \A t \in Tables : \E gone : C[t] = Lost(A[t], gone) /\ D[t] = Lost(B[t], gone)

\* Databases of the same keys that lose the same keys have the same keys.
LEMMA AlikeKeys ==
    ASSUME NEW A, NEW B, NEW C, NEW D, SameKeys(A, B), LostAlike(A, B, C, D)
    PROVE  SameKeys(C, D)
<1> SUFFICES ASSUME NEW t \in Tables PROVE Keys(C[t]) = Keys(D[t])  BY DEF SameKeys
<1>1. PICK gone : C[t] = Lost(A[t], gone) /\ D[t] = Lost(B[t], gone)  BY DEF LostAlike
<1>2. Keys(C[t]) = Keys(A[t]) \ gone /\ Keys(D[t]) = Keys(B[t]) \ gone  BY <1>1, LostKeys, Zenon
<1> QED  BY <1>2 DEF SameKeys

\* Losing alike twice is losing alike.
LEMMA AlikeTwice ==
    ASSUME NEW A, NEW B, NEW C, NEW D, NEW E, NEW F, LostAlike(A, B, C, D), LostAlike(C, D, E, F)
    PROVE  LostAlike(A, B, E, F)
<1> SUFFICES ASSUME NEW t \in Tables PROVE \E gone : E[t] = Lost(A[t], gone) /\ F[t] = Lost(B[t], gone)
  BY DEF LostAlike
<1>1. PICK g : C[t] = Lost(A[t], g) /\ D[t] = Lost(B[t], g)  BY DEF LostAlike
<1>2. PICK h : E[t] = Lost(C[t], h) /\ F[t] = Lost(D[t], h)  BY DEF LostAlike
<1>3. E[t] = Lost(A[t], g \cup h) /\ F[t] = Lost(B[t], g \cup h)  BY <1>1, <1>2, LostTwice
<1> QED  BY <1>3

\* The three stages of a prune.
FirstPruned(db) == [t \in Tables |-> db[t] \ (IF t = "news" THEN OrphanNews(db) ELSE {})]
\* The stages of a retention run: what the dated rules delete, ...
Overdue(db, t, before, since, past) ==
    {r \in db[t] : t \in CalendarTables /\ r.key.item \in past}
    \cup {r \in db[t] : t \in HistoryTables /\ r.key.day < since}
    \cup (IF t \in AsOfTables /\ (\A w \in AllWrites : w.table = t => "day" \in w.key)
          THEN PruneAsOf(t, db[t], before) ELSE {})
    \cup (IF "screen_runs" \in Tables THEN PruneScreens(db, t, before) ELSE {})

\* ... the database after them, ...
DatedPruned(db, before, since, past) == [t \in Tables |-> db[t] \ Overdue(db, t, before, since, past)]
\* ... and after the reports that nothing links to any more.
LastPruned(db) == [t \in Tables |-> db[t] \ (IF t = "research_reports" THEN OrphanReports(db) ELSE {})]

\* RunPrune is those stages, one after the other.
LEMMA PruneStages ==
    ASSUME NEW db, NEW before, NEW since, NEW past
    PROVE  RunPrune(db, before, since, past) = LastPruned(DatedPruned(FirstPruned(db), before, since, past))
<1> DEFINE first == FirstPruned(db)
<1> DEFINE dated == [t \in Tables |->
                    {r \in first[t] : ~(t \in CalendarTables /\ r.key.item \in past)}
                    \ ({r \in first[t] : t \in HistoryTables /\ r.key.day < since}
                       \cup (IF t \in AsOfTables /\ (\A w \in AllWrites : w.table = t => "day" \in w.key)
                             THEN PruneAsOf(t, first[t], before) ELSE {})
                       \cup (IF "screen_runs" \in Tables THEN PruneScreens(first, t, before) ELSE {}))]
<1>1. RunPrune(db, before, since, past) = LastPruned(dated)  BY DEF RunPrune, FirstPruned, LastPruned
<1> HIDE DEF first
<1>2. dated = DatedPruned(first, before, since, past)
  <2> SUFFICES ASSUME NEW t \in Tables PROVE dated[t] = first[t] \ Overdue(first, t, before, since, past)
    BY DEF DatedPruned
  <2> QED  BY DEF Overdue
<1> QED  BY <1>1, <1>2 DEF first

\* The first stage deletes by key: two databases of the same keys lose the same.
LEMMA FirstAlike ==
    ASSUME NEW A, NEW B, SameKeys(A, B)
    PROVE  LostAlike(A, B, FirstPruned(A), FirstPruned(B))
<1> SUFFICES ASSUME NEW t \in Tables
             PROVE  \E gone : FirstPruned(A)[t] = Lost(A[t], gone) /\ FirstPruned(B)[t] = Lost(B[t], gone)
  BY DEF LostAlike
<1> DEFINE gone == IF t = "news" THEN {k \in Keys(A[t]) : k.item \notin Linked(A, {"news_symbols"})} ELSE {}
<1>1. Keys(A[t]) = Keys(B[t]) /\ Linked(A, {"news_symbols"}) = Linked(B, {"news_symbols"})
  BY LinkedByKeys DEF SameKeys
<1>2. FirstPruned(A)[t] = Lost(A[t], gone)  BY DEF FirstPruned, Lost, OrphanNews, Keys
<1>3. FirstPruned(B)[t] = Lost(B[t], gone)  BY <1>1 DEF FirstPruned, Lost, OrphanNews, Keys
<1> QED  BY <1>2, <1>3

\* So does the last stage.
LEMMA LastAlike ==
    ASSUME NEW A, NEW B, SameKeys(A, B)
    PROVE  LostAlike(A, B, LastPruned(A), LastPruned(B))
<1> SUFFICES ASSUME NEW t \in Tables
             PROVE  \E gone : LastPruned(A)[t] = Lost(A[t], gone) /\ LastPruned(B)[t] = Lost(B[t], gone)
  BY DEF LostAlike
<1> DEFINE linked(db) == Linked(db, {"domain_report_links", "search_report_hits"})
<1> DEFINE gone == IF t = "research_reports" THEN {k \in Keys(A[t]) : k.item \notin linked(A)} ELSE {}
<1>1. Keys(A[t]) = Keys(B[t]) /\ linked(A) = linked(B)
  BY LinkedByKeys DEF SameKeys
<1>2. LastPruned(A)[t] = Lost(A[t], gone)  BY DEF LastPruned, Lost, OrphanReports, Keys
<1>3. LastPruned(B)[t] = Lost(B[t], gone)  BY <1>1 DEF LastPruned, Lost, OrphanReports, Keys
<1> QED  BY <1>2, <1>3

\* So does the stage between them.
LEMMA DatedAlike ==
    ASSUME NEW A, NEW B, SameKeys(A, B), group \in DOMAIN Groups, NEW before, NEW since, NEW past
    PROVE  LostAlike(A, B, DatedPruned(A, before, since, past), DatedPruned(B, before, since, past))
<1> SUFFICES ASSUME NEW t \in Tables
             PROVE  \E gone : /\ DatedPruned(A, before, since, past)[t] = Lost(A[t], gone)
                              /\ DatedPruned(B, before, since, past)[t] = Lost(B[t], gone)
  BY DEF LostAlike
<1>0. Keys(A[t]) = Keys(B[t])  BY DEF SameKeys
<1> DEFINE over(k) == t \in CalendarTables /\ k.item \in past
<1> DEFINE old(k) == t \in HistoryTables /\ k.day < since
<1> DEFINE aged(S) == IF t \in AsOfTables /\ (\A w \in AllWrites : w.table = t => "day" \in w.key)
                      THEN PruneAsOf(t, S, before) ELSE {}
<1> DEFINE screened(db) == IF "screen_runs" \in Tables THEN PruneScreens(db, t, before) ELSE {}
<1>1. PICK g : ByKeys(aged(A[t]), A[t], g) /\ ByKeys(aged(B[t]), B[t], g)
  <2>1. ByKeys({}, A[t], {}) /\ ByKeys({}, B[t], {})  BY DEF ByKeys
  <2>2. PICK g : ByKeys(PruneAsOf(t, A[t], before), A[t], g) /\ ByKeys(PruneAsOf(t, B[t], before), B[t], g)
    BY <1>0, AsOfByKeys
  <2> QED  BY <2>1, <2>2
<1>2. PICK h : ByKeys(screened(A), A[t], h) /\ ByKeys(screened(B), B[t], h)
  <2>1. ByKeys({}, A[t], {}) /\ ByKeys({}, B[t], {})  BY DEF ByKeys
  <2>2. ASSUME "screen_runs" \in Tables
        PROVE  \E x : /\ ByKeys(PruneScreens(A, t, before), A[t], x)
                      /\ ByKeys(PruneScreens(B, t, before), B[t], x)
    <3>1. "screen_members" \in Tables  BY <2>2, GroupsAssumption DEF Tables
    <3> QED  BY <2>2, <3>1, ScreensByKeys
  <2> QED  BY <2>1, <2>2
<1> DEFINE gone == {k \in Keys(A[t]) : over(k) \/ old(k)} \cup g \cup h
<1>3. ASSUME NEW db, Keys(db[t]) = Keys(A[t]), ByKeys(aged(db[t]), db[t], g), ByKeys(screened(db), db[t], h)
      PROVE  DatedPruned(db, before, since, past)[t] = Lost(db[t], gone)
  <2>1. Overdue(db, t, before, since, past)
          = {r \in db[t] : over(r.key)} \cup {r \in db[t] : old(r.key)} \cup aged(db[t]) \cup screened(db)
    BY DEF Overdue
  <2> HIDE DEF over, old, aged, screened
  <2>2. ByKeys(Overdue(db, t, before, since, past), db[t], gone)
    BY <1>3, <2>1 DEF ByKeys, Keys
  <2> QED  BY <2>2, LessByKeys DEF DatedPruned
<1> HIDE DEF gone, aged, screened
<1>4. DatedPruned(A, before, since, past)[t] = Lost(A[t], gone)  BY <1>1, <1>2, <1>3
<1>5. DatedPruned(B, before, since, past)[t] = Lost(B[t], gone)  BY <1>0, <1>1, <1>2, <1>3
<1> QED  BY <1>4, <1>5

\* So does the whole of a retention run.
LEMMA PruneAlike ==
    ASSUME NEW A, NEW B, SameKeys(A, B), group \in DOMAIN Groups, NEW before, NEW since, NEW past
    PROVE  LostAlike(A, B, RunPrune(A, before, since, past), RunPrune(B, before, since, past))
<1> DEFINE dated(db) == DatedPruned(FirstPruned(db), before, since, past)
<1>1. LostAlike(A, B, FirstPruned(A), FirstPruned(B)) /\ SameKeys(FirstPruned(A), FirstPruned(B))
  BY FirstAlike, AlikeKeys
<1>2. LostAlike(FirstPruned(A), FirstPruned(B), dated(A), dated(B)) /\ SameKeys(dated(A), dated(B))
  BY <1>1, DatedAlike, AlikeKeys
<1>3. LostAlike(dated(A), dated(B), LastPruned(dated(A)), LastPruned(dated(B)))  BY <1>2, LastAlike
<1>4. LostAlike(A, B, LastPruned(dated(A)), LastPruned(dated(B)))
  <2> HIDE DEF dated
  <2> QED  BY <1>1, <1>2, <1>3, AlikeTwice
<1> QED  BY <1>4, PruneStages

\* The writer's tables have the keys of the naive writer's.
LEMMA WriterSameKeys == WriterInv => SameKeys(rows, plain)
<1> SUFFICES ASSUME WriterInv, NEW t \in Tables PROVE Keys(rows[t]) = Keys(plain[t])  BY DEF SameKeys
<1>1. \A S : Keys(S) = {x.key : x \in Contents(S)}
  <2>1. \A r : Content(r).key = r.key  BY DEF Content
  <2> QED  BY <2>1 DEF Keys, Contents
<1> QED  BY <1>1 DEF WriterInv, StoredWell

\* Retention and the purge lose rows by their keys.
LEMMA LostInv ==
    ASSUME WriterInv, UNCHANGED <<group, mirror>>, LostAlike(rows, plain, rows', plain')
    PROVE  WriterInv'
<1>1. Tables' = Tables  BY DEF Tables
<1>2. ASSUME NEW t \in Tables PROVE StoredWell(t)'
  <2>1. PICK gone : rows'[t] = Lost(rows[t], gone) /\ plain'[t] = Lost(plain[t], gone)  BY DEF LostAlike
  <2> QED  BY <2>1, LostWell DEF WriterInv
<1> QED  BY <1>1, <1>2 DEF WriterInv

\* Retention keeps the writer's invariant, and deletes from what is stored what it
\* would delete from what the naive writer stored.
LEMMA PruneWell == WriterInv /\ Prune => WriterInv' /\ LostAlike(rows, plain, rows', plain')
<1> SUFFICES ASSUME WriterInv, Prune PROVE WriterInv' /\ LostAlike(rows, plain, rows', plain')  OBVIOUS
<1>1. PICK before, since, past : rows' = RunPrune(rows, before, since, past)
                                 /\ plain' = RunPrune(plain, before, since, past)
  BY DEF Prune
<1>2. LostAlike(rows, plain, rows', plain')  BY <1>1, PruneAlike, WriterSameKeys DEF WriterInv
<1> QED  BY <1>2, LostInv DEF Prune

\* So does the purge of a symbol.
LEMMA PurgeWell == WriterInv /\ Purge => WriterInv' /\ LostAlike(rows, plain, rows', plain')
<1> SUFFICES ASSUME WriterInv, Purge PROVE WriterInv' /\ LostAlike(rows, plain, rows', plain')  OBVIOUS
<1> DEFINE kept(t, k) == (t \in Scoped => k.owner # Owner) /\ (t = "symbols" => k.item # Owner)
<1>1. ASSUME NEW t \in Tables
      PROVE  \E gone : rows'[t] = Lost(rows[t], gone) /\ plain'[t] = Lost(plain[t], gone)
  <2>1. rows'[t] = {r \in rows[t] : kept(t, r.key)} /\ plain'[t] = {r \in plain[t] : kept(t, r.key)}
    BY DEF Purge
  <2>2. Keys(rows[t]) = Keys(plain[t])  BY WriterSameKeys DEF SameKeys
  <2> DEFINE gone == {k \in Keys(rows[t]) : ~kept(t, k)}
  <2>3. rows'[t] = Lost(rows[t], gone)  BY <2>1 DEF Lost, Keys
  <2>4. plain'[t] = Lost(plain[t], gone)  BY <2>1, <2>2 DEF Lost, Keys
  <2> QED  BY <2>3, <2>4
<1>2. LostAlike(rows, plain, rows', plain')  BY <1>1 DEF LostAlike
<1> QED  BY <1>2, LostInv DEF Purge

\* The row another run puts into `symbols`.
NewSymbol(x, moment) ==
    [key |-> [owner |-> "-", day |-> 0, part |-> "-", item |-> x], c |-> {}, d |-> {}, e |-> {},
     known |-> FALSE, seen |-> moment]
\* A table with one row put in place of the one that had its key.
Placed(S, r) == {y \in S : y.key # r.key} \cup {r}

\* Adding a symbol writes its row in symbols and touches no other table.
LEMMA AddForm ==
    ASSUME NEW x, AddSymbol(x)
    PROVE  /\ UNCHANGED <<group, now, day, gates, told>>
           /\ \A t \in Tables :
                 IF t = "symbols"
                 THEN /\ rows'[t] = Placed(rows[t], NewSymbol(x, now))
                      /\ plain'[t] = Placed(plain[t], NewSymbol(x, now))
                      /\ mirror'[t] = Placed(mirror[t], Content(NewSymbol(x, now)))
                 ELSE Untouched(t)
  BY DEF AddSymbol, NewSymbol, Placed, Untouched

\* Adding a symbol keeps the writer's invariant.
LEMMA AddWell ==
    ASSUME WriterInv, NEW x, AddSymbol(x)
    PROVE  WriterInv'
<1> DEFINE new == NewSymbol(x, now)
<1>1. UNCHANGED group /\ Tables' = Tables /\ AllWrites' = AllWrites  BY AddForm DEF Tables, AllWrites
<1>2. ASSUME NEW t \in Tables, Untouched(t) PROVE StoredWell(t)'
  BY <1>1, <1>2 DEF WriterInv, StoredWell, Untouched, UpsertOnly
<1>3. ASSUME NEW t \in Tables, t = "symbols" PROVE StoredWell(t)'
  <2>1. /\ rows'[t] = Placed(rows[t], new) /\ plain'[t] = Placed(plain[t], new)
        /\ mirror'[t] = Placed(mirror[t], Content(new))
    BY <1>3, AddForm
  <2>2. IsRow(new)  BY DEF NewSymbol, IsRow, IsKey
  <2>3. StoredWell(t)  BY DEF WriterInv
  <2> HIDE DEF new
  <2>4. \A S : Contents(Placed(S, new)) = {y \in Contents(S) : y.key # new.key} \cup {Content(new)}
    BY DEF Contents, Placed, Content
  <2>5. IsTable(rows'[t]) /\ IsTable(plain'[t])  BY <2>1, <2>2, <2>3 DEF StoredWell, IsTable, Placed
  <2>6. Contents(rows'[t]) = Contents(plain'[t])  BY <2>1, <2>3, <2>4 DEF StoredWell
  <2>7. Content(new).key = new.key  BY DEF Content
  <2>8. {y \in mirror'[t] : y.key \in Keys(rows'[t])} = Contents(rows'[t])
    <3>1. {y \in mirror[t] : y.key \in Keys(rows[t])} = Contents(rows[t])  BY <2>3 DEF StoredWell
    <3>2. \A k : k \in Keys(Placed(rows[t], new)) <=> k \in Keys(rows[t]) \/ k = new.key  BY DEF Placed, Keys
    <3>3. \A y \in Contents(rows[t]) : y.key \in Keys(rows[t])  BY DEF Contents, Content, Keys
    <3>4. mirror'[t] = {y \in mirror[t] : y.key # new.key} \cup {Content(new)}
      BY <2>1, <2>7 DEF Placed
    <3> QED  BY <2>1, <2>4, <2>7, <3>1, <3>2, <3>3, <3>4
  <2>9. UpsertOnly(t)' <=> UpsertOnly(t)  BY <1>1 DEF UpsertOnly
  <2>10. UpsertOnly(t) => rows'[t] = plain'[t]  BY <2>1, <2>3 DEF StoredWell
  <2> QED  BY <2>5, <2>6, <2>8, <2>9, <2>10 DEF StoredWell
<1> QED  BY <1>1, <1>2, <1>3, AddForm DEF WriterInv

\* It holds of the empty database, ...
LEMMA WriterInit == SyncInit => WriterInv
<1> SUFFICES ASSUME SyncInit PROVE WriterInv  OBVIOUS
<1>1. ASSUME NEW t \in Tables PROVE StoredWell(t)
  <2>1. rows[t] = (IF t = "symbols" THEN {NewSymbol(Owner, 0)} ELSE {})  BY DEF SyncInit, NewSymbol
  <2>2. IsRow(NewSymbol(Owner, 0))  BY DEF NewSymbol, IsRow, IsKey
  <2>3. IsTable(rows[t])  BY <2>1, <2>2 DEF IsTable
  <2>4. plain = rows /\ mirror[t] = Contents(rows[t])  BY DEF SyncInit
  <2>5. \A x \in Contents(rows[t]) : x.key \in Keys(rows[t])  BY DEF Contents, Content, Keys
  <2> QED  BY <2>3, <2>4, <2>5 DEF StoredWell
<1> QED  BY <1>1 DEF WriterInv, SyncInit

\* ... and every step keeps it.
LEMMA WriterNext == WriterInv /\ [SyncNext]_syncVars => WriterInv'
<1> SUFFICES ASSUME WriterInv, [SyncNext]_syncVars PROVE WriterInv'  OBVIOUS
<1>1. ASSUME NEW ds \in Mates, Sync(ds) PROVE WriterInv'  BY <1>1, SyncWell
<1>2. ASSUME NEW x, AddSymbol(x) PROVE WriterInv'  BY <1>2, AddWell
<1>3. ASSUME UNCHANGED <<group, rows, plain, mirror>> PROVE WriterInv'
  BY <1>3 DEF WriterInv, StoredWell, UpsertOnly, Tables, AllWrites
<1>4. CASE NextDay  BY <1>3, <1>4 DEF NextDay
<1>5. CASE Prune  BY <1>5, PruneWell
<1>6. CASE Purge  BY <1>6, PurgeWell
<1>7. CASE UNCHANGED syncVars  BY <1>3, <1>7 DEF syncVars
<1> QED  BY <1>1, <1>2, <1>4, <1>5, <1>6, <1>7 DEF SyncNext

\* In every group of datasets, whatever they are answered and in whatever order they
\* sync, are pruned and are purged: each table has one row for a key, has what a
\* writer that never skips a row would have, and every stored row was announced.
THEOREM SyncsKeepTheWriter == SyncSpec => []WriterInv
<1> QED  BY WriterInit, WriterNext, PTL DEF SyncSpec

\* Of a statement's rows a plain write's fetched_at is what the statement says; the
\* writer's is too, but where a replacement moved the row.
LEMMA StampsOfWrite ==
    ASSUME NEW T, NEW P, NEW s, IsTable(T), IsTable(P), SoundStmt(s)
    PROVE  /\ s.w.mode = "replace" =>
                \A o \in T : \A r \in CollectedWrite(T, s) :
                   o.key = r.key /\ Content(o) # Content(r) => r.seen = o.seen
           /\ \A r \in CollectedWrite(T, s) : \A q \in PlainWrite(P, s) : r.key = q.key /\ r.seen # q.seen =>
                \/ r \in T /\ q \in P
                \/ s.w.mode = "replace" /\ \E o \in T : o.key = r.key /\ Content(o) # Content(r)
<1> DEFINE A == s.rows \cup s.touched
<1>1. /\ \A m, n \in A : m.key = n.key => m = n
      /\ \A n \in A : n.key \in Keys(A)
  BY DEF SoundStmt, IsTable, Keys
<1>2. \A o \in T : \A n : /\ Seen(o, n).key = o.key /\ Seen(o, n).seen = n.seen
                           /\ Content(Seen(o, n)) = Content(o)
  <2> SUFFICES ASSUME NEW o \in T, NEW n
               PROVE  /\ Seen(o, n).key = o.key /\ Seen(o, n).seen = n.seen
                      /\ Content(Seen(o, n)) = Content(o)
    OBVIOUS
  <2>1. Seen(o, n) = [key |-> o.key, c |-> o.c, d |-> o.d, e |-> o.e, known |-> o.known, seen |-> n.seen]
    BY SeenRow DEF IsTable
  <2> QED  BY <2>1 DEF Content
<1>3. \A o \in P : \A n : Seen(o, n).key = o.key /\ Seen(o, n).seen = n.seen
  <2> SUFFICES ASSUME NEW o \in P, NEW n PROVE Seen(o, n).key = o.key /\ Seen(o, n).seen = n.seen
    OBVIOUS
  <2>1. Seen(o, n) = [key |-> o.key, c |-> o.c, d |-> o.d, e |-> o.e, known |-> o.known, seen |-> n.seen]
    BY SeenRow DEF IsTable
  <2> QED  BY <2>1
<1>4. \A o, n : /\ Update(o, n, s.w).key = o.key /\ Upserted(o, n, s.w).key = o.key
                /\ Update(o, n, s.w).seen = IF s.w.mode = "replace" THEN o.seen ELSE n.seen
                /\ Upserted(o, n, s.w).seen = n.seen
  BY DEF Update, Upserted
\* Every moved row reads differently than before.
<1>5. ASSUME NEW o \in T, NEW n \in s.rows, <<o, n>> \in Moved(T, s), s.w.mode = "replace"
      PROVE  Content(o) # Content(Update(o, n, s.w))
  <2>1. Effective(s.w) = {"c", "d", "e"}  BY <1>5 DEF Effective
  <2>2. o.c # n.c \/ o.d # n.d \/ o.e # n.e \/ o.known # n.known  BY <1>5, MovedPairs DEF SoundStmt
  <2>3. /\ Update(o, n, s.w).c = n.c /\ Update(o, n, s.w).d = n.d /\ Update(o, n, s.w).e = n.e
        /\ Update(o, n, s.w).known = n.known
    BY <2>1 DEF Update
  <2> QED  BY <2>2, <2>3, ContentFields
<1>6. \A o \in T, n \in s.rows : <<o, n>> \in Moved(T, s) => o.key = n.key  BY MovedPairs DEF SoundStmt
\* How the writer stamps a row, ...
<1>7. ASSUME NEW r \in CollectedWrite(T, s)
      PROVE  \/ r \in T /\ r.key \notin Keys(A)
             \/ \E n \in A : r.key = n.key /\ r.seen = n.seen /\ \A o \in T : o.key = r.key => Content(o) = Content(r)
             \/ \E n \in A : r.key = n.key /\ r.seen = n.seen /\ s.w.mode # "replace"
             \/ s.w.mode = "replace" /\ \E o \in T : o.key = r.key /\ Content(o) # Content(r) /\ r.seen = o.seen
  <2>1. Arises(T, s, r)  BY Written
  <2>2. ASSUME r \in New(T, s.rows) PROVE r \in A /\ \A o \in T : o.key # r.key
    BY <2>2 DEF New, Keys
  <2>3. ASSUME NEW o \in T, NEW n \in A, o.key = n.key, r = Seen(o, n)
        PROVE  r.key = n.key /\ r.seen = n.seen /\ \A p \in T : p.key = r.key => Content(p) = Content(r)
    <3>1. \A p \in T : p.key = o.key => p = o  BY DEF IsTable
    <3> QED  BY <1>2, <2>3, <3>1
  <2>4. ASSUME NEW o \in T, NEW n \in s.rows, <<o, n>> \in Moved(T, s), r = Update(o, n, s.w)
        PROVE  \/ r.key = n.key /\ r.seen = n.seen /\ s.w.mode # "replace"
               \/ s.w.mode = "replace" /\ o.key = r.key /\ Content(o) # Content(r) /\ r.seen = o.seen
    BY <1>4, <1>5, <1>6, <2>4
  <2> QED  BY <2>1, <2>2, <2>3, <2>4 DEF Arises
\* ... and how the plain one does.
<1>8. ASSUME NEW q \in PlainWrite(P, s)
      PROVE  (q \in P /\ q.key \notin Keys(A)) \/ \E n \in A : q.key = n.key /\ q.seen = n.seen
  <2>1. PlainlyArises(P, s, q)  BY PlainlyWritten
  <2>2. q \in New(P \ Replaced(P, s), s.rows) => q \in A  BY DEF New
  <2>3. ASSUME NEW o \in P, NEW n \in A, o.key = n.key, q = Upserted(o, n, s.w) \/ q = Seen(o, n)
        PROVE  q.key = n.key /\ q.seen = n.seen
    BY <1>3, <1>4, <2>3
  <2> QED  BY <2>1, <2>2, <2>3 DEF PlainlyArises
<1>9. ASSUME s.w.mode = "replace", NEW o \in T, NEW r \in CollectedWrite(T, s), o.key = r.key,
             Content(o) # Content(r)
      PROVE  r.seen = o.seen
  <2>1. \A p \in T : p.key = o.key => p = o  BY DEF IsTable
  <2> QED  BY <1>7, <1>9, <2>1
<1>10. ASSUME NEW r \in CollectedWrite(T, s), NEW q \in PlainWrite(P, s), r.key = q.key, r.seen # q.seen
       PROVE  \/ r \in T /\ q \in P
              \/ s.w.mode = "replace" /\ \E o \in T : o.key = r.key /\ Content(o) # Content(r)
  <2>1. CASE r \in T /\ r.key \notin Keys(A)  BY <1>1, <1>8, <1>10, <2>1
  <2>2. ASSUME NEW n \in A, r.key = n.key, r.seen = n.seen PROVE FALSE
    <3>1. PICK m \in A : q.key = m.key /\ q.seen = m.seen  BY <1>1, <1>8, <1>10, <2>2
    <3>2. m = n  BY <1>1, <1>10, <2>2, <3>1
    <3> QED  BY <1>10, <2>2, <3>1, <3>2
  <2> QED  BY <1>7, <2>1, <2>2
<1> QED  BY <1>9, <1>10

\* The stamps a sync leaves.
StampsLag(ds, t) ==
    /\ Replaces(ds, t) => \A p \in Reworded(t) : p[2].seen = p[1].seen
    /\ \A r \in rows'[t], q \in plain'[t] : r.key = q.key /\ r.seen # q.seen =>
          \/ r \in rows[t] /\ q \in plain[t]
          \/ Replaces(ds, t) /\ \E p \in Reworded(t) : p[2] = r

\* So does each table of a sync.
LEMMA SyncStamps ==
    ASSUME WriterInv, NEW ds \in Mates, Sync(ds), NEW t \in Tables
    PROVE  StampsLag(ds, t)
<1>1. PICK ans, stmts : Synced(ds, stmts, ans)  BY SyncSteps DEF WriterInv
<1>2. IsTable(rows[t]) /\ IsTable(plain[t])  BY DEF WriterInv, StoredWell
<1>3. \A p \in Reworded(t) : /\ p[1] \in rows[t] /\ p[2] \in rows'[t] /\ p[1].key = p[2].key
                             /\ Content(p[1]) # Content(p[2])
  BY DEF Reworded
<1>4. ASSUME NEW o \in rows[t], NEW r \in rows'[t], o.key = r.key, Content(o) # Content(r)
      PROVE  \E p \in Reworded(t) : p[2] = r
  <2>1. <<o, r>> \in Reworded(t)  BY <1>4 DEF Reworded
  <2> QED  BY <2>1
<1>5. CASE Untouched(t)
  <2>1. rows'[t] = rows[t] /\ plain'[t] = plain[t]  BY <1>5 DEF Untouched
  <2>2. \A p \in Reworded(t) : FALSE  BY <1>2, <1>3, <2>1 DEF IsTable
  <2> QED  BY <2>1, <2>2 DEF StampsLag
<1>6. ASSUME NEW s, s.w.table = t, WriterStep(t, s), SoundStmt(s), FromWrite(ds, ans, s)
      PROVE  StampsLag(ds, t)
  <2>1. rows'[t] = CollectedWrite(rows[t], s) /\ plain'[t] = PlainWrite(plain[t], s)
    BY <1>6 DEF WriterStep
  <2>2. \A v, w \in WritesOf(ds) : v.table = w.table => v = w  BY GroupsAssumption DEF WriterInv, Mates, SoundDataset
  <2>3. Replaces(ds, t) <=> s.w.mode = "replace"  BY <1>6, <2>2 DEF Replaces, FromWrite
  <2>4. Replaces(ds, t) => \A p \in Reworded(t) : p[2].seen = p[1].seen
    BY <1>2, <1>3, <1>6, <2>1, <2>3, StampsOfWrite
  <2>5. ASSUME NEW r \in rows'[t], NEW q \in plain'[t], r.key = q.key, r.seen # q.seen
        PROVE  \/ r \in rows[t] /\ q \in plain[t]
               \/ Replaces(ds, t) /\ \E p \in Reworded(t) : p[2] = r
    <3>1. \/ r \in rows[t] /\ q \in plain[t]
          \/ s.w.mode = "replace" /\ \E o \in rows[t] : o.key = r.key /\ Content(o) # Content(r)
      BY <1>2, <1>6, <2>1, <2>5, StampsOfWrite
    <3> QED  BY <1>4, <2>3, <3>1
  <2> QED  BY <2>4, <2>5 DEF StampsLag
<1> QED  BY <1>1, <1>5, <1>6, TableSynced

\* The clock moves with a sync alone.
LEMMA SyncIsOne == WriterInv /\ [SyncNext]_syncVars /\ now' # now => \E ds \in Mates : Sync(ds)
  BY DEF SyncNext, AddSymbol, NextDay, Prune, Purge, syncVars

\* COPY, compare and write only what changed (storage/persistence.py) stores what
\* writing everything would have stored, but for the fetched_at of moved rows.
THEOREM SyncsStoreAsPlain == SyncSpec => StoredAsPlain
<1>1. WriterInv => DiffIsReplace /\ SeenAsPlain
  BY DEF WriterInv, StoredWell, DiffIsReplace, SeenAsPlain, UpsertOnly
<1>2. WriterInv /\ [SyncNext]_syncVars =>
        [now' # now => \E ds \in Mates : \A t \in Tables :
          /\ Replaces(ds, t) => \A p \in Reworded(t) : p[2].seen = p[1].seen
          /\ \A r \in rows'[t], q \in plain'[t] : r.key = q.key /\ r.seen # q.seen =>
                \/ r \in rows[t] /\ q \in plain[t]
                \/ Replaces(ds, t) /\ \E p \in Reworded(t) : p[2] = r]_syncVars
  <2> SUFFICES ASSUME WriterInv, [SyncNext]_syncVars, now' # now
               PROVE  \E ds \in Mates : \A t \in Tables : StampsLag(ds, t)
    BY DEF StampsLag
  <2>1. PICK ds \in Mates : Sync(ds)  BY SyncIsOne
  <2> QED  BY <2>1, SyncStamps
<1> QED  BY <1>1, <1>2, SyncsKeepTheWriter, PTL DEF StoredAsPlain, FetchedAtLags, SyncSpec

\* What a step leaves in a consumer's copy of a table besides what is stored.
GhostsTold(t) ==
    Ghosts(t)' = {x \in Ghosts(t) : x.key \notin Keys(rows'[t])} \cup IF now' # now THEN {} ELSE Deleted(t)

\* A sync tells of what it deletes.
LEMMA SyncTells ==
    ASSUME WriterInv, NEW ds \in Mates, Sync(ds), NEW t \in Tables
    PROVE  Ghosts(t)' = {x \in Ghosts(t) : x.key \notin Keys(rows'[t])}
<1>1. PICK ans, stmts : Synced(ds, stmts, ans)  BY SyncSteps DEF WriterInv
<1>2. Ghosts(t)' = {x \in mirror'[t] : x.key \notin Keys(rows'[t])}  BY DEF Ghosts
<1>3. CASE Untouched(t)  BY <1>2, <1>3 DEF Untouched, Ghosts
<1>4. ASSUME NEW s, WriterStep(t, s), SoundStmt(s)
      PROVE  Ghosts(t)' = {x \in Ghosts(t) : x.key \notin Keys(rows'[t])}
  <2>1. IsTable(rows[t]) /\ {x \in mirror[t] : x.key \in Keys(rows[t])} = Contents(rows[t])
    BY DEF WriterInv, StoredWell
  <2>2. rows'[t] = CollectedWrite(rows[t], s) /\ mirror'[t] = Heard(mirror[t], rows[t], s)
    BY <1>4 DEF WriterStep
  <2>3. {x \in mirror'[t] : x.key \notin Keys(rows'[t])}
          = {x \in mirror[t] : x.key \notin Keys(rows[t]) /\ x.key \notin Keys(rows'[t])}
    BY <1>4, <2>1, <2>2, HeardExactly
  <2> QED  BY <1>2, <2>3 DEF Ghosts
<1> QED  BY <1>1, <1>3, <1>4, TableSynced

\* Whatever else deletes rows leaves them with it.
LEMMA OthersLeaveGhosts ==
    ASSUME WriterInv, NEW t \in Tables, mirror'[t] = mirror[t], NEW gone, rows'[t] = Lost(rows[t], gone)
    PROVE  Ghosts(t)' = {x \in Ghosts(t) : x.key \notin Keys(rows'[t])} \cup Deleted(t)
<1>1. Ghosts(t)' = {x \in mirror'[t] : x.key \notin Keys(rows'[t])}  BY DEF Ghosts
<1>2. {x \in mirror[t] : x.key \in Keys(rows[t])} = Contents(rows[t])  BY DEF WriterInv, StoredWell
<1>3. \A k : k \in Keys(rows'[t]) => k \in Keys(rows[t])  BY DEF Lost, Keys
<1> QED  BY <1>1, <1>2, <1>3 DEF Ghosts, Deleted

\* The clock counts.
LEMMA ClockCounts == SyncSpec => [](now \in Nat)
<1>1. SyncInit => now \in Nat  BY DEF SyncInit
<1>2. now \in Nat /\ [SyncNext]_syncVars => (now \in Nat)'
  <2> SUFFICES ASSUME now \in Nat, [SyncNext]_syncVars PROVE now' \in Nat  OBVIOUS
  <2>1. ASSUME NEW ds, Sync(ds) PROVE now' = now + 1  BY <2>1 DEF Sync
  <2>2. ASSUME NEW s, AddSymbol(s) PROVE now' = now  BY <2>2 DEF AddSymbol
  <2>3. NextDay \/ Prune \/ Purge \/ UNCHANGED syncVars => now' = now
    BY DEF NextDay, Prune, Purge, syncVars
  <2> QED  BY <2>1, <2>2, <2>3 DEF SyncNext
<1> QED  BY <1>1, <1>2, PTL DEF SyncSpec

\* Every step leaves the ghosts it says.
LEMMA StepGhosts ==
    ASSUME WriterInv, now \in Nat, [SyncNext]_syncVars, NEW t \in Tables
    PROVE  GhostsTold(t)
<1>1. {x \in mirror[t] : x.key \in Keys(rows[t])} = Contents(rows[t])  BY DEF WriterInv, StoredWell
<1>2. ASSUME NEW ds \in Mates, Sync(ds) PROVE GhostsTold(t)
  <2>1. now' # now  BY <1>2, SyncSteps DEF WriterInv
  <2> QED  BY <1>2, <2>1, SyncTells DEF GhostsTold
<1>3. ASSUME now' = now, mirror'[t] = mirror[t], NEW gone, rows'[t] = Lost(rows[t], gone) PROVE GhostsTold(t)
  BY <1>3, OthersLeaveGhosts DEF GhostsTold
<1>4. ASSUME now' = now, mirror'[t] = mirror[t], rows'[t] = rows[t] PROVE GhostsTold(t)
  <2>1. rows'[t] = Lost(rows[t], {})  BY <1>4 DEF Lost
  <2> QED  BY <1>3, <1>4, <2>1
<1>5. ASSUME NEW x, AddSymbol(x) PROVE GhostsTold(t)
  <2>1. CASE t # "symbols"  BY <1>4, <1>5, <2>1, AddForm DEF Untouched
  <2>2. CASE t = "symbols"
    <3> DEFINE new == NewSymbol(x, now)
    <3>1. rows'[t] = Placed(rows[t], new) /\ mirror'[t] = Placed(mirror[t], Content(new)) /\ now' = now
      BY <1>5, <2>2, AddForm
    <3> HIDE DEF new
    <3>2. \A k : k \in Keys(rows'[t]) <=> k \in Keys(rows[t]) \/ k = new.key  BY <3>1 DEF Placed, Keys
    <3>3. Content(new).key = new.key  BY DEF Content
    <3>4. Ghosts(t)' = {y \in mirror'[t] : y.key \notin Keys(rows'[t])}  BY DEF Ghosts
    <3>5. \A y \in Contents(rows[t]) : y.key \in Keys(rows[t])  BY DEF Contents, Content, Keys
    <3>6. Deleted(t) = {}  BY <3>2, <3>5 DEF Deleted
    <3>7. mirror'[t] = {y \in mirror[t] : y.key # new.key} \cup {Content(new)}  BY <3>1, <3>3 DEF Placed
    <3>8. Ghosts(t)' = {y \in Ghosts(t) : y.key \notin Keys(rows'[t])}
      BY <3>2, <3>3, <3>4, <3>7 DEF Ghosts
    <3> QED  BY <3>1, <3>6, <3>8 DEF GhostsTold
  <2> QED  BY <2>1, <2>2
<1>6. CASE NextDay  BY <1>4, <1>6 DEF NextDay
<1>7. CASE Prune
  <2>1. LostAlike(rows, plain, rows', plain')  BY <1>7, PruneWell
  <2>2. PICK gone : rows'[t] = Lost(rows[t], gone)  BY <2>1 DEF LostAlike
  <2> QED  BY <1>3, <1>7, <2>2 DEF Prune
<1>8. CASE Purge
  <2>1. LostAlike(rows, plain, rows', plain')  BY <1>8, PurgeWell
  <2>2. PICK gone : rows'[t] = Lost(rows[t], gone)  BY <2>1 DEF LostAlike
  <2> QED  BY <1>3, <1>8, <2>2 DEF Purge
<1>9. CASE UNCHANGED syncVars  BY <1>4, <1>9 DEF syncVars
<1> QED  BY <1>2, <1>5, <1>6, <1>7, <1>8, <1>9 DEF SyncNext

\* A consumer that applies the events has every stored row as it is stored, no row
\* that a sync deleted, and every row that retention or the purge did
\* (storage/persistence.py, cli/app.py, cli/symbols.py).
THEOREM EventsTellTheSyncs == SyncSpec => EventsTell
<1>1. WriterInv => MirrorKeepsUp  BY DEF WriterInv, StoredWell, MirrorKeepsUp
<1>2. WriterInv /\ now \in Nat /\ [SyncNext]_syncVars =>
         [\A t \in Tables :
             Ghosts(t)' = {x \in Ghosts(t) : x.key \notin Keys(rows'[t])}
                          \cup IF now' # now THEN {} ELSE Deleted(t)]_syncVars
  BY StepGhosts DEF GhostsTold
<1> QED  BY <1>1, <1>2, SyncsKeepTheWriter, ClockCounts, PTL DEF EventsTell, DeletesTold, SyncSpec

\* The row a statement leaves for a key.
LEMMA WriteKeys ==
    ASSUME NEW T, NEW s, IsTable(T), SoundStmt(s)
    PROVE  /\ \A r \in CollectedWrite(T, s) : \/ r \in T /\ r \notin Removed(T, s)
                                              \/ r.key \in Keys(s.rows \cup s.touched)
           /\ Keys(CollectedWrite(T, s)) \subseteq Keys(T) \cup Keys(s.rows)
           /\ Keys(s.rows) \subseteq Keys(CollectedWrite(T, s))
           /\ \A o \in T : o.key \in Keys(CollectedWrite(T, s)) \/ o \in Removed(T, s)
<1> DEFINE C == CollectedWrite(T, s)
<1>1. \A o, n : Update(o, n, s.w).key = o.key  BY DEF Update
<1>2. \A o \in T : \A n : Seen(o, n).key = o.key  BY SeenRow DEF IsTable
<1>3. \A r \in C : \/ r \in T /\ r \notin Removed(T, s)
                   \/ r.key \in Keys(s.rows \cup s.touched)
  <2> SUFFICES ASSUME NEW r \in C, ~(r \in T /\ r \notin Removed(T, s))
               PROVE  r.key \in Keys(s.rows \cup s.touched)
    OBVIOUS
  <2>1. Arises(T, s, r)  BY Written
  <2>2. ASSUME r \in New(T, s.rows) PROVE r.key \in Keys(s.rows \cup s.touched)  BY <2>2 DEF New, Keys
  <2>3. ASSUME NEW o \in T, NEW n \in s.rows, <<o, n>> \in Moved(T, s), r = Update(o, n, s.w)
        PROVE  r.key \in Keys(s.rows \cup s.touched)
    <3>1. o.key = n.key  BY <2>3, MovedPairs DEF SoundStmt
    <3> QED  BY <1>1, <2>3, <3>1 DEF Keys
  <2>4. ASSUME NEW o \in T, NEW n \in s.rows \cup s.touched, o.key = n.key, r = Seen(o, n)
        PROVE  r.key \in Keys(s.rows \cup s.touched)
    BY <1>2, <2>4 DEF Keys
  <2> QED  BY <2>1, <2>2, <2>3, <2>4 DEF Arises
<1>4. ASSUME NEW r \in C PROVE r.key \in Keys(T) \cup Keys(s.rows)
  <2>1. Arises(T, s, r)  BY Written
  <2>2. ASSUME NEW o \in T, NEW n \in s.rows, <<o, n>> \in Moved(T, s), r = Update(o, n, s.w)
        PROVE  r.key \in Keys(T)
    BY <1>1, <2>2 DEF Keys
  <2>3. ASSUME NEW o \in T, NEW n, r = Seen(o, n) PROVE r.key \in Keys(T)  BY <1>2, <2>3 DEF Keys
  <2>4. r \in New(T, s.rows) => r.key \in Keys(s.rows)  BY DEF New, Keys
  <2>5. r \in T => r.key \in Keys(T)  BY DEF Keys
  <2> QED  BY <2>1, <2>2, <2>3, <2>4, <2>5 DEF Arises
<1>5. ASSUME NEW n \in s.rows PROVE n.key \in Keys(C)
  <2>1. CASE n.key \notin Keys(T)
    <3>1. n \in C  BY <2>1, Written DEF Arises, New
    <3> QED  BY <3>1 DEF Keys
  <2>2. ASSUME NEW o \in T, o.key = n.key PROVE n.key \in Keys(C)
    <3>1. Update(o, n, s.w) \in C \/ Seen(o, n) \in C  BY <2>2, Written DEF Arises
    <3> QED  BY <1>1, <1>2, <2>2, <3>1 DEF Keys
  <2> QED  BY <2>1, <2>2 DEF Keys
<1>6. ASSUME NEW o \in T, o \notin Removed(T, s) PROVE o.key \in Keys(C)
  <2>1. CASE o.key \notin Keys(s.rows \cup s.touched)
    <3>1. o \in C  BY <1>6, <2>1, Written DEF Arises
    <3> QED  BY <3>1 DEF Keys
  <2>2. ASSUME NEW n \in s.rows, o.key = n.key PROVE o.key \in Keys(C)  BY <1>5, <2>2
  <2>3. ASSUME NEW n \in s.touched, o.key = n.key PROVE o.key \in Keys(C)
    <3>1. Seen(o, n) \in C  BY <2>3, Written DEF Arises
    <3> QED  BY <1>2, <3>1 DEF Keys
  <2> QED  BY <2>1, <2>2, <2>3 DEF Keys
<1>7. Keys(C) \subseteq Keys(T) \cup Keys(s.rows)  BY <1>4 DEF Keys
<1>8. Keys(s.rows) \subseteq Keys(C)  BY <1>5 DEF Keys
<1> QED  BY <1>3, <1>6, <1>7, <1>8

\* A stored row that is answered, or compared, stays, updated or seen.
LEMMA AnsweredRows ==
    ASSUME NEW T, NEW s, NEW o \in T, NEW n, o.key = n.key
    PROVE  /\ n \in s.touched => Seen(o, n) \in CollectedWrite(T, s)
           /\ n \in s.rows /\ <<o, n>> \in Moved(T, s) => Update(o, n, s.w) \in CollectedWrite(T, s)
           /\ n \in s.rows /\ <<o, n>> \notin Moved(T, s) => Seen(o, n) \in CollectedWrite(T, s)
<1>1. n \in s.touched => Arises(T, s, Seen(o, n))  BY DEF Arises
<1>2. n \in s.rows /\ <<o, n>> \in Moved(T, s) => Arises(T, s, Update(o, n, s.w))  BY DEF Arises
<1>3. n \in s.rows /\ <<o, n>> \notin Moved(T, s) => Arises(T, s, Seen(o, n))  BY DEF Arises
<1> QED  BY <1>1, <1>2, <1>3, Written

\* Only a replacement removes rows, those of its scopes that it does not bring back.
LEMMA RemovedForm ==
    ASSUME NEW T, NEW s, NEW o \in Removed(T, s)
    PROVE  /\ s.w.mode = "replace" /\ o \in T /\ o.key \notin Keys(s.rows)
           /\ InScope(o.key, s.w, s.scopes)
  BY DEF Removed, Replaced

--------------------------------------------------------------------------------

\* The keys of a table are blank where its primary key has no column.
KeysWell(t) ==
    \A r \in rows[t] : /\ r.key.part \in Parts \cup {"-"}
                       /\ \A w \in AllWrites : w.table = t => Keyed(w, r.key)

\* What the writer keeps, and the form of the keys.
KeysInv == WriterInv /\ \A t \in Tables : KeysWell(t)

\* A sync, an addition, or a loss by keys.
LEMMA SyncCases ==
    ASSUME WriterInv, [SyncNext]_syncVars
    PROVE  \/ \E ds \in Mates : Sync(ds)
           \/ \E x \in {Owner, Foreign} : AddSymbol(x)
           \/ /\ UNCHANGED <<group, now, mirror>> /\ LostAlike(rows, plain, rows', plain')
              /\ (Prune \/ Purge)
           \/ UNCHANGED <<group, now, rows, plain, mirror, gates, told, universe, prunes>>
              /\ (day' = day \/ NextDay)
  BY PruneWell, PurgeWell DEF SyncNext, Prune, Purge, NextDay, syncVars

\* It holds of the empty database.
LEMMA KeysInit == SyncInit => KeysInv
<1> SUFFICES ASSUME SyncInit PROVE KeysInv  OBVIOUS
<1>1. WriterInv  BY WriterInit
<1>2. ASSUME NEW t \in Tables PROVE KeysWell(t)
  <2>1. rows[t] = (IF t = "symbols" THEN {NewSymbol(Owner, 0)} ELSE {})  BY DEF SyncInit, NewSymbol
  <2>2. ASSUME t = "symbols", NEW w \in AllWrites, w.table = t PROVE Keyed(w, NewSymbol(Owner, 0).key)
    <3>1. PICK ds \in Mates : w \in WritesOf(ds)  BY <1>1 DEF AllWrites, GroupWrites, Mates, WriterInv
    <3>2. w.key = {"item"}  BY <1>1, <2>2, <3>1, GroupsAssumption DEF SoundDataset, SoundWrite, Mates, WriterInv
    <3> QED  BY <3>2 DEF Keyed, NewSymbol, IsKey
  <2>3. NewSymbol(Owner, 0).key.part = "-"  BY DEF NewSymbol
  <2> QED  BY <2>1, <2>2, <2>3 DEF KeysWell
<1> QED  BY <1>1, <1>2 DEF KeysInv

\* What the assumption on the groups says of a dataset and of two of them.
LEMMA WritesShare ==
    ASSUME group \in DOMAIN Groups
    PROVE  /\ \A v, w \in AllWrites : v.table = w.table => v.key = w.key
           /\ \A ds \in Mates : /\ WritesOf(ds) \subseteq AllWrites /\ SoundDataset(ds)
                                /\ SoundLinks(ds) /\ SoundGate(ds)
           /\ \A ds \in Mates : \A e \in Mates \ {ds} : Apart(ds, e)
           /\ \A w \in AllWrites : w.table \in Tables /\ SoundWrite(w) /\ \E ds \in Mates : w \in WritesOf(ds)
<1>1. \A ds \in Mates : SoundDataset(ds) /\ SoundLinks(ds) /\ SoundGate(ds)  BY GroupsAssumption DEF Mates
<1>2. \A ds \in Mates : \A e \in Mates \ {ds} : Apart(ds, e)  BY GroupsAssumption DEF Mates
<1>3. \A v, w \in AllWrites : v.table = w.table => v.key = w.key  BY GroupsAssumption DEF AllWrites
<1>4. \A ds \in Mates : WritesOf(ds) \subseteq AllWrites  BY DEF Mates, AllWrites, GroupWrites
<1>5. \A w \in AllWrites : w.table \in Tables /\ \E ds \in Mates : w \in WritesOf(ds)
  BY DEF Mates, AllWrites, GroupWrites, Tables, GroupTables
<1>6. \A w \in AllWrites : SoundWrite(w)  BY <1>1, <1>5 DEF SoundDataset
<1> QED  BY <1>1, <1>2, <1>3, <1>4, <1>5, <1>6

\* The keys of what a sync writes are those of the table.
LEMMA KeysOfWrite ==
    ASSUME group \in DOMAIN Groups, NEW ds \in Mates, NEW ans, NEW s, SoundStmt(s), FromWrite(ds, ans, s),
           NEW r \in s.rows \cup s.touched
    PROVE  /\ r.key.part \in Parts \cup {"-"}
           /\ \A w \in AllWrites : w.table = s.w.table => Keyed(w, r.key)
<1>1. Heeds(s.w, ans, r.key) /\ s.w \in AllWrites  BY WritesShare DEF FromWrite
<1>2. s.w.parts \subseteq Parts  BY DEF SoundStmt, WriteShape
<1>3. \A w \in AllWrites : w.table = s.w.table => w.key = s.w.key  BY <1>1, WritesShare
<1> QED  BY <1>1, <1>2, <1>3 DEF Heeds, Near, Keyed

\* Every step keeps the form of the keys.
LEMMA KeysNext == KeysInv /\ [SyncNext]_syncVars => KeysInv'
<1> SUFFICES ASSUME KeysInv, [SyncNext]_syncVars PROVE KeysInv'  OBVIOUS
<1>0. WriterInv /\ WriterInv' /\ group \in DOMAIN Groups  BY WriterNext DEF KeysInv, WriterInv
<1>1. SUFFICES \A t \in Tables' : KeysWell(t)'  BY <1>0 DEF KeysInv
<1>2. ASSUME NEW ds \in Mates, Sync(ds) PROVE \A t \in Tables' : KeysWell(t)'
  <2>1. UNCHANGED group  BY <1>0, <1>2, SyncSteps
  <2>2. Tables' = Tables /\ AllWrites' = AllWrites  BY <2>1 DEF Tables, AllWrites
  <2>3. PICK ans, stmts : Synced(ds, stmts, ans)  BY <1>0, <1>2, SyncSteps
  <2>4. ASSUME NEW t \in Tables, Untouched(t) PROVE KeysWell(t)'
    BY <2>2, <2>4 DEF KeysInv, KeysWell, Untouched
  <2>5. ASSUME NEW t \in Tables, NEW s \in stmts, s.w.table = t, WriterStep(t, s), SoundStmt(s), FromWrite(ds, ans, s)
        PROVE  KeysWell(t)'
    <3>1. IsTable(rows[t]) /\ KeysWell(t)  BY <1>0 DEF WriterInv, StoredWell, KeysInv
    <3>2. ASSUME NEW r \in rows'[t]
          PROVE  r \in rows[t] \/ \E n \in s.rows \cup s.touched : n.key = r.key
      BY <2>5, <3>1, WriteKeys DEF WriterStep, Keys
    <3>3. \A n \in s.rows \cup s.touched : /\ n.key.part \in Parts \cup {"-"}
                                          /\ \A w \in AllWrites : w.table = t => Keyed(w, n.key)
      BY <1>0, <2>5, KeysOfWrite
    <3> QED  BY <2>2, <3>1, <3>2, <3>3 DEF KeysWell
  <2> QED  BY <2>2, <2>3, <2>4, <2>5, TableSynced
<1>3. ASSUME NEW x, AddSymbol(x) PROVE \A t \in Tables' : KeysWell(t)'
  <2>1. UNCHANGED group  BY <1>3, AddForm
  <2>2. Tables' = Tables /\ AllWrites' = AllWrites  BY <2>1 DEF Tables, AllWrites
  <2>3. ASSUME NEW t \in Tables, Untouched(t) PROVE KeysWell(t)'
    BY <2>2, <2>3 DEF KeysInv, KeysWell, Untouched
  <2>4. ASSUME NEW t \in Tables, t = "symbols" PROVE KeysWell(t)'
    <3>1. rows'[t] = Placed(rows[t], NewSymbol(x, now))  BY <1>3, <2>4, AddForm
    <3>2. ASSUME NEW w \in AllWrites, w.table = t PROVE Keyed(w, NewSymbol(x, now).key)
      <4>1. w.key = {"item"}  BY <1>0, <2>4, <3>2, WritesShare DEF SoundWrite
      <4> QED  BY <4>1 DEF Keyed, NewSymbol, IsKey
    <3>3. NewSymbol(x, now).key.part = "-"  BY DEF NewSymbol
    <3> QED  BY <2>2, <3>1, <3>2, <3>3 DEF KeysWell, KeysInv, Placed
  <2> QED  BY <2>2, <2>3, <2>4, <1>3, AddForm
<1>4. ASSUME UNCHANGED group, \A t \in Tables : rows'[t] \subseteq rows[t] PROVE \A t \in Tables' : KeysWell(t)'
  BY <1>4 DEF KeysInv, KeysWell, Tables, AllWrites
<1>5. LostAlike(rows, plain, rows', plain') => \A t \in Tables : rows'[t] \subseteq rows[t]
  BY DEF LostAlike, Lost
<1> QED  BY <1>0, <1>2, <1>3, <1>4, <1>5, SyncCases

--------------------------------------------------------------------------------

\* A sync leaves the rest.
LEMMA SyncSpares ==
    ASSUME KeysInv, NEW ds \in Mates, Sync(ds), NEW t \in Tables
    PROVE  /\ \A n \in rows'[t] \ rows[t] : Own(ds, t, n.key) # {}
           /\ \A r \in rows[t] \ rows'[t] : \E w \in Own(ds, t, r.key) :
                w.mode = "upsert" =>
                    \E n \in rows'[t] : n.key = r.key /\ \A col \in {"c", "d", "e"} \ w.update : n[col] = r[col]
<1>0. WriterInv /\ group \in DOMAIN Groups  BY DEF KeysInv, WriterInv
<1>1. PICK ans, stmts : Synced(ds, stmts, ans)  BY <1>0, SyncSteps
<1>2. CASE Untouched(t)  BY <1>2 DEF Untouched
<1>3. ASSUME NEW s \in stmts, s.w.table = t, WriterStep(t, s), SoundStmt(s), FromWrite(ds, ans, s)
      PROVE  /\ \A n \in rows'[t] \ rows[t] : Own(ds, t, n.key) # {}
             /\ \A r \in rows[t] \ rows'[t] : \E w \in Own(ds, t, r.key) :
                w.mode = "upsert" =>
                    \E n \in rows'[t] : n.key = r.key /\ \A col \in {"c", "d", "e"} \ w.update : n[col] = r[col]
  <2>1. IsTable(rows[t]) /\ KeysWell(t)  BY <1>0 DEF WriterInv, StoredWell, KeysInv
  <2>2. rows'[t] = CollectedWrite(rows[t], s)  BY <1>3 DEF WriterStep
  <2>3. s.w \in WriteShape /\ s.w \in WritesOf(ds)  BY <1>3 DEF SoundStmt, FromWrite
  <2>4. \A k : Near(s.w, k) => s.w \in Own(ds, t, k)  BY <1>3, <2>3 DEF Own, Near
  <2>5. \A n \in s.rows \cup s.touched : s.w \in Own(ds, t, n.key)  BY <1>3, <2>4 DEF FromWrite, Heeds
  <2>6. \A n \in rows'[t] \ rows[t] : Own(ds, t, n.key) # {}
    <3> SUFFICES ASSUME NEW n \in rows'[t] \ rows[t] PROVE Own(ds, t, n.key) # {}  OBVIOUS
    <3>1. PICK m \in s.rows \cup s.touched : m.key = n.key  BY <1>3, <2>1, <2>2, WriteKeys DEF Keys
    <3> QED  BY <2>5, <3>1
  <2>7. ASSUME NEW r \in Removed(rows[t], s) PROVE s.w \in Own(ds, t, r.key) /\ s.w.mode = "replace"
    <3>1. s.w.mode = "replace" /\ r \in rows[t] /\ InScope(r.key, s.w, s.scopes)  BY <2>7, RemovedForm
    <3>2. PICK k \in s.scopes : \A f \in s.w.scope : r.key[f] = k[f]  BY <3>1 DEF InScope
    <3>3. Near(s.w, k)  BY <1>3 DEF FromWrite
    <3>4. Keyed(s.w, r.key) /\ r.key.part \in Parts \cup {"-"}
      BY <1>0, <1>3, <2>1, <2>3, <3>1, WritesShare DEF KeysWell
    <3>5. SoundWrite(s.w)  BY <1>0, <2>3, WritesShare
    <3>6. r.key.day \in {0, day, now + 1}
      <4>1. CASE "day" \in s.w.key  BY <3>1, <3>2, <3>3, <3>5, <4>1 DEF SoundWrite, Near
      <4>2. CASE "day" \notin s.w.key  BY <3>4, <4>2 DEF Keyed
      <4> QED  BY <4>1, <4>2
    <3>7. r.key.part \in s.w.parts \cup {"-"}
      <4>1. CASE "part" \in s.w.key /\ s.w.parts # Parts
        BY <3>1, <3>2, <3>3, <3>5, <4>1 DEF SoundWrite, Near
      <4>2. CASE "part" \notin s.w.key  BY <3>4, <4>2 DEF Keyed
      <4>3. CASE s.w.parts = Parts  BY <3>4, <4>3
      <4> QED  BY <4>1, <4>2, <4>3
    <3> QED  BY <2>4, <3>1, <3>6, <3>7 DEF Near
  <2>8. ASSUME NEW r \in rows[t] \ rows'[t], r \notin Removed(rows[t], s), s.w.mode = "upsert"
        PROVE  /\ s.w \in Own(ds, t, r.key)
               /\ \E n \in rows'[t] : n.key = r.key /\ \A col \in {"c", "d", "e"} \ s.w.update : n[col] = r[col]
    <3>1. r.key \in Keys(s.rows \cup s.touched)  BY <2>2, <2>8, Written DEF Arises
    <3>2. PICK m \in s.rows \cup s.touched : r.key = m.key  BY <3>1 DEF Keys
    <3>3. \/ m \in s.rows /\ Update(r, m, s.w) \in rows'[t]
          \/ Seen(r, m) \in rows'[t]
      BY <2>2, <2>8, <3>2, AnsweredRows
    <3>4. /\ Update(r, m, s.w).key = r.key
          /\ \A col \in {"c", "d", "e"} \ s.w.update : Update(r, m, s.w)[col] = r[col]
      BY <2>8 DEF Update, Effective
    <3>5. Seen(r, m) = [key |-> r.key, c |-> r.c, d |-> r.d, e |-> r.e, known |-> r.known, seen |-> m.seen]
      BY <2>1, SeenRow DEF IsTable
    <3> QED  BY <2>5, <3>2, <3>3, <3>4, <3>5
  <2>9. ASSUME NEW r \in rows[t] \ rows'[t], r \notin Removed(rows[t], s), s.w.mode = "replace"
        PROVE  s.w \in Own(ds, t, r.key)
    <3>1. r.key \in Keys(s.rows \cup s.touched)  BY <2>2, <2>9, Written DEF Arises
    <3> QED  BY <2>5, <3>1 DEF Keys
  <2>10. s.w.mode \in {"upsert", "replace"}  BY <2>3 DEF WriteShape
  <2> QED  BY <2>6, <2>7, <2>8, <2>9, <2>10
<1> QED  BY <1>1, <1>2, <1>3, TableSynced

\* The keys stored are keys of the datasets that write the table.
THEOREM SyncsKeepKeys == SyncSpec => []KeysInv
<1> QED  BY KeysInit, KeysNext, PTL DEF SyncSpec

\* A sync leaves alone what is not its own: earlier days, the parts of a shared table
\* that are another dataset's, the columns another dataset fills
\* (storage/contracts.py, storage/persistence.py).
THEOREM SyncsKeepOthers == SyncSpec => OthersKept
<1>1. KeysInv /\ [SyncNext]_syncVars =>
        [now' # now => \E ds \in Mates : \A t \in Tables :
          /\ \A n \in rows'[t] \ rows[t] : Own(ds, t, n.key) # {}
          /\ \A r \in rows[t] \ rows'[t] : \E w \in Own(ds, t, r.key) :
                w.mode = "upsert" =>
                    \E n \in rows'[t] : n.key = r.key /\ \A col \in {"c", "d", "e"} \ w.update : n[col] = r[col]]_syncVars
  <2> SUFFICES ASSUME KeysInv, [SyncNext]_syncVars, now' # now
               PROVE  \E ds \in Mates : \A t \in Tables :
          /\ \A n \in rows'[t] \ rows[t] : Own(ds, t, n.key) # {}
          /\ \A r \in rows[t] \ rows'[t] : \E w \in Own(ds, t, r.key) :
                w.mode = "upsert" =>
                    \E n \in rows'[t] : n.key = r.key /\ \A col \in {"c", "d", "e"} \ w.update : n[col] = r[col]
    OBVIOUS
  <2>1. PICK ds \in Mates : Sync(ds)  BY SyncIsOne DEF KeysInv
  <2> QED  BY <2>1, SyncSpares
<1> QED  BY <1>1, SyncsKeepKeys, PTL DEF OthersKept, SyncSpec

\* The names the answers know.
Names == {Owner, Foreign} \cup {c.item : c \in UNION Sheets}

\* The initial state is well typed.
LEMMA TypeInit == SyncInit => SyncTypeOK
<1> SUFFICES ASSUME SyncInit PROVE SyncTypeOK  OBVIOUS
<1>1. WriterInv  BY WriterInit
<1>2. \A t \in Tables : \A r, s \in rows[t] : r.key = s.key => r = s
  BY <1>1 DEF WriterInv, StoredWell, IsTable
<1>3. \A g \in DOMAIN gates : gates[g].day \in 0..day  BY DEF SyncInit, NoGate
<1>4. now \in 0..MaxSyncs[group] /\ day \in 1..MaxDays[group]  BY BoundsAssumption DEF SyncInit
<1> QED  BY <1>2, <1>3, <1>4 DEF SyncTypeOK, SyncInit

\* A sync makes symbols of names in its answer alone.
LEMMA SyncNames ==
    ASSUME KeysInv, NEW ds \in Mates, Sync(ds), universe \subseteq Names
    PROVE  universe' \subseteq Names
<1>0. group \in DOMAIN Groups  BY DEF KeysInv, WriterInv
<1>1. PICK ans, full :
         ans \in Answers(ds) /\ Commit(SyncOf(ds, ans, full)) /\ Synced(ds, SyncOf(ds, ans, full).stmts, ans)
  BY <1>0, SyncSteps
<1> DEFINE On == {s \in SyncOf(ds, ans, full).stmts : s.w.table = "symbols"}
<1>2. universe' = universe \cup UNION {{r.key.item : r \in s.rows} : s \in On}  BY <1>1 DEF Commit
<1>3. ASSUME NEW s \in On, NEW r \in s.rows PROVE r.key.item \in Names
  <2>1. FromWrite(ds, ans, s) /\ s.w.table = "symbols"  BY <1>1 DEF Synced
  <2>2. r.key.item \in {Owner} \cup {c.item : c \in ans.cells}  BY <2>1 DEF FromWrite, Heeds
  <2>3. ans.cells \in Sheets  BY <1>1, AnswerForm DEF IsAnswer
  <2> QED  BY <2>2, <2>3 DEF Names
<1> QED  BY <1>2, <1>3

\* A sync dates its own gate with the current day, and leaves the others.
LEMMA SyncGates ==
    ASSUME NEW ds, NEW ans, NEW full, Commit(SyncOf(ds, ans, full))
    PROVE  /\ DOMAIN gates' = DOMAIN gates
           /\ \A g \in DOMAIN gates : gates'[g].day \in {gates[g].day, day}
<1> DEFINE sync == SyncOf(ds, ans, full)
<1>1. gates' = IF sync.open THEN [gates EXCEPT ![sync.gate] = [hash |-> sync.digest, day |-> day]] ELSE gates
  BY DEF Commit
<1> HIDE DEF sync
<1> QED  BY <1>1

\* Every step keeps the types.
LEMMA TypeNext == KeysInv /\ SyncTypeOK /\ [SyncNext]_syncVars => SyncTypeOK'
<1> SUFFICES ASSUME KeysInv, SyncTypeOK, [SyncNext]_syncVars PROVE SyncTypeOK'  OBVIOUS
<1>0. WriterInv /\ WriterInv' /\ group \in DOMAIN Groups  BY WriterNext DEF KeysInv, WriterInv
<1>1. \A t \in Tables' : \A r, s \in rows'[t] : r.key = s.key => r = s
  BY <1>0 DEF WriterInv, StoredWell, IsTable
<1>2. group' = group  BY <1>0, SyncSteps, AddForm DEF SyncNext, NextDay, Prune, Purge, syncVars
<1>3. MaxSyncs[group] \in Nat /\ MaxDays[group] \in Nat  BY <1>0, BoundsAssumption
<1>4. now \in 0..MaxSyncs[group] /\ day \in 1..MaxDays[group] /\ universe \subseteq Names
  BY DEF SyncTypeOK, Names
<1>12. \A g \in DOMAIN gates : gates[g].day \in 0..day  BY DEF SyncTypeOK
<1> DEFINE Rest == /\ universe' \subseteq Names
                   /\ now' \in 0..MaxSyncs[group] /\ day' \in 1..MaxDays[group]
                   /\ \A g \in DOMAIN gates' : gates'[g].day \in 0..day'
<1>5. ASSUME NEW ds \in Mates, Sync(ds) PROVE Rest
  <2>1. day' = day /\ now' = now + 1 /\ now < MaxSyncs[group]  BY <1>0, <1>5, SyncSteps
  <2>2. universe' \subseteq Names  BY <1>4, <1>5, SyncNames
  <2>3. /\ DOMAIN gates' = DOMAIN gates
        /\ \A g \in DOMAIN gates : gates'[g].day \in {gates[g].day, day}
    BY <1>0, <1>5, SyncSteps, SyncGates
  <2>4. \A g \in DOMAIN gates' : gates'[g].day \in 0..day'  BY <1>4, <2>1, <2>3 DEF SyncTypeOK
  <2> QED  BY <1>3, <1>4, <2>1, <2>2, <2>4
<1>6. ASSUME NEW x \in {Owner, Foreign}, AddSymbol(x) PROVE Rest
  <2>1. universe' = universe \cup {x}  BY <1>6 DEF AddSymbol
  <2>2. universe' \subseteq Names  BY <1>4, <2>1 DEF Names
  <2> QED  BY <1>4, <1>6, <2>2, AddForm DEF SyncTypeOK
<1>7. ASSUME NextDay PROVE Rest
  <2>1. day' = day + 1 /\ day < MaxDays[group] /\ UNCHANGED <<universe, now, gates>>  BY <1>7 DEF NextDay
  <2>2. \A g \in DOMAIN gates' : gates'[g].day \in 0..day'  BY <1>4, <1>12, <2>1
  <2> QED  BY <1>3, <1>4, <2>1, <2>2
<1>8. ASSUME UNCHANGED <<universe, now, day, gates>> PROVE Rest  BY <1>4, <1>8, <1>12
<1>9. ASSUME Purge PROVE Rest
  <2>1. universe' \subseteq Names /\ UNCHANGED <<now, day>>  BY <1>4, <1>9 DEF Purge
  <2>2. \A g \in DOMAIN gates' : g \in DOMAIN gates /\ (gates'[g] = NoGate \/ gates'[g] = gates[g])
    BY <1>9 DEF Purge
  <2>3. NoGate.day = 0  BY DEF NoGate
  <2>4. day \in Nat  BY <1>3, <1>4
  <2>5. \A g \in DOMAIN gates' : gates'[g].day \in 0..day  BY <1>12, <2>2, <2>3, <2>4
  <2> QED  BY <1>4, <2>1, <2>5
<1>10. Prune \/ UNCHANGED syncVars => UNCHANGED <<universe, now, day, gates>>  BY DEF Prune, syncVars
<1> HIDE DEF Rest
<1>11. Rest  BY <1>5, <1>6, <1>7, <1>8, <1>9, <1>10 DEF SyncNext
<1> QED  BY <1>0, <1>1, <1>2, <1>11 DEF SyncTypeOK, WriterInv, Names, Rest

\* The variables keep their types.
THEOREM SyncsKeepTypes == SyncSpec => []SyncTypeOK
<1> QED  BY TypeInit, TypeNext, SyncsKeepKeys, PTL DEF SyncSpec

--------------------------------------------------------------------------------
(* Links. *)

\* The items a table has rows of.
Items(S) == {r.key.item : r \in S}
\* Whatever a table of links refers to is in the table it refers to.
LinksInv == \A p \in Links : p[1] \in Tables => Items(rows[p[1]]) \subseteq Items(rows[p[2]])

\* A group with a table of links has the table it refers to.
LEMMA LinkTables ==
    ASSUME group \in DOMAIN Groups, NEW p \in Links, p[1] \in Tables
    PROVE  p[2] \in Tables
<1>1. PICK w \in AllWrites : w.table = p[1]  BY DEF Tables, GroupTables, AllWrites
<1>2. PICK ds \in Mates : w \in WritesOf(ds)  BY WritesShare
<1>3. PICK v \in WritesOf(ds) : v.table = p[2]  BY <1>1, <1>2, WritesShare DEF SoundLinks
<1> QED  BY <1>2, <1>3, WritesShare

\* What one table links to is its items.
LEMMA LinkedOne == \A db, t : t \in Tables => Linked(db, {t}) = Items(db[t])
<1>1. ASSUME NEW db, NEW t \in Tables PROVE Linked(db, {t}) = Items(db[t])
  <2>1. {t} \cap Tables = {t}  OBVIOUS
  <2>2. {{r.key.item : r \in db[u]} : u \in {t}} = {Items(db[t])}  BY DEF Items
  <2> QED  BY <2>1, <2>2 DEF Linked
<1> QED  BY <1>1

\* It holds of the empty database.
LEMMA LinksInit == SyncInit => LinksInv
<1> SUFFICES ASSUME SyncInit, NEW p \in Links, p[1] \in Tables PROVE Items(rows[p[1]]) \subseteq Items(rows[p[2]])
  BY DEF LinksInv
<1>1. rows[p[1]] = {}  BY DEF SyncInit, Links
<1> QED  BY <1>1 DEF Items

\* What an article or a report is stored with.
LEMMA ParentRows ==
    ASSUME NEW v \in WriteShape, v.shape = "list", v.key = {"item"}, v.parts = Parts,
           NEW ans, IsAnswer(ans), "a" \in ans.read, Block(v.table) # ans.short, NEW d,
           NEW c \in ans.cells, c.part = "a"
    PROVE  c.item \in Items(RowsOf(v, ans, d))
<1>1. c \in CellsOf(v, ans)  BY DEF CellsOf, Parts
<1> DEFINE r == RowAt(v, Key(v, Owner, d, c.part, c.item), {<<c.item, c.val>>})
<1>2. RowForm(v, v, ans, d, r)  BY <1>1 DEF RowForm
<1>3. r \in RowsOf(v, ans, d)  BY <1>2, RowForms DEF RowsOf
<1>4. r.key.item = c.item  BY RowAtRow, KeyForm
<1> QED  BY <1>3, <1>4 DEF Items

\* A row of a table of links comes from a cell of the answer.
LEMMA LinkRows ==
    ASSUME NEW w \in WriteShape, w.shape \in {"list", "tag", "link"}, "item" \in w.key, "part" \notin w.key,
           NEW ans, IsAnswer(ans), NEW d, NEW r \in RowsOf(w, ans, d)
    PROVE  Block(w.table) # ans.short /\ \E c \in ans.cells : c.part = "a" /\ c.item = r.key.item
<1>0. RowForm(w, w, ans, d, r)  BY RowForms DEF RowsOf
<1>1. PICK c \in CellsOf(w, ans) : r.key.item = c.item
  <2>1. CASE w.shape = "list"
    <3>1. PICK c \in CellsOf(w, ans) : r = RowAt(w, Key(w, Owner, d, c.part, c.item), {<<c.item, c.val>>})
      BY <1>0, <2>1 DEF RowForm
    <3> QED  BY <3>1, RowAtRow, KeyForm
  <2>2. CASE w.shape \in {"tag", "link"}
    <3>1. PICK c \in CellsOf(w, ans) : \E o : r = RowAt(w, Key(w, o, d, "-", c.item), {})
      BY <1>0, <2>2 DEF RowForm, TagAt
    <3> QED  BY <3>1, RowAtRow, KeyForm
  <2> QED  BY <2>1, <2>2
<1>2. Block(w.table) # ans.short /\ c \in ans.cells  BY DEF CellsOf
<1>3. \E x \in ans.cells : x.part = "a" /\ x.item = c.item
  <2>1. CASE w.shape = "list"  BY <2>1, CellsForm
  <2>2. CASE w.shape \in {"tag", "link"}  BY <2>2 DEF CellsOf
  <2> QED  BY <2>1, <2>2
<1> QED  BY <1>1, <1>2, <1>3

\* The statement of a link comes with that of what it links to, and with its rows.
LinksCome(p, stmts) ==
    \A s \in stmts : s.w.table = p[1] =>
       \E u \in stmts : u.w.table = p[2] /\ Items(s.rows) \subseteq Items(u.rows)

\* A sync that writes a link writes what it refers to in the same transaction.
LEMMA LinkStmts ==
    ASSUME group \in DOMAIN Groups, NEW ds \in Mates, NEW ans \in Answers(ds), NEW full, NEW open,
           NEW p \in Links
    PROVE  LinksCome(p, StmtsOf(ds, ans, full, open))
<1> SUFFICES ASSUME NEW s \in StmtsOf(ds, ans, full, open), s.w.table = p[1]
             PROVE  \E u \in StmtsOf(ds, ans, full, open) : u.w.table = p[2] /\ Items(s.rows) \subseteq Items(u.rows)
  BY DEF LinksCome
<1>0. IsAnswer(ans) /\ SoundDataset(ds) /\ SoundLinks(ds)  BY AnswerForm, WritesShare
<1>1. s.w \in WritesOf(ds)  BY <1>0, SyncForm DEF FromWrite
<1>2. /\ ds.gate \in {"none", "asof"} /\ ~ds.regional
      /\ s.w.shape \in {"list", "tag", "link"} /\ "part" \notin s.w.key
  BY <1>0, <1>1 DEF SoundLinks
<1>3. PICK v \in WritesOf(ds) : v.table = p[2] /\ (s.w \in ToSet(ds.free) => v \in ToSet(ds.free))
  BY <1>0, <1>1 DEF SoundLinks
<1>4. /\ v.shape = "list" /\ v.key = {"item"} /\ v.parts = Parts
  BY <1>0, <1>3 DEF SoundLinks, Links
<1>5. StmtsOf(ds, ans, full, open)
        = Stmts(ToSet(ds.free), ans) \cup IF open THEN Stmts(ToSet(ds.writes), ans) ELSE {}
  BY <1>2 DEF StmtsOf, AsOfStmts
<1>6. PICK w \in WritesOf(ds) : /\ s = StmtOf(w, ans, day)
                                /\ w \in ToSet(ds.free) \/ (open /\ w \in ToSet(ds.writes))
  BY <1>0, <1>5, DatasetForm DEF Stmts
<1>7. w \in WriteShape /\ SoundWrite(w) /\ v \in WriteShape /\ SoundWrite(v)  BY <1>0, <1>3, DatasetForm
<1>8. s.w = w /\ s.rows = RowsOf(w, ans, day)  BY <1>0, <1>6, <1>7, StmtSound
<1> DEFINE u == StmtOf(v, ans, day)
<1>9. u.w = v /\ u.rows = RowsOf(v, ans, day)  BY <1>0, <1>7, StmtSound
<1>10. v \in ToSet(ds.free) \/ (open /\ v \in ToSet(ds.writes))
  BY <1>0, <1>3, <1>6, <1>8, DatasetForm
<1>11. u \in StmtsOf(ds, ans, full, open)  BY <1>5, <1>10 DEF Stmts
<1> HIDE DEF u
<1>12. "a" \in ans.read  BY <1>2 DEF Answers, Parts
<1>13. Block(p[1]) = Block(p[2])  BY DEF Links, Block
<1>14. "item" \in w.key  BY <1>2, <1>7, <1>8 DEF SoundWrite
<1>15. ASSUME NEW r \in s.rows PROVE r.key.item \in Items(u.rows)
  <2>1. PICK c \in ans.cells : c.part = "a" /\ c.item = r.key.item /\ Block(w.table) # ans.short
    BY <1>0, <1>2, <1>7, <1>8, <1>14, <1>15, LinkRows
  <2>2. Block(v.table) # ans.short  BY <1>3, <1>8, <1>13, <2>1
  <2>3. c.item \in Items(RowsOf(v, ans, day))  BY <1>0, <1>4, <1>7, <1>12, <2>1, <2>2, ParentRows
  <2> QED  BY <1>9, <2>1, <2>3
<1> QED  BY <1>3, <1>9, <1>11, <1>15 DEF Items

\* The items of a table can be told from its keys.
LEMMA ItemsOfKeys == \A S : Items(S) = {k.item : k \in Keys(S)}
  BY DEF Items, Keys

\* A sync keeps links and what they refer to together.
LEMMA LinksSync ==
    ASSUME KeysInv, LinksInv, NEW ds \in Mates, Sync(ds)
    PROVE  LinksInv'
<1>0. group \in DOMAIN Groups  BY DEF KeysInv, WriterInv
<1>1. PICK ans, full : ans \in Answers(ds) /\ Synced(ds, SyncOf(ds, ans, full).stmts, ans)
  BY <1>0, SyncSteps
<1>2. PICK open : SyncOf(ds, ans, full).stmts = StmtsOf(ds, ans, full, open)  BY DEF SyncOf
<1> DEFINE stmts == StmtsOf(ds, ans, full, open)
<1>3. Synced(ds, stmts, ans)  BY <1>1, <1>2
<1>4. group' = group /\ Tables' = Tables  BY <1>0, SyncSteps DEF Tables
<1>11. \A p \in Links : LinksCome(p, stmts)  BY <1>0, <1>1, LinkStmts
<1>5. SUFFICES ASSUME NEW p \in Links, p[1] \in Tables PROVE Items(rows'[p[1]]) \subseteq Items(rows'[p[2]])
  BY <1>4 DEF LinksInv
<1>6. p[2] \in Tables /\ Items(rows[p[1]]) \subseteq Items(rows[p[2]])  BY <1>0, <1>5, LinkTables DEF LinksInv
<1>7. \A t \in Tables : IsTable(rows[t])  BY DEF KeysInv, WriterInv, StoredWell
<1>8. Items(rows[p[2]]) \subseteq Items(rows'[p[2]])
  <2>1. CASE Untouched(p[2])  BY <2>1 DEF Untouched
  <2>2. ASSUME NEW u \in stmts, u.w.table = p[2], WriterStep(p[2], u), SoundStmt(u), FromWrite(ds, ans, u)
        PROVE  Items(rows[p[2]]) \subseteq Items(rows'[p[2]])
    <3>1. u.w.mode = "upsert"  BY <1>0, <2>2, WritesShare DEF FromWrite, SoundLinks, Links
    <3>2. \A o \in rows[p[2]] : o.key \in Keys(rows'[p[2]])
      <4>1. IsTable(rows[p[2]]) /\ rows'[p[2]] = CollectedWrite(rows[p[2]], u)  BY <1>6, <1>7, <2>2 DEF WriterStep
      <4>2. \A o \in rows[p[2]] : o.key \in Keys(rows'[p[2]]) \/ o \in Removed(rows[p[2]], u)
        BY <2>2, <4>1, WriteKeys
      <4> QED  BY <3>1, <4>2, RemovedForm
    <3> QED  BY <3>2, ItemsOfKeys DEF Items
  <2> HIDE DEF stmts
  <2> QED  BY <1>3, <1>6, <2>1, <2>2, TableSynced
<1>9. CASE Untouched(p[1])  BY <1>6, <1>8, <1>9 DEF Untouched
<1>10. ASSUME NEW s \in stmts, s.w.table = p[1], WriterStep(p[1], s), SoundStmt(s)
       PROVE  Items(rows'[p[1]]) \subseteq Items(rows'[p[2]])
  <2>1. PICK u \in stmts : u.w.table = p[2] /\ Items(s.rows) \subseteq Items(u.rows)
    BY <1>10, <1>11 DEF LinksCome
  <2> HIDE DEF stmts
  <2>2. SoundStmt(u) /\ WriterStep(p[2], u)  BY <1>3, <2>1 DEF Synced
  <2>3. Keys(u.rows) \subseteq Keys(rows'[p[2]])  BY <1>6, <1>7, <2>2, WriteKeys DEF WriterStep
  <2>4. Keys(rows'[p[1]]) \subseteq Keys(rows[p[1]]) \cup Keys(s.rows)
    BY <1>5, <1>7, <1>10, WriteKeys DEF WriterStep
  <2>5. Items(u.rows) \subseteq Items(rows'[p[2]])  BY <2>3, ItemsOfKeys
  <2>6. Items(rows'[p[1]]) \subseteq Items(rows[p[1]]) \cup Items(s.rows)  BY <2>4, ItemsOfKeys
  <2> QED  BY <1>6, <1>8, <2>1, <2>5, <2>6
<1> HIDE DEF stmts
<1> QED  BY <1>3, <1>5, <1>9, <1>10, TableSynced

\* What a prune leaves: an article or a report that is linked stays.
LEMMA PruneKeepsLinked ==
    ASSUME group \in DOMAIN Groups, NEW db, NEW before, NEW since, NEW past,
           \A p \in Links : p[1] \in Tables => Items(db[p[1]]) \subseteq Items(db[p[2]])
    PROVE  LET new == RunPrune(db, before, since, past)
           IN  \A p \in Links : p[1] \in Tables => Items(new[p[1]]) \subseteq Items(new[p[2]])
<1> DEFINE first == FirstPruned(db)
<1> DEFINE dated == DatedPruned(first, before, since, past)
<1> DEFINE new == LastPruned(dated)
<1>1. RunPrune(db, before, since, past) = new  BY PruneStages
<1>2. SUFFICES ASSUME NEW p \in Links, p[1] \in Tables PROVE Items(new[p[1]]) \subseteq Items(new[p[2]])
  BY <1>1
<1>3. p[2] \in Tables /\ Items(db[p[1]]) \subseteq Items(db[p[2]])  BY <1>2, LinkTables
<1>4. /\ p[1] \in {"news_symbols", "domain_report_links", "search_report_hits"}
      /\ p[2] \in {"news", "research_reports"}
      /\ p[1] = "news_symbols" <=> p[2] = "news"
  BY DEF Links
<1>5. Items(first[p[1]]) \subseteq Items(first[p[2]])
  <2>1. first[p[1]] = db[p[1]]  BY <1>2, <1>4 DEF FirstPruned
  <2>2. CASE p[2] # "news"
    <3>1. first[p[2]] = db[p[2]]  BY <1>3, <2>2 DEF FirstPruned
    <3> QED  BY <1>3, <2>1, <3>1
  <2>3. CASE p[2] = "news"
    <3>1. first[p[2]] = db[p[2]] \ OrphanNews(db)  BY <1>3, <2>3 DEF FirstPruned
    <3>2. Linked(db, {"news_symbols"}) = Items(db[p[1]])  BY <1>2, <1>4, <2>3, LinkedOne
    <3>3. ASSUME NEW r \in db[p[2]], r.key.item \in Items(db[p[1]]) PROVE r \in first[p[2]]
      BY <2>3, <3>1, <3>2, <3>3 DEF OrphanNews
    <3> HIDE DEF first
    <3>4. \A i \in Items(db[p[1]]) : \E r \in first[p[2]] : r.key.item = i
      <4>1. \A i \in Items(db[p[2]]) : \E r \in db[p[2]] : r.key.item = i  BY DEF Items
      <4> QED  BY <1>3, <3>3, <4>1
    <3> QED  BY <2>1, <3>4 DEF Items
  <2> QED  BY <2>2, <2>3
<1>6. dated[p[2]] = first[p[2]]
  <2>1. p[2] \notin CalendarTables /\ p[2] \notin {"screen_members", "screen_runs", "screen_quotes"}
    BY <1>4 DEF CalendarTables
  <2>2. PICK v \in AllWrites : v.table = p[2]  BY <1>3 DEF Tables, GroupTables, AllWrites
  <2>3. ASSUME NEW w \in AllWrites, w.table = p[2] PROVE w.key = {"item"} /\ w.shape = "list"
    <3>1. PICK ds \in Mates : w \in WritesOf(ds)  BY <2>3, WritesShare
    <3> QED  BY <1>4, <2>3, <3>1, WritesShare DEF SoundLinks
  <2>4. p[2] \notin HistoryTables
    <3> SUFFICES ASSUME NEW ds \in Mates, ds.gate = "snapshot", ds.writes[2].table = p[2] PROVE FALSE
      BY DEF HistoryTables
    <3>1. ds.writes[2] \in AllWrites /\ ds.writes[2].shape = "one"
      <4>1. SoundDataset(ds) /\ WritesOf(ds) \subseteq AllWrites  BY WritesShare
      <4> QED  BY <4>1, DatasetForm
    <3> QED  BY <2>3, <3>1
  <2>5. ~\A w \in AllWrites : w.table = p[2] => "day" \in w.key  BY <2>2, <2>3
  <2>6. PruneScreens(first, p[2], before) = {}  BY <2>1 DEF PruneScreens
  <2> HIDE DEF first
  <2>7. Overdue(first, p[2], before, since, past) = {}  BY <2>1, <2>4, <2>5, <2>6 DEF Overdue
  <2> QED  BY <1>3, <2>7 DEF DatedPruned
<1>7. dated[p[1]] \subseteq first[p[1]]  BY <1>2 DEF DatedPruned
<1>8. new[p[1]] = dated[p[1]]  BY <1>2, <1>4 DEF LastPruned
<1> HIDE DEF dated, first
<1>9. Items(dated[p[1]]) \subseteq Items(dated[p[2]])  BY <1>5, <1>6, <1>7 DEF Items
<1>10. CASE p[2] = "news"
  <2>1. new[p[2]] = dated[p[2]]  BY <1>3, <1>10 DEF LastPruned
  <2> QED  BY <1>8, <1>9, <2>1
<1>11. CASE p[2] = "research_reports"
  <2>1. new[p[2]] = dated[p[2]] \ OrphanReports(dated)  BY <1>3, <1>11 DEF LastPruned
  <2>2. Items(dated[p[1]]) \subseteq Linked(dated, {"domain_report_links", "search_report_hits"})
    <3>1. p[1] \in {"domain_report_links", "search_report_hits"} \cap Tables  BY <1>2, <1>4, <1>11
    <3> QED  BY <3>1 DEF Linked, Items
  <2>3. ASSUME NEW r \in dated[p[2]], r.key.item \in Items(dated[p[1]]) PROVE r \in new[p[2]]
    BY <1>11, <2>1, <2>2, <2>3 DEF OrphanReports
  <2> HIDE DEF new
  <2>4. \A i \in Items(dated[p[1]]) : \E r \in new[p[2]] : r.key.item = i
    <3>1. \A i \in Items(dated[p[2]]) : \E r \in dated[p[2]] : r.key.item = i  BY DEF Items
    <3> QED  BY <1>9, <2>3, <3>1
  <2> QED  BY <1>8, <2>4 DEF Items
<1> QED  BY <1>4, <1>10, <1>11

\* So does every step: retention takes back only what nothing links to.
LEMMA LinksNext == KeysInv /\ LinksInv /\ [SyncNext]_syncVars => LinksInv'
<1> SUFFICES ASSUME KeysInv, LinksInv, [SyncNext]_syncVars PROVE LinksInv'  OBVIOUS
<1>0. WriterInv /\ group \in DOMAIN Groups  BY DEF KeysInv, WriterInv
<1>1. ASSUME NEW ds \in Mates, Sync(ds) PROVE LinksInv'  BY <1>1, LinksSync
<1>2. ASSUME NEW x, AddSymbol(x) PROVE LinksInv'
  <2>1. Tables' = Tables  BY <1>2, AddForm DEF Tables
  <2>2. SUFFICES ASSUME NEW p \in Links, p[1] \in Tables PROVE Items(rows'[p[1]]) \subseteq Items(rows'[p[2]])
    BY <2>1 DEF LinksInv
  <2>3. p[2] \in Tables /\ p[1] # "symbols" /\ p[2] # "symbols"  BY <1>0, <2>2, LinkTables DEF Links
  <2>4. Untouched(p[1]) /\ Untouched(p[2])  BY <1>2, <2>2, <2>3, AddForm
  <2> QED  BY <2>2, <2>4 DEF Untouched, LinksInv
<1>3. ASSUME Prune PROVE LinksInv'
  <2>1. PICK before, since, past : rows' = RunPrune(rows, before, since, past)  BY <1>3 DEF Prune
  <2>2. Tables' = Tables  BY <1>3 DEF Prune, Tables
  <2>3. \A p \in Links : p[1] \in Tables => Items(rows'[p[1]]) \subseteq Items(rows'[p[2]])
    BY <1>0, <2>1, PruneKeepsLinked DEF LinksInv
  <2> QED  BY <2>2, <2>3 DEF LinksInv
<1>4. ASSUME Purge PROVE LinksInv'
  <2>1. Tables' = Tables  BY <1>4 DEF Purge, Tables
  <2>2. SUFFICES ASSUME NEW p \in Links, p[1] \in Tables PROVE Items(rows'[p[1]]) \subseteq Items(rows'[p[2]])
    BY <2>1 DEF LinksInv
  <2>3. p[2] \in Tables /\ p[2] \in {"news", "research_reports"}  BY <1>0, <2>2, LinkTables DEF Links
  <2>4. ASSUME NEW t \in Tables
        PROVE  rows'[t] = {r \in rows[t] : /\ t \in Scoped => r.key.owner # Owner
                                           /\ t = "symbols" => r.key.item # Owner}
    BY <1>4 DEF Purge
  <2>5. p[2] \notin Scoped
    <3> SUFFICES ASSUME NEW ds \in Mates, NEW w \in WritesOf(ds), "owner" \in w.key, w.table = p[2] PROVE FALSE
      BY DEF Scoped
    <3>1. w.key = {"item"}  BY <1>0, <2>3, WritesShare DEF SoundLinks
    <3> QED  BY <3>1
  <2>6. rows'[p[1]] \subseteq rows[p[1]]  BY <2>2, <2>4
  <2>7. rows'[p[2]] = rows[p[2]]
    <3>1. p[2] # "symbols" /\ p[2] \in Tables  BY <2>3
    <3>2. \A r \in rows[p[2]] : /\ p[2] \in Scoped => r.key.owner # Owner
                                /\ p[2] = "symbols" => r.key.item # Owner
      BY <2>5, <3>1
    <3>3. rows'[p[2]] = {r \in rows[p[2]] : /\ p[2] \in Scoped => r.key.owner # Owner
                                            /\ p[2] = "symbols" => r.key.item # Owner}
      BY <2>4, <3>1
    <3> QED  BY <3>2, <3>3
  <2> QED  BY <2>2, <2>6, <2>7 DEF LinksInv, Items
<1>5. UNCHANGED <<group, rows>> => LinksInv'  BY DEF LinksInv, Tables
<1> QED  BY <1>0, <1>1, <1>2, <1>3, <1>4, <1>5, SyncCases

\* The invariant is what LinksHaveParents says.
LEMMA LinksTell ==
    KeysInv /\ LinksInv => LinksHaveParents
<1> SUFFICES ASSUME KeysInv, LinksInv, NEW p \in Links, p[1] \in Tables
             PROVE  Linked(rows, {p[1]}) \subseteq Linked(rows, {p[2]})
  BY DEF LinksHaveParents
<1>1. p[2] \in Tables  BY LinkTables DEF KeysInv, WriterInv
<1> QED  BY <1>1, LinkedOne DEF LinksInv

\* No link is left without the article, the report or the event it refers to.
THEOREM SyncsKeepLinks == SyncSpec => []LinksHaveParents
<1>1. SyncSpec => []LinksInv  BY LinksInit, LinksNext, SyncsKeepKeys, PTL DEF SyncSpec
<1> QED  BY <1>1, LinksTell, SyncsKeepKeys, PTL

\* The tables hold together, whichever datasets, retention and purges share them: one
\* row for a key, no link without its parent, nothing of another dataset overwritten.
THEOREM TheTablesHold == SyncSpec => TablesHold
<1> QED  BY SyncsKeepTypes, SyncsKeepLinks, SyncsKeepOthers, PTL DEF TablesHold

\* What a stored row has of the answer: it is as it was, the row of the answer, or touched.
Says(T, s, r) ==
    \/ r \in T /\ r \notin Removed(T, s) /\ r.key \notin Keys(s.rows \cup s.touched)
    \/ \E n \in s.rows : /\ r.key = n.key /\ r.known = n.known
                         /\ "c" \in Effective(s.w) => r.c = n.c
                         /\ "d" \in Effective(s.w) => r.d = n.d
                         /\ "e" \in Effective(s.w) => r.e = n.e
                         /\ \/ r = n
                            \/ \E o \in T : /\ o.key = n.key
                                            /\ "c" \notin Effective(s.w) => r.c = o.c
                                            /\ "d" \notin Effective(s.w) => r.d = o.d
                                            /\ "e" \notin Effective(s.w) => r.e = o.e
    \/ \E o \in T, n \in s.touched : /\ r.key = o.key /\ r.key = n.key /\ r.c = o.c
                                     /\ r.d = o.d /\ r.e = o.e /\ r.known = o.known

\* Every row of a table after a statement says what the statement said of its key, or
\* what it said before.
LEMMA WrittenAs ==
    ASSUME NEW T, NEW s, IsTable(T), SoundStmt(s), NEW r \in CollectedWrite(T, s)
    PROVE  Says(T, s, r)
<1>1. s.w \in WriteShape  BY DEF SoundStmt
<1>2. Arises(T, s, r)  BY Written
<1>3. \A o \in T : \A n : /\ Seen(o, n).key = o.key /\ Seen(o, n).c = o.c /\ Seen(o, n).d = o.d /\ Seen(o, n).e = o.e
                           /\ Seen(o, n).known = o.known
  BY SeenRow DEF IsTable
<1>4. ASSUME NEW o \in T, NEW n \in s.rows, <<o, n>> \in Moved(T, s), r = Update(o, n, s.w)
      PROVE  /\ o.key = n.key /\ r.key = n.key /\ r.known = n.known
             /\ "c" \in Effective(s.w) => r.c = n.c
             /\ "d" \in Effective(s.w) => r.d = n.d
             /\ "e" \in Effective(s.w) => r.e = n.e
             /\ "c" \notin Effective(s.w) => r.c = o.c
             /\ "d" \notin Effective(s.w) => r.d = o.d
             /\ "e" \notin Effective(s.w) => r.e = o.e
  <2>1. o.key = n.key  BY <1>1, <1>4, MovedPairs
  <2> QED  BY <1>4, <2>1 DEF Update
<1>5. ASSUME NEW o \in T, NEW n \in s.rows, o.key = n.key, <<o, n>> \notin Moved(T, s), r = Seen(o, n)
      PROVE  /\ r.key = n.key /\ r.known = n.known
             /\ "c" \in Effective(s.w) => r.c = n.c
             /\ "d" \in Effective(s.w) => r.d = n.d
             /\ "e" \in Effective(s.w) => r.e = n.e
             /\ "c" \notin Effective(s.w) => r.c = o.c
             /\ "d" \notin Effective(s.w) => r.d = o.d
             /\ "e" \notin Effective(s.w) => r.e = o.e
  BY <1>1, <1>3, <1>5, MovedPairs
<1>6. ASSUME NEW o \in T, NEW n \in s.touched, o.key = n.key, r = Seen(o, n)
      PROVE  r.key = o.key /\ r.key = n.key /\ r.c = o.c /\ r.d = o.d /\ r.e = o.e /\ r.known = o.known
  BY <1>3, <1>6
<1>7. r \in New(T, s.rows) => r \in s.rows  BY DEF New
<1> QED  BY <1>2, <1>4, <1>5, <1>6, <1>7, ZenonT(60) DEF Arises, Says

\* Behind a name the pruner does not treat, only days go.
LEMMA PruneOther ==
    ASSUME NEW db, NEW before, NEW since, NEW past, NEW t \in Tables, t \notin TreatedByName
    PROVE  RunPrune(db, before, since, past)[t] =
             db[t] \ ({r \in db[t] : t \in HistoryTables /\ r.key.day < since}
                      \cup (IF t \in AsOfTables /\ (\A w \in AllWrites : w.table = t => "day" \in w.key)
                            THEN PruneAsOf(t, db[t], before) ELSE {})
                      \cup (IF "screen_runs" \in Tables THEN PruneScreens(FirstPruned(db), t, before) ELSE {}))
<1> DEFINE first == FirstPruned(db)
<1> DEFINE dated == DatedPruned(first, before, since, past)
<1>1. RunPrune(db, before, since, past) = LastPruned(dated)  BY PruneStages
<1>2. t \notin CalendarTables /\ t # "news" /\ t # "research_reports"  BY DEF TreatedByName
<1>3. first[t] = db[t]  BY <1>2 DEF FirstPruned
<1> HIDE DEF first
<1>4. dated[t] = first[t] \ Overdue(first, t, before, since, past)  BY DEF DatedPruned
<1>5. Overdue(first, t, before, since, past) =
           ({r \in db[t] : t \in HistoryTables /\ r.key.day < since}
                      \cup (IF t \in AsOfTables /\ (\A w \in AllWrites : w.table = t => "day" \in w.key)
                            THEN PruneAsOf(t, db[t], before) ELSE {})
                      \cup (IF "screen_runs" \in Tables THEN PruneScreens(first, t, before) ELSE {}))
  BY <1>2, <1>3 DEF Overdue
<1> HIDE DEF dated
<1>6. LastPruned(dated)[t] = dated[t]  BY <1>2 DEF LastPruned
<1> QED  BY <1>1, <1>3, <1>4, <1>5, <1>6 DEF first

\* The retention of screens concerns the tables of screens.
LEMMA NoScreens ==
    ASSUME NEW db, NEW t, t \notin TreatedByName \cup Screens, NEW before
    PROVE  PruneScreens(db, t, before) = {}
  BY DEF PruneScreens, TreatedByName, Screens

--------------------------------------------------------------------------------
(* A snapshot and its history. *)

\* The key of a snapshot of a part.
SnapKey(p) == [owner |-> Owner, day |-> 0, part |-> p, item |-> "-"]
\* The history of a snapshot's part ends at a moment, with what the snapshot has; it
\* may be gone once retention has run.
EndsAt(hist, s, m) ==
    /\ \A h \in rows[hist.table] : h.key.part = s.key.part => h.key.day <= m /\ (h.key.day = m => h.c = s.c)
    /\ \/ \E h \in rows[hist.table] : h.key.part = s.key.part /\ h.key.day = m
       \/ prunes # 0 /\ \A h \in rows[hist.table] : h.key.part # s.key.part

\* Every snapshot of a dataset is where its history ends.
SnapWell(ds) ==
    /\ \A h \in rows[ds.writes[2].table] : h.key.owner = Owner /\ h.key.day \in 0..now
    /\ \A s \in rows[ds.writes[1].table] : /\ s.key = SnapKey(s.key.part)
                                           /\ \E m \in 0..now : EndsAt(ds.writes[2], s, m)

\* What the snapshot gate keeps.
SnapInv == /\ now \in Nat /\ prunes \in Nat
           /\ \A ds \in Mates : ds.gate = "snapshot" => SnapWell(ds)

\* What the assumption says of a snapshot dataset: a snapshot and a history, of one
\* row for a part, that are only ever upserted.
SnapFacts(ds) ==
    LET snap == ds.writes[1]  hist == ds.writes[2]
    IN  /\ snap \in WriteShape /\ hist \in WriteShape /\ SoundWrite(snap) /\ SoundWrite(hist)
        /\ snap \in WritesOf(ds) /\ hist \in WritesOf(ds)
        /\ snap.shape = "one" /\ hist.shape = "one" /\ snap.mode = "upsert" /\ hist.mode = "upsert"
        /\ snap.table # hist.table /\ {snap.table, hist.table} \subseteq Tables
        /\ SoundSnapshot(ds)

\* It says so of every snapshot dataset.
LEMMA SnapForm ==
    ASSUME group \in DOMAIN Groups, NEW ds \in Mates, ds.gate = "snapshot"
    PROVE  SnapFacts(ds)
<1>1. SoundDataset(ds) /\ SoundGate(ds) /\ WritesOf(ds) \subseteq AllWrites  BY WritesShare
<1>2. SoundSnapshot(ds)  BY <1>1 DEF SoundGate
<1>3. {ds.writes[1], ds.writes[2]} \subseteq WritesOf(ds)  BY <1>1, DatasetForm
<1>4. \A w \in WritesOf(ds) : w.table \in Tables  BY <1>1, WritesShare
<1> QED  BY <1>1, <1>2, <1>3, <1>4, DatasetForm DEF SnapFacts

\* Where the history ends is its newest row: the invariant gives the property.
LEMMA SnapEnds ==
    ASSUME SnapInv, group \in DOMAIN Groups
    PROVE  HistoryEndsAtSnapshot
<1> SUFFICES ASSUME NEW ds \in Mates, ds.gate = "snapshot", NEW s \in rows[ds.writes[1].table]
             PROVE  LET past == {h \in rows[ds.writes[2].table] : h.key.part = s.key.part}
                    IN  /\ prunes = 0 => past # {}
                        /\ \A h \in past : h.key.day = Max(Days(past)) => h.c = s.c
  BY DEF HistoryEndsAtSnapshot
<1> DEFINE past == {h \in rows[ds.writes[2].table] : h.key.part = s.key.part}
<1>1. PICK m \in 0..now : EndsAt(ds.writes[2], s, m)  BY DEF SnapInv, SnapWell
<1>2. \A h \in past : h.key.day <= m /\ (h.key.day = m => h.c = s.c) /\ h.key.day \in Nat
  BY <1>1 DEF EndsAt, SnapInv, SnapWell
<1>3. CASE past = {}  BY <1>1, <1>3 DEF EndsAt
<1>4. ASSUME NEW g \in past, g.key.day = m PROVE Max(Days(past)) = m
  <2>1. m \in Days(past) /\ \A d \in Days(past) : d \in Nat /\ m >= d  BY <1>1, <1>2, <1>4 DEF Days, SnapInv
  <2>2. \A x \in Days(past) : (\A d \in Days(past) : x >= d) => x = m  BY <2>1
  <2> HIDE DEF past
  <2> QED  BY <2>1, <2>2 DEF Max
<1>5. ASSUME NEW g \in past, g.key.day = m
      PROVE  \A h \in past : h.key.day = Max(Days(past)) => h.c = s.c
  <2>1. Max(Days(past)) = m  BY <1>4, <1>5
  <2> HIDE DEF past
  <2> QED  BY <1>2, <2>1
<1>6. past = {} \/ \E g \in past : g.key.day = m  BY <1>1 DEF EndsAt
<1> QED  BY <1>3, <1>5, <1>6

\* A write of one row makes one for each part that was read.
LEMMA OneRow ==
    ASSUME NEW w \in WriteShape, w.shape = "one", NEW from, NEW ans, NEW d
    PROVE  \A r : r \in RowsFrom(w, from, ans, d) <=>
             \E p \in IF "part" \in w.key THEN w.parts \cap Spoken(w, ans) ELSE {"-"} :
                r = RowAt(w, Key(w, Owner, d, p, "-"), AboutPart(w, from, ans, p))
<1>1. \A r : r \in RowsFrom(w, from, ans, d) <=> RowForm(w, from, ans, d, r)  BY RowForms
<1> QED  BY <1>1 DEF RowForm

\* The snapshot and the history row of a part tell the same.
LEMMA SnapRows ==
    ASSUME NEW ds \in Mates, SnapFacts(ds), NEW ans, ans \in Answers(ds)
    PROVE  /\ \A n \in RowsOf(ds.writes[1], ans, day) : n.key = SnapKey(n.key.part)
           /\ \A h \in RowsOf(ds.writes[2], ans, now + 1) : h.key.owner = Owner /\ h.key.day = now + 1
           /\ \A n \in RowsOf(ds.writes[1], ans, day), h \in RowsOf(ds.writes[2], ans, now + 1) :
                 n.key.part = h.key.part => n.c = h.c
           /\ \A n \in RowsOf(ds.writes[1], ans, day) : \E h \in RowsOf(ds.writes[2], ans, now + 1) :
                 n.key.part = h.key.part
<1> DEFINE snap == ds.writes[1]
<1> DEFINE hist == ds.writes[2]
<1> DEFINE ps(w) == IF "part" \in w.key THEN w.parts \cap Spoken(w, ans) ELSE {"-"}
<1>1. /\ snap \in WriteShape /\ hist \in WriteShape /\ snap.shape = "one" /\ hist.shape = "one"
      /\ "owner" \in snap.key /\ "day" \notin snap.key /\ "item" \notin snap.key
      /\ hist.key = snap.key \cup {"day"}
      /\ hist.parts = snap.parts /\ hist.given = snap.given
      /\ "c" \in snap.insert /\ "c" \in hist.insert
  BY DEF SnapFacts, SoundSnapshot
<1>2. CellsOf(snap, ans) = CellsOf(hist, ans)
  <2>1. ASSUME NEW w \in {snap, hist} PROVE Block(w.table) # ans.short
    <3>1. ans.short = "none" \/ \E x \in WritesOf(ds) : x.shape # "one" /\ ans.short = Block(x.table)
      BY DEF Answers
    <3>2. Block(w.table) # "none" /\ \A x \in WritesOf(ds) : x.shape # "one" => Block(x.table) # Block(w.table)
      BY <2>1 DEF SnapFacts, SoundSnapshot
    <3> QED  BY <3>1, <3>2
  <2> HIDE DEF snap, hist
  <2>2. \A w \in {snap, hist} : CellsOf(w, ans) = {c \in ans.cells : c.part \in w.parts \cap ans.read}
    BY <1>1, <2>1 DEF CellsOf
  <2> QED  BY <1>1, <2>2
<1>3. ps(snap) = ps(hist)  BY <1>1 DEF Spoken
<1>4. \A p : AboutPart(snap, snap, ans, p) = AboutPart(hist, hist, ans, p)  BY <1>1, <1>2 DEF AboutPart
<1> HIDE DEF snap, hist
<1>5. \A n : n \in RowsOf(snap, ans, day) <=>
              \E p \in ps(snap) : n = RowAt(snap, Key(snap, Owner, day, p, "-"), AboutPart(snap, snap, ans, p))
  BY <1>1, OneRow DEF RowsOf
<1>6. \A h : h \in RowsOf(hist, ans, now + 1) <=>
              \E p \in ps(hist) : h = RowAt(hist, Key(hist, Owner, now + 1, p, "-"), AboutPart(hist, hist, ans, p))
  BY <1>1, OneRow DEF RowsOf
<1>7. ASSUME NEW p \in ps(snap)
      PROVE  LET n == RowAt(snap, Key(snap, Owner, day, p, "-"), AboutPart(snap, snap, ans, p))
             IN  n.key = SnapKey(p) /\ n.key.part = p /\ n.c = AboutPart(snap, snap, ans, p)
  <2>1. Key(snap, Owner, day, p, "-") = SnapKey(p)
    BY <1>1, <1>7 DEF Key, SnapKey
  <2> QED  BY <1>1, <2>1 DEF RowAt, SnapKey
<1>8. ASSUME NEW p \in ps(hist)
      PROVE  LET h == RowAt(hist, Key(hist, Owner, now + 1, p, "-"), AboutPart(hist, hist, ans, p))
             IN  /\ h.key.owner = Owner /\ h.key.day = now + 1 /\ h.key.part = p
                 /\ h.c = AboutPart(hist, hist, ans, p)
  <2>1. LET k == Key(hist, Owner, now + 1, p, "-") IN k.owner = Owner /\ k.day = now + 1 /\ k.part = p
    BY <1>1, <1>8 DEF Key
  <2> QED  BY <1>1, <2>1 DEF RowAt
<1> HIDE DEF ps
<1>9. \A n \in RowsOf(snap, ans, day) : n.key = SnapKey(n.key.part) /\ n.key.part \in ps(snap)
                                       /\ n.c = AboutPart(snap, snap, ans, n.key.part)
  BY <1>5, <1>7
<1>10. \A h \in RowsOf(hist, ans, now + 1) : /\ h.key.owner = Owner /\ h.key.day = now + 1
                                            /\ h.c = AboutPart(hist, hist, ans, h.key.part)
  BY <1>6, <1>8
<1>11. \A p \in ps(hist) : \E h \in RowsOf(hist, ans, now + 1) : h.key.part = p  BY <1>6, <1>8
<1> QED  BY <1>3, <1>4, <1>9, <1>10, <1>11 DEF snap, hist

\* The tables of a snapshot after its own sync.
SnapSynced(ds, new, moved, kept) ==
    /\ \A s \in rows'[ds.writes[1].table] :
          \/ s \in rows[ds.writes[1].table] /\ s.key \notin Keys(new)
          \/ \E n \in new : s.key = n.key /\ s.c = n.c
    /\ rows'[ds.writes[2].table] = rows[ds.writes[2].table] \cup kept
    /\ kept = {h \in RowsOf(ds.writes[2], moved.ans, now + 1) : \E n \in moved.rows : n.key.part = h.key.part}
    /\ new = RowsOf(ds.writes[1], moved.ans, day) /\ moved.rows \subseteq new
    /\ \A n \in new \ moved.rows : \E r \in rows[ds.writes[1].table] : r.key = n.key /\ r.c = n.c

\* A sync of the dataset upserts the snapshot with the answer, and the history with
\* the parts whose snapshot moved.
LEMMA SnapTables ==
    ASSUME KeysInv, SnapInv, NEW ds \in Mates, ds.gate = "snapshot", NEW ans, ans \in Answers(ds), NEW full, NEW open,
           Synced(ds, StmtsOf(ds, ans, full, open), ans)
    PROVE  \E new, moved, kept : moved.ans = ans /\ SnapSynced(ds, new, moved, kept)
<1> DEFINE snap == ds.writes[1]
<1> DEFINE hist == ds.writes[2]
<1> DEFINE new == RowsOf(snap, ans, day)
<1> DEFINE fresh == FreshRows(snap, new, full)
<1> DEFINE kept == {h \in RowsOf(hist, ans, now + 1) : \E n \in fresh : n.key.part = h.key.part}
<1> DEFINE s == StmtOf(snap, ans, day)
<1> DEFINE u == Stmt(hist, kept, {}, {})
<1>0. SnapFacts(ds) /\ SoundDataset(ds)  BY SnapForm, WritesShare DEF KeysInv, WriterInv
<1>1. StmtsOf(ds, ans, full, open) = Stmts(ToSet(ds.writes) \ {hist}, ans) \cup {u}
  BY DEF StmtsOf, SnapshotStmts
<1>2. s \in StmtsOf(ds, ans, full, open)
  <2>1. snap \in ToSet(ds.writes) \ {hist}  BY <1>0, DatasetForm DEF SnapFacts
  <2> QED  BY <1>1, <2>1 DEF Stmts
<1>3. u \in StmtsOf(ds, ans, full, open) /\ u.w = hist /\ u.rows = kept /\ u.touched = {}
  BY <1>1 DEF Stmt
<1>4. s.w = snap /\ s.rows = new /\ s.touched = {}
  BY <1>0, StmtSound, AnswerForm DEF SnapFacts
<1>5. snap.table \in Tables /\ hist.table \in Tables  BY <1>0 DEF SnapFacts
<1>6. \A t \in Tables : IsTable(rows[t])  BY DEF KeysInv, WriterInv, StoredWell
<1> HIDE DEF s, u
<1>7. rows'[snap.table] = CollectedWrite(rows[snap.table], s) /\ SoundStmt(s)
  BY <1>2, <1>4 DEF Synced, WriterStep
<1>8. rows'[hist.table] = CollectedWrite(rows[hist.table], u) /\ SoundStmt(u)
  BY <1>2, <1>3 DEF Synced, WriterStep
<1>9. \A r \in rows'[snap.table] : \/ r \in rows[snap.table] /\ r.key \notin Keys(new)
                                   \/ \E n \in new : r.key = n.key /\ r.c = n.c
  <2>1. "c" \in Effective(s.w) /\ s.w.mode = "upsert"
    BY <1>0, <1>4 DEF SnapFacts, SoundSnapshot, Effective
  <2>2. s.rows \cup s.touched = new  BY <1>4
  <2>3. IsTable(rows[snap.table])  BY <1>5, <1>6
  <2> HIDE DEF new, snap
  <2> SUFFICES ASSUME NEW r \in CollectedWrite(rows[snap.table], s)
               PROVE  \/ r \in rows[snap.table] /\ r.key \notin Keys(new)
                      \/ \E n \in new : r.key = n.key /\ r.c = n.c
    BY <1>7
  <2>4. Says(rows[snap.table], s, r)  BY <1>7, <2>3, WrittenAs
  <2> QED  BY <1>4, <2>1, <2>2, <2>4 DEF Says
<1>10. rows'[hist.table] = rows[hist.table] \cup kept
  <2>1. \A n \in kept, o \in rows[hist.table] : o.key # n.key
    <3>1. \A n \in kept : n.key.day = now + 1  BY <1>0, SnapRows
    <3>2. \A o \in rows[hist.table] : o.key.day \in 0..now  BY DEF SnapInv, SnapWell
    <3>3. now \in Nat  BY DEF SnapInv
    <3> HIDE DEF kept
    <3> QED  BY <3>1, <3>2, <3>3
  <2>2. Removed(rows[hist.table], u) = {}
    BY <1>0, <1>3, RemovedForm DEF SnapFacts
  <2> HIDE DEF kept, hist
  <2>3. \A r : r \in CollectedWrite(rows[hist.table], u) <=> Arises(rows[hist.table], u, r)  BY Written
  <2>4. u.w \in WriteShape  BY <1>8 DEF SoundStmt
  <2>5. \A r : Arises(rows[hist.table], u, r) <=> r \in rows[hist.table] \/ r \in kept
    <3>1. \A r \in rows[hist.table] : r.key \notin Keys(u.rows \cup u.touched)  BY <1>3, <2>1 DEF Keys
    <3>2. New(rows[hist.table], u.rows) = kept  BY <1>3, <2>1 DEF New, Keys
    <3>3. \A o \in rows[hist.table], n \in u.rows : o.key # n.key  BY <1>3, <2>1
    <3>4. \A o \in rows[hist.table], n \in u.rows : <<o, n>> \notin Moved(rows[hist.table], u)
      <4> SUFFICES ASSUME NEW o \in rows[hist.table], NEW n \in u.rows, <<o, n>> \in Moved(rows[hist.table], u)
                   PROVE  FALSE
        OBVIOUS
      <4>1. o.key = n.key  BY <2>4, MovedPairs
      <4> QED  BY <3>3, <4>1
    <3> QED  BY <1>3, <2>2, <3>1, <3>2, <3>3, <3>4 DEF Arises
  <2> QED  BY <1>8, <2>3, <2>5
<1>11. fresh \subseteq new /\ \A n \in new \ fresh : \E r \in rows[snap.table] : r.key = n.key /\ r.c = n.c
  BY DEF FreshRows
<1> DEFINE moved == [ans |-> ans, rows |-> fresh]
<1>12. moved.ans = ans /\ moved.rows = fresh  OBVIOUS
<1> HIDE DEF moved, fresh
<1>13. SnapSynced(ds, new, moved, kept)  BY <1>9, <1>10, <1>11, <1>12 DEF SnapSynced
<1> QED  BY <1>12, <1>13

\* A sync of the dataset keeps its snapshot where its history ends.
LEMMA SnapSync ==
    ASSUME KeysInv, SnapInv, NEW ds \in Mates, ds.gate = "snapshot", Sync(ds)
    PROVE  SnapWell(ds)'
<1>0. group \in DOMAIN Groups /\ SnapFacts(ds) /\ SnapWell(ds) /\ now \in Nat
  BY SnapForm DEF KeysInv, WriterInv, SnapInv
<1>1. PICK ans, full : ans \in Answers(ds) /\ Synced(ds, SyncOf(ds, ans, full).stmts, ans)  BY <1>0, SyncSteps
<1>2. now' = now + 1 /\ prunes' = prunes  BY <1>0, SyncSteps
<1>3. PICK new, moved, kept : moved.ans = ans /\ SnapSynced(ds, new, moved, kept)
  <2>1. PICK open : SyncOf(ds, ans, full).stmts = StmtsOf(ds, ans, full, open)  BY DEF SyncOf
  <2> QED  BY <1>1, <2>1, SnapTables
<1> DEFINE snap == ds.writes[1]
<1> DEFINE hist == ds.writes[2]
<1>4. /\ \A n \in new : n.key = SnapKey(n.key.part)
      /\ \A h \in kept : h.key.owner = Owner /\ h.key.day = now + 1
      /\ \A n \in new, h \in kept : n.key.part = h.key.part => n.c = h.c
      /\ \A n \in moved.rows : \E h \in kept : n.key.part = h.key.part
      /\ \A h \in kept : \E n \in moved.rows : n.key.part = h.key.part
      /\ moved.rows \subseteq new
  BY <1>0, <1>1, <1>3, SnapRows DEF SnapSynced
<1>5. /\ \A h \in rows[hist.table] : h.key.owner = Owner /\ h.key.day \in 0..now
      /\ \A r \in rows[snap.table] : r.key = SnapKey(r.key.part) /\ \E m \in 0..now : EndsAt(hist, r, m)
  BY <1>0 DEF SnapWell
<1>6. rows'[hist.table] = rows[hist.table] \cup kept  BY <1>3 DEF SnapSynced
<1>7. \A h \in rows'[hist.table] : h.key.owner = Owner /\ h.key.day \in 0..now'
  BY <1>0, <1>2, <1>4, <1>5, <1>6
<1>8. \A p, q : SnapKey(p) = SnapKey(q) <=> p = q  BY DEF SnapKey
<1>9. ASSUME NEW s \in rows'[snap.table], NEW r \in rows[snap.table], r.key = s.key, r.c = s.c,
             \A h \in kept : h.key.part # s.key.part
      PROVE  s.key = SnapKey(s.key.part) /\ \E m \in 0..now' : EndsAt(hist, s, m)'
  <2>1. PICK m \in 0..now : EndsAt(hist, r, m)  BY <1>5, <1>9
  <2>2. \A h \in rows'[hist.table] : h.key.part = s.key.part => h \in rows[hist.table]  BY <1>6, <1>9
  <2>3. rows[hist.table] \subseteq rows'[hist.table]  BY <1>6
  <2>4. EndsAt(hist, s, m)'
    <3>1. \A h \in rows'[hist.table] : h.key.part = s.key.part => h.key.day <= m /\ (h.key.day = m => h.c = s.c)
      BY <1>9, <2>1, <2>2 DEF EndsAt
    <3>2. \/ \E h \in rows'[hist.table] : h.key.part = s.key.part /\ h.key.day = m
          \/ prunes' # 0 /\ \A h \in rows'[hist.table] : h.key.part # s.key.part
      BY <1>2, <1>9, <2>1, <2>2, <2>3 DEF EndsAt
    <3> QED  BY <3>1, <3>2 DEF EndsAt
  <2>5. m \in 0..now'  BY <1>0, <1>2, <2>1
  <2> QED  BY <1>5, <1>9, <2>4, <2>5
<1>10. ASSUME NEW s \in rows'[snap.table], NEW n \in moved.rows, s.key = n.key, s.c = n.c
       PROVE  s.key = SnapKey(s.key.part) /\ \E m \in 0..now' : EndsAt(hist, s, m)'
  <2>1. \A h \in rows'[hist.table] : h.key.part = s.key.part => h.key.day <= now + 1
    BY <1>0, <1>2, <1>7
  <2>2. ASSUME NEW h \in rows'[hist.table], h.key.part = s.key.part, h.key.day = now + 1
        PROVE  h.c = s.c
    <3>1. h \in kept  BY <1>0, <1>5, <1>6, <2>2
    <3> QED  BY <1>4, <1>10, <2>2, <3>1
  <2>3. \E h \in rows'[hist.table] : h.key.part = s.key.part /\ h.key.day = now + 1  BY <1>4, <1>6, <1>10
  <2>4. PICK e \in 0..now' : e = now + 1  BY <1>0, <1>2
  <2>5. EndsAt(hist, s, e)'
    <3>1. \A h \in rows'[hist.table] : h.key.part = s.key.part => h.key.day <= e /\ (h.key.day = e => h.c = s.c)
      BY <2>1, <2>2, <2>4
    <3>2. \E h \in rows'[hist.table] : h.key.part = s.key.part /\ h.key.day = e  BY <2>3, <2>4
    <3> QED  BY <3>1, <3>2 DEF EndsAt
  <2> QED  BY <1>4, <1>10, <2>5
<1>11. ASSUME NEW s \in rows'[snap.table]
       PROVE  s.key = SnapKey(s.key.part) /\ \E m \in 0..now' : EndsAt(hist, s, m)'
  <2>1. CASE s \in rows[snap.table] /\ s.key \notin Keys(new)
    <3>1. \A h \in kept : h.key.part # s.key.part
      <4> SUFFICES ASSUME NEW h \in kept, h.key.part = s.key.part PROVE FALSE  OBVIOUS
      <4>1. PICK n \in moved.rows : n.key.part = h.key.part  BY <1>4
      <4>2. n \in new /\ n.key = s.key  BY <1>4, <1>5, <2>1, <4>1
      <4> QED  BY <2>1, <4>2 DEF Keys
    <3> QED  BY <1>9, <2>1, <3>1
  <2>2. ASSUME NEW n \in new, s.key = n.key, s.c = n.c, n \notin moved.rows
        PROVE  s.key = SnapKey(s.key.part) /\ \E m \in 0..now' : EndsAt(hist, s, m)'
    <3>1. PICK r \in rows[snap.table] : r.key = n.key /\ r.c = n.c  BY <1>3, <2>2 DEF SnapSynced
    <3>2. \A h \in kept : h.key.part # s.key.part
      <4> SUFFICES ASSUME NEW h \in kept, h.key.part = s.key.part PROVE FALSE  OBVIOUS
      <4>1. PICK l \in moved.rows : l.key.part = h.key.part  BY <1>4
      <4>2. l \in new /\ l.key = n.key  BY <1>4, <2>2, <4>1
      <4>3. l = n
        <5>1. IsTable(new)  BY <1>0, <1>1, <1>3, RowsTable, AnswerForm DEF SnapFacts, SnapSynced, RowsOf
        <5> QED  BY <2>2, <4>2, <5>1 DEF IsTable
      <4> QED  BY <2>2, <4>1, <4>3
    <3> QED  BY <1>9, <2>2, <3>1, <3>2
  <2>3. \/ s \in rows[snap.table] /\ s.key \notin Keys(new)
        \/ \E n \in new : s.key = n.key /\ s.c = n.c
    BY <1>3, <1>11 DEF SnapSynced
  <2> QED  BY <1>10, <2>1, <2>2, <2>3
<1> QED  BY <1>7, <1>11 DEF SnapWell

\* What is kept behind the gate of a dataset is written by it alone.
Behind(ds) == {ds.writes[1].table, ds.writes[2].table}
\* The datasets with a gate of hashes or of snapshots.
Guarded(ds) == ds \in Mates /\ ds.gate \in {"hash", "snapshot"}

\* Nobody but the dataset writes the tables behind its gate, and retention has no rule
\* for them by name.
LEMMA BehindForm ==
    ASSUME group \in DOMAIN Groups, NEW ds, Guarded(ds), NEW t \in Behind(ds)
    PROVE  /\ t \in Tables /\ t \notin TreatedByName /\ t \notin AsOfTables
           /\ \A e \in Mates : e # ds => \A w \in WritesOf(e) : w.table # t
<1>1. SoundDataset(ds) /\ SoundGate(ds) /\ WritesOf(ds) \subseteq AllWrites  BY WritesShare DEF Guarded
<1>2. {ds.writes[1], ds.writes[2]} \subseteq WritesOf(ds)  BY <1>1, DatasetForm DEF Guarded
<1>3. t \in Tables  BY <1>1, <1>2, WritesShare DEF Behind
<1>4. t \notin TreatedByName
  <2>1. SoundHash(ds) \/ SoundSnapshot(ds)  BY <1>1 DEF SoundGate, Guarded
  <2> QED  BY <2>1 DEF SoundHash, SoundSnapshot, Behind
<1>5. \A e \in Mates : e # ds => \A w \in WritesOf(e) : w.table # t
  BY WritesShare DEF Guarded, Apart, Behind
<1>6. t \notin AsOfTables
  <2> SUFFICES ASSUME NEW e \in Mates, e.gate = "asof", NEW w \in ToSet(e.writes), w.table = t PROVE FALSE
    BY DEF AsOfTables
  <2>1. w \in WritesOf(e)  BY WritesShare, DatasetForm
  <2> QED  BY <1>5, <2>1 DEF Guarded
<1> QED  BY <1>3, <1>4, <1>5, <1>6

\* A sync of another dataset leaves them alone.
LEMMA OthersLeave ==
    ASSUME group \in DOMAIN Groups, NEW ds, Guarded(ds), NEW t \in Behind(ds),
           NEW e \in Mates, e # ds, Sync(e)
    PROVE  Untouched(t)
<1>1. PICK ans, stmts : Synced(e, stmts, ans)  BY SyncSteps
<1>2. t \in Tables /\ \A w \in WritesOf(e) : w.table # t  BY BehindForm
<1>3. \A s \in stmts : s.w.table # t  BY <1>1, <1>2 DEF Synced, FromWrite
<1> QED  BY <1>1, <1>2, <1>3 DEF Synced

\* A purge takes the rows of its symbol, or leaves both tables alone.
LEMMA PurgeBehind ==
    ASSUME group \in DOMAIN Groups, NEW ds, Guarded(ds), Purge,
           "owner" \in ds.writes[1].key, "owner" \in ds.writes[2].key
    PROVE  \/ \A t \in Behind(ds) : rows'[t] = {r \in rows[t] : r.key.owner # Owner}
           \/ \A t \in Behind(ds) : rows'[t] = rows[t]
<1>1. \A t \in Behind(ds) : /\ t \in Tables /\ t # "symbols"
                            /\ \A e \in Mates : e # ds => \A w \in WritesOf(e) : w.table # t
  BY BehindForm DEF TreatedByName
<1>2. \A t \in Behind(ds) : rows'[t] = {r \in rows[t] : t \in Scoped => r.key.owner # Owner}
  BY <1>1 DEF Purge
<1>3. SoundDataset(ds)  BY WritesShare DEF Guarded
<1>4. CASE ds \in SymbolDatasets
  <2>1. {ds.writes[1], ds.writes[2]} \subseteq WritesOf(ds)  BY <1>3, DatasetForm DEF Guarded
  <2>2. \A t \in Behind(ds) : t \in Scoped  BY <1>4, <2>1 DEF Guarded, Scoped, Behind
  <2> QED  BY <1>2, <2>2
<1>5. CASE ds \notin SymbolDatasets
  <2>1. \A t \in Behind(ds) : t \notin Scoped  BY <1>1, <1>5 DEF Scoped
  <2> QED  BY <1>2, <2>1
<1> QED  BY <1>4, <1>5

--------------------------------------------------------------------------------

\* Snapshots and histories begin empty.
LEMMA SnapInit == SyncInit => SnapInv
<1> SUFFICES ASSUME SyncInit, NEW ds \in Mates, ds.gate = "snapshot" PROVE SnapWell(ds)
  BY DEF SyncInit, SnapInv
<1>1. group \in DOMAIN Groups /\ Guarded(ds)  BY DEF SyncInit, Guarded
<1>2. \A t \in Behind(ds) : t \in Tables /\ t # "symbols"  BY <1>1, BehindForm DEF TreatedByName
<1>3. \A t \in Behind(ds) : rows[t] = {}  BY <1>2 DEF SyncInit
<1> QED  BY <1>3 DEF SnapWell, Behind

\* The same tables, some syncs later.
LEMMA SnapKept ==
    ASSUME SnapInv, NEW ds, ds \in Mates, ds.gate = "snapshot", \A t \in Behind(ds) : rows'[t] = rows[t],
           now' \in {now, now + 1}, prunes' = prunes
    PROVE  SnapWell(ds)'
<1>1. SnapWell(ds) /\ now \in Nat  BY DEF SnapInv
<1>2. rows'[ds.writes[1].table] = rows[ds.writes[1].table] /\ rows'[ds.writes[2].table] = rows[ds.writes[2].table]
  BY DEF Behind
<1>3. \A m \in 0..now : m \in 0..now'  BY <1>1
<1>4. \A s, m : EndsAt(ds.writes[2], s, m)' <=> EndsAt(ds.writes[2], s, m)  BY <1>2 DEF EndsAt
<1>5. \A h \in rows'[ds.writes[2].table] : h.key.owner = Owner /\ h.key.day \in 0..now'
  BY <1>1, <1>2, <1>3 DEF SnapWell
<1>6. ASSUME NEW s \in rows'[ds.writes[1].table]
      PROVE  s.key = SnapKey(s.key.part) /\ \E m \in 0..now' : EndsAt(ds.writes[2], s, m)'
  <2>1. s.key = SnapKey(s.key.part)  BY <1>1, <1>2, <1>6 DEF SnapWell
  <2>2. PICK m \in 0..now : EndsAt(ds.writes[2], s, m)  BY <1>1, <1>2, <1>6 DEF SnapWell
  <2> QED  BY <1>3, <1>4, <2>1, <2>2
<1> QED  BY <1>5, <1>6 DEF SnapWell

\* Retention deletes the oldest part of a history, or all of it: what is left still
\* ends at the snapshot.
LEMMA SnapPrune ==
    ASSUME KeysInv, SnapInv, NEW ds, ds \in Mates, ds.gate = "snapshot", Prune
    PROVE  SnapWell(ds)'
<1> DEFINE snap == ds.writes[1]
<1> DEFINE hist == ds.writes[2]
<1>0. /\ group \in DOMAIN Groups /\ Guarded(ds) /\ SnapFacts(ds) /\ SnapWell(ds)
      /\ now \in Nat /\ prunes \in Nat
  BY SnapForm DEF KeysInv, WriterInv, SnapInv, Guarded
<1>p. \E before, since \in Nat : \E past : rows' = RunPrune(rows, before, since, past)
  <2>1. \A x \in IF HistoryTables = {} THEN {0} ELSE 0..(now + 1) : x \in Nat  BY <1>0
  <2> QED  BY <2>1 DEF Prune
<1>q. PICK before, since \in Nat : \E past : rows' = RunPrune(rows, before, since, past)  BY <1>p
<1>1. PICK past : rows' = RunPrune(rows, before, since, past)  BY <1>q
<1>2. prunes' = prunes + 1 /\ now' = now  BY DEF Prune
<1>3. \A t \in Behind(ds) : t \in Tables /\ t \notin TreatedByName /\ t \notin AsOfTables /\ t \notin Screens
  BY <1>0, BehindForm DEF SnapFacts, SoundSnapshot, Behind
<1>4. \A t \in Behind(ds) : rows'[t] = rows[t] \ {r \in rows[t] : t \in HistoryTables /\ r.key.day < since}
  <2> SUFFICES ASSUME NEW t \in Behind(ds)
               PROVE  rows'[t] = rows[t] \ {r \in rows[t] : t \in HistoryTables /\ r.key.day < since}
    OBVIOUS
  <2>1. PruneScreens(FirstPruned(rows), t, before) = {}  BY <1>3, NoScreens
  <2> QED  BY <1>1, <1>3, <2>1, PruneOther
<1>5. snap.table \notin HistoryTables
  <2> SUFFICES ASSUME NEW e \in Mates, e.gate = "snapshot", e.writes[2].table = snap.table PROVE FALSE
    BY DEF HistoryTables
  <2>1. e # ds  BY <1>0 DEF SnapFacts
  <2>2. e.writes[2] \in WritesOf(e)  BY <1>0, SnapForm DEF SnapFacts
  <2> QED  BY <1>0, <2>1, <2>2, BehindForm DEF Behind
<1>6. hist.table \in HistoryTables  BY <1>0 DEF HistoryTables
<1>7. rows'[snap.table] = rows[snap.table]  BY <1>4, <1>5 DEF Behind
<1>8. rows'[hist.table] = {h \in rows[hist.table] : ~(h.key.day < since)}  BY <1>4, <1>6 DEF Behind
<1>9. \A h \in rows[hist.table] : h.key.owner = Owner /\ h.key.day \in 0..now  BY <1>0 DEF SnapWell
<1>10. ASSUME NEW s \in rows'[snap.table]
       PROVE  s.key = SnapKey(s.key.part) /\ \E m \in 0..now' : EndsAt(hist, s, m)'
  <2>1. PICK m \in 0..now : EndsAt(hist, s, m)  BY <1>0, <1>7, <1>10 DEF SnapWell
  <2>2. s.key = SnapKey(s.key.part)  BY <1>0, <1>7, <1>10 DEF SnapWell
  <2>3. \A h \in rows'[hist.table] : h.key.part = s.key.part => h.key.day <= m /\ (h.key.day = m => h.c = s.c)
    BY <1>8, <2>1 DEF EndsAt
  <2>4. \/ \E h \in rows'[hist.table] : h.key.part = s.key.part /\ h.key.day = m
        \/ prunes' # 0 /\ \A h \in rows'[hist.table] : h.key.part # s.key.part
    <3>1. prunes' # 0  BY <1>0, <1>2
    <3>2. CASE m < since
      <4>1. \A h \in rows'[hist.table] : h.key.part # s.key.part  BY <1>8, <1>9, <2>3, <3>2
      <4> QED  BY <3>1, <4>1
    <3>3. CASE ~(m < since)  BY <1>8, <2>1, <3>1, <3>3 DEF EndsAt
    <3> QED  BY <3>2, <3>3
  <2>5. EndsAt(hist, s, m)'  BY <2>3, <2>4 DEF EndsAt
  <2> QED  BY <1>2, <2>2, <2>5
<1> QED  BY <1>2, <1>8, <1>9, <1>10 DEF SnapWell

\* Every step keeps it.
LEMMA SnapNext == KeysInv /\ SnapInv /\ [SyncNext]_syncVars => SnapInv'
<1> SUFFICES ASSUME KeysInv, SnapInv, [SyncNext]_syncVars PROVE SnapInv'  OBVIOUS
<1>0. group \in DOMAIN Groups /\ now \in Nat /\ prunes \in Nat  BY DEF KeysInv, WriterInv, SnapInv
<1>1. group' = group /\ now' \in {now, now + 1} /\ prunes' \in {prunes, prunes + 1}
  BY <1>0, SyncSteps DEF SyncNext, AddSymbol, NextDay, Prune, Purge, syncVars
<1>2. SUFFICES ASSUME NEW ds \in Mates, ds.gate = "snapshot" PROVE SnapWell(ds)'
  BY <1>0, <1>1 DEF SnapInv, Mates
<1>3. Guarded(ds) /\ SnapFacts(ds) /\ SnapWell(ds)  BY <1>0, <1>2, SnapForm DEF Guarded, SnapInv
<1>4. ASSUME Sync(ds) PROVE SnapWell(ds)'  BY <1>2, <1>4, SnapSync
<1>5. ASSUME \A t \in Behind(ds) : rows'[t] = rows[t], prunes' = prunes PROVE SnapWell(ds)'
  BY <1>1, <1>2, <1>5, SnapKept
<1>6. ASSUME NEW e \in Mates, e # ds, Sync(e) PROVE SnapWell(ds)'
  <2>1. \A t \in Behind(ds) : Untouched(t)  BY <1>0, <1>3, <1>6, OthersLeave
  <2>2. prunes' = prunes  BY <1>0, <1>6, SyncSteps
  <2> QED  BY <1>5, <2>1, <2>2 DEF Untouched
<1>7. ASSUME NEW x, AddSymbol(x) PROVE SnapWell(ds)'
  <2>1. \A t \in Behind(ds) : t \in Tables /\ t # "symbols"  BY <1>0, <1>3, BehindForm DEF TreatedByName
  <2>2. \A t \in Behind(ds) : Untouched(t)  BY <1>7, <2>1, AddForm
  <2>3. prunes' = prunes  BY <1>7 DEF AddSymbol
  <2> QED  BY <1>5, <2>2, <2>3 DEF Untouched
<1>8. ASSUME NextDay \/ UNCHANGED syncVars PROVE SnapWell(ds)'  BY <1>5, <1>8 DEF NextDay, syncVars
<1>9. ASSUME Prune PROVE SnapWell(ds)'  BY <1>2, <1>9, SnapPrune
<1>10. ASSUME Purge PROVE SnapWell(ds)'
  <2>1. prunes' = prunes  BY <1>10 DEF Purge
  <2>2. "owner" \in ds.writes[1].key /\ "owner" \in ds.writes[2].key  BY <1>3 DEF SnapFacts, SoundSnapshot
  <2>3. ASSUME \A t \in Behind(ds) : rows'[t] = {r \in rows[t] : r.key.owner # Owner} PROVE SnapWell(ds)'
    <3>1. \A r \in rows[ds.writes[1].table] : r.key.owner = Owner
      <4>1. \A p : SnapKey(p).owner = Owner  BY DEF SnapKey
      <4> QED  BY <1>3, <4>1 DEF SnapWell
    <3>2. \A r \in rows[ds.writes[2].table] : r.key.owner = Owner  BY <1>3 DEF SnapWell
    <3>3. rows'[ds.writes[1].table] = {}  BY <2>3, <3>1 DEF Behind
    <3>4. rows'[ds.writes[2].table] = {}  BY <2>3, <3>2 DEF Behind
    <3> QED  BY <3>3, <3>4 DEF SnapWell
  <2> QED  BY <1>0, <1>3, <1>5, <1>10, <2>1, <2>2, <2>3, PurgeBehind
<1> QED  BY <1>4, <1>6, <1>7, <1>8, <1>9, <1>10 DEF SyncNext

\* Every snapshot is where its history ends, and a history is of the owner and of
\* moments that have been.
THEOREM SyncsKeepHistory == SyncSpec => []SnapInv
<1> QED  BY SnapInit, SnapNext, SyncsKeepKeys, PTL DEF SyncSpec

\* The newest row of a history is the snapshot (datasets/snapshot_base.py): the gate
\* that writes history only on a change never skips one.
THEOREM HistoriesEndAtSnapshots == SyncSpec => []HistoryEndsAtSnapshot
<1>1. KeysInv /\ SnapInv => HistoryEndsAtSnapshot  BY SnapEnds DEF KeysInv, WriterInv
<1> QED  BY <1>1, SyncsKeepKeys, SyncsKeepHistory, PTL

--------------------------------------------------------------------------------
(* A header and its children. *)

\* Keys that agree on some columns, the children of a header, and all they say.
Matches(fields, k, h) == \A f \in fields : k[f] = h[f]
KidsOf(ds, T, h) == {x \in T : Matches(ds.writes[1].key, x.key, h)}
Bodies(S) == UNION {r.c : r \in S}
\* A header's content is what its children say, all together.
HashWell(ds) == \A h \in rows[ds.writes[1].table] : h.c = Bodies(KidsOf(ds, rows[ds.writes[2].table], h.key))
\* What the hash gate keeps.
HashInv == \A ds \in Mates : ds.gate = "hash" => HashWell(ds)

\* What the assumption says of a hash-gated dataset: a header of one row for a part,
\* upserted, and children replaced by the header's key.
HashFacts(ds) ==
    LET head == ds.writes[1]  child == ds.writes[2]
    IN  /\ head \in WriteShape /\ child \in WriteShape /\ SoundWrite(head) /\ SoundWrite(child)
        /\ head \in WritesOf(ds) /\ child \in WritesOf(ds)
        /\ head.shape = "one" /\ head.mode = "upsert"
        /\ child.shape = "list" /\ child.mode = "replace" /\ child.scope = head.key
        /\ head.parts \subseteq child.parts
        /\ head.table # child.table /\ {head.table, child.table} \subseteq Tables
        /\ SoundHash(ds)

\* It says so of every hash-gated dataset.
LEMMA HashFact ==
    ASSUME group \in DOMAIN Groups, NEW ds \in Mates, ds.gate = "hash"
    PROVE  HashFacts(ds) /\ Guarded(ds) /\ [ds.writes[2] EXCEPT !.scope = ds.writes[1].key] = ds.writes[2]
<1>1. SoundDataset(ds) /\ SoundGate(ds) /\ WritesOf(ds) \subseteq AllWrites  BY WritesShare
<1>2. SoundHash(ds)  BY <1>1 DEF SoundGate
<1>3. {ds.writes[1], ds.writes[2]} \subseteq WritesOf(ds)  BY <1>1, DatasetForm
<1>4. \A w \in WritesOf(ds) : w.table \in Tables  BY <1>1, WritesShare
<1>5. HashFacts(ds)  BY <1>1, <1>2, <1>3, <1>4, DatasetForm DEF HashFacts
<1>6. [ds.writes[2] EXCEPT !.scope = ds.writes[1].key] = ds.writes[2]
  <2>1. \A w \in WriteShape : [w EXCEPT !.scope = w.scope] = w  BY DEF WriteShape
  <2>2. [ds.writes[2] EXCEPT !.scope = ds.writes[2].scope] = ds.writes[2]  BY <1>5, <2>1 DEF HashFacts
  <2> QED  BY <1>5, <2>2 DEF HashFacts
<1> QED  BY <1>5, <1>6 DEF Guarded

\* The invariant gives the property.
LEMMA HeadersTell ==
    ASSUME HashInv, group \in DOMAIN Groups
    PROVE  HeaderTellsChildren
<1> SUFFICES ASSUME NEW ds \in Mates, ds.gate = "hash", NEW h \in rows[ds.writes[1].table]
             PROVE  LET head == ds.writes[1]  child == [ds.writes[2] EXCEPT !.scope = head.key]
                    IN  h.c = UNION {r.c : r \in {x \in rows[child.table] : InScope(x.key, child, {h.key})}}
  BY DEF HeaderTellsChildren
<1> DEFINE head == ds.writes[1]
<1> DEFINE child == ds.writes[2]
<1>1. [child EXCEPT !.scope = head.key] = child /\ child.scope = head.key  BY HashFact DEF HashFacts
<1>2. \A x : InScope(x.key, child, {h.key}) <=> Matches(head.key, x.key, h.key)  BY <1>1 DEF InScope, Matches
<1>3. {x \in rows[child.table] : InScope(x.key, child, {h.key})} = KidsOf(ds, rows[child.table], h.key)
  BY <1>2 DEF KidsOf
<1>4. h.c = Bodies(KidsOf(ds, rows[child.table], h.key))  BY DEF HashInv, HashWell
<1> QED  BY <1>1, <1>3, <1>4, ZenonT(60) DEF Bodies

\* A new header has what its children in the answer have.
LEMMA HashAnswer ==
    ASSUME NEW ds \in Mates, HashFacts(ds), NEW ans, IsAnswer(ans),
           NEW n \in RowsFrom(ds.writes[1], ds.writes[2], ans, day)
    PROVE  n.c = Bodies(KidsOf(ds, RowsOf(ds.writes[2], ans, day), n.key))
<1> DEFINE head == ds.writes[1]
<1> DEFINE child == ds.writes[2]
<1> DEFINE ps == IF "part" \in head.key THEN head.parts \cap Spoken(head, ans) ELSE {"-"}
<1> DEFINE Child(c) == RowAt(child, Key(child, Owner, day, c.part, c.item), {<<c.item, c.val>>})
<1>1. /\ head \in WriteShape /\ child \in WriteShape /\ head.shape = "one" /\ child.shape = "list"
      /\ "owner" \in head.key /\ "item" \notin head.key /\ head.key \subseteq child.key
      /\ head.key \subseteq Fields /\ "c" \in head.insert /\ "c" \in child.insert
  BY DEF HashFacts, SoundHash, WriteShape
<1> HIDE DEF head, child
<1>2. PICK p \in ps : n = RowAt(head, Key(head, Owner, day, p, "-"), AboutPart(head, child, ans, p))
  BY <1>1, OneRow DEF head, child
<1>3. n.c = AboutPart(head, child, ans, p)  BY <1>1, <1>2 DEF RowAt
<1>4. n.key = Key(head, Owner, day, p, "-")  BY <1>2, RowAtRow, KeyForm
<1>5. \A r : r \in RowsOf(child, ans, day) <=> \E c \in CellsOf(child, ans) : r = Child(c)
  <2>1. \A r : r \in RowsOf(child, ans, day) <=> RowForm(child, child, ans, day, r)  BY <1>1, RowForms DEF RowsOf
  <2> QED  BY <1>1, <2>1 DEF RowForm
<1>6. ASSUME NEW c \in CellsOf(child, ans)
      PROVE  /\ Child(c).c = {<<c.item, c.val>>}
             /\ Matches(head.key, Child(c).key, n.key) <=> ("part" \in head.key => c.part = p)
  <2>1. Child(c).key = Key(child, Owner, day, c.part, c.item)  BY RowAtRow, KeyForm
  <2>2. Child(c).c = {<<c.item, c.val>>}  BY <1>1 DEF RowAt
  <2> HIDE DEF Child
  <2>3. n.key.owner = Owner /\ Child(c).key.owner = Owner  BY <1>1, <1>4, <2>1, KeyForm
  <2>4. "day" \in head.key => n.key.day = day /\ Child(c).key.day = day  BY <1>1, <1>4, <2>1, KeyForm
  <2>5. "part" \in head.key => n.key.part = p /\ Child(c).key.part = c.part  BY <1>1, <1>4, <2>1, KeyForm
  <2>6. \A f \in head.key : f \in {"owner", "day", "part"}  BY <1>1 DEF Fields
  <2>7. \A k : k["owner"] = k.owner /\ k["day"] = k.day /\ k["part"] = k.part  OBVIOUS
  <2> QED  BY <2>2, <2>3, <2>4, <2>5, <2>6, <2>7 DEF Matches
<1> HIDE DEF Child, ps
<1>7. KidsOf(ds, RowsOf(child, ans, day), n.key)
        = {Child(c) : c \in {x \in CellsOf(child, ans) : "part" \in head.key => x.part = p}}
  BY <1>5, <1>6 DEF KidsOf, head
<1>8. Bodies({Child(c) : c \in {x \in CellsOf(child, ans) : "part" \in head.key => x.part = p}})
        = AboutPart(head, child, ans, p)
  <2>1. Bodies({Child(c) : c \in {x \in CellsOf(child, ans) : "part" \in head.key => x.part = p}})
          = UNION {{<<c.item, c.val>>} : c \in {x \in CellsOf(child, ans) : "part" \in head.key => x.part = p}}
    BY <1>6 DEF Bodies
  <2> QED  BY <2>1 DEF AboutPart
<1> QED  BY <1>3, <1>7, <1>8 DEF head, child

\* Two keys of one write that agree on its key are one.
LEMMA KeyedSame ==
    ASSUME NEW w \in WriteShape, NEW k, NEW h, Keyed(w, k), Keyed(w, h), Matches(w.key, k, h)
    PROVE  k = h
<1>1. k.owner = h.owner  BY DEF Keyed, Matches
<1>2. k.day = h.day  BY DEF Keyed, Matches
<1>3. k.part = h.part  BY DEF Keyed, Matches
<1>4. k.item = h.item  BY DEF Keyed, Matches
<1> QED  BY <1>1, <1>2, <1>3, <1>4 DEF Keyed, IsKey

\* The two tables after the sync of their dataset.
LEMMA HashTables ==
    ASSUME KeysInv, NEW ds \in Mates, ds.gate = "hash", NEW ans, ans \in Answers(ds), NEW full, NEW open,
           Synced(ds, StmtsOf(ds, ans, full, open), ans)
    PROVE  \E s, u : /\ SoundStmt(s) /\ SoundStmt(u) /\ s.w = ds.writes[1] /\ u.w = ds.writes[2]
                     /\ rows'[s.w.table] = CollectedWrite(rows[s.w.table], s)
                     /\ rows'[u.w.table] = CollectedWrite(rows[u.w.table], u)
                     /\ s.rows \subseteq RowsFrom(s.w, u.w, ans, day)
                     /\ u.scopes = Keys(s.rows) /\ u.touched = {}
                     /\ u.rows = {r \in RowsOf(u.w, ans, day) : InScope(r.key, u.w, Keys(s.rows))}
                     /\ FromWrite(ds, ans, s)
<1> DEFINE head == ds.writes[1]
<1> DEFINE child == ds.writes[2]
<1> DEFINE new == RowsFrom(head, child, ans, day)
<1> DEFINE moved == FreshRows(head, new, full)
<1> DEFINE kids == {r \in RowsOf(child, ans, day) : InScope(r.key, child, Keys(moved))}
<1> DEFINE s == Stmt(head, moved, {}, new \ moved)
<1> DEFINE u == Stmt(child, kids, Keys(moved), {})
<1>0. HashFacts(ds)  BY HashFact DEF KeysInv, WriterInv
<1>1. [child EXCEPT !.mode = "replace", !.scope = head.key] = child
  <2>1. \A w \in WriteShape : [w EXCEPT !.mode = w.mode, !.scope = w.scope] = w  BY DEF WriteShape
  <2>2. [child EXCEPT !.mode = child.mode, !.scope = child.scope] = child  BY <1>0, <2>1 DEF HashFacts
  <2> QED  BY <1>0, <2>2 DEF HashFacts
<1>2. StmtsOf(ds, ans, full, open) = {s, u} \cup Stmts(ToSet(ds.free), ans)  BY <1>1 DEF HashStmts, StmtsOf
<1>3. s.w = head /\ s.rows = moved /\ u.w = child /\ u.rows = kids /\ u.scopes = Keys(moved) /\ u.touched = {}
  BY DEF Stmt
<1>4. moved \subseteq new  BY DEF FreshRows
<1> HIDE DEF s, u, moved
<1>5. {s, u} \subseteq StmtsOf(ds, ans, full, open)  BY <1>2
<1>6. /\ SoundStmt(s) /\ FromWrite(ds, ans, s) /\ WriterStep(s.w.table, s)
      /\ SoundStmt(u) /\ WriterStep(u.w.table, u)
  BY <1>5 DEF Synced
<1> QED  BY <1>3, <1>4, <1>6 DEF WriterStep

\* A sync of the dataset keeps it: a header that has not moved has the children it had.
LEMMA HashSync ==
    ASSUME KeysInv, HashInv, NEW ds \in Mates, ds.gate = "hash", Sync(ds)
    PROVE  HashWell(ds)'
<1>0. group \in DOMAIN Groups /\ HashFacts(ds) /\ HashWell(ds)  BY HashFact DEF KeysInv, WriterInv, HashInv
<1> DEFINE head == ds.writes[1]
<1> DEFINE child == ds.writes[2]
<1>1. PICK ans, full : ans \in Answers(ds) /\ Synced(ds, SyncOf(ds, ans, full).stmts, ans)  BY <1>0, SyncSteps
<1>2. PICK open : SyncOf(ds, ans, full).stmts = StmtsOf(ds, ans, full, open)  BY DEF SyncOf
<1>3. PICK s, u : /\ SoundStmt(s) /\ SoundStmt(u) /\ s.w = head /\ u.w = child
                  /\ rows'[s.w.table] = CollectedWrite(rows[s.w.table], s)
                  /\ rows'[u.w.table] = CollectedWrite(rows[u.w.table], u)
                  /\ s.rows \subseteq RowsFrom(s.w, u.w, ans, day)
                  /\ u.scopes = Keys(s.rows) /\ u.touched = {}
                  /\ u.rows = {r \in RowsOf(u.w, ans, day) : InScope(r.key, u.w, Keys(s.rows))}
                  /\ FromWrite(ds, ans, s)
  BY <1>1, <1>2, HashTables
<1>4. IsAnswer(ans)  BY <1>1, AnswerForm
<1>5. /\ head \in WriteShape /\ child \in WriteShape /\ child.scope = head.key /\ child.mode = "replace"
      /\ head.mode = "upsert" /\ "c" \in head.update /\ head.table \in Tables /\ child.table \in Tables
      /\ head \in AllWrites
  BY <1>0, WritesShare DEF HashFacts, SoundHash
<1>6. IsTable(rows[head.table]) /\ IsTable(rows[child.table])  BY <1>5 DEF KeysInv, WriterInv, StoredWell
<1>7. \A o \in rows[head.table] : Keyed(head, o.key)  BY <1>5 DEF KeysInv, KeysWell
<1>8. \A n \in s.rows \cup s.touched : Keyed(head, n.key)  BY <1>3 DEF FromWrite, Heeds
<1>9. \A n \in s.rows : n.c = Bodies(KidsOf(ds, RowsOf(child, ans, day), n.key))
  BY <1>0, <1>3, <1>4, HashAnswer
<1> HIDE DEF head, child
<1>10. \A k : InScope(k, child, Keys(s.rows)) <=> \E n \in s.rows : Matches(head.key, k, n.key)
  BY <1>5 DEF InScope, Matches, Keys
\* The children, of a header that was written and of another.
<1>11. \A x \in rows'[child.table] :
          \/ x \in rows[child.table] /\ ~InScope(x.key, child, Keys(s.rows))
          \/ \E r \in u.rows : x.key = r.key /\ x.c = r.c
  <2> SUFFICES ASSUME NEW x \in CollectedWrite(rows[child.table], u)
               PROVE  \/ x \in rows[child.table] /\ ~InScope(x.key, child, Keys(s.rows))
                      \/ \E r \in u.rows : x.key = r.key /\ x.c = r.c
    BY <1>3
  <2>1. "c" \in Effective(u.w)  BY <1>3, <1>5 DEF Effective
  <2>2. Says(rows[child.table], u, x)  BY <1>3, <1>6, WrittenAs
  <2>3. u.rows \cup u.touched = u.rows  BY <1>3
  <2>4. x \in rows[child.table] /\ x \notin Removed(rows[child.table], u) /\ x.key \notin Keys(u.rows)
          => ~InScope(x.key, child, Keys(s.rows))
    BY <1>3, <1>5 DEF Removed, Replaced
  <2> QED  BY <1>3, <2>1, <2>2, <2>3, <2>4 DEF Says
<1>12. \A x \in rows[child.table] : ~InScope(x.key, child, Keys(s.rows)) => x \in rows'[child.table]
  <2> SUFFICES ASSUME NEW x \in rows[child.table], ~InScope(x.key, child, Keys(s.rows))
               PROVE  Arises(rows[child.table], u, x)
    BY <1>3, Written
  <2>1. x.key \notin Keys(u.rows \cup u.touched)  BY <1>3 DEF Keys
  <2>2. x \notin Removed(rows[child.table], u)  BY <1>3 DEF Removed, Replaced
  <2> QED  BY <2>1, <2>2 DEF Arises
<1>13. \A r \in u.rows : \E x \in rows'[child.table] : x.key = r.key /\ x.c = r.c
  <2> SUFFICES ASSUME NEW r \in u.rows PROVE \E x \in rows'[child.table] : x.key = r.key /\ x.c = r.c
    OBVIOUS
  <2>1. r.key \in Keys(rows'[child.table])
    <3>1. Keys(u.rows) \subseteq Keys(rows'[child.table])  BY <1>3, <1>6, WriteKeys
    <3> QED  BY <3>1 DEF Keys
  <2>2. PICK x \in rows'[child.table] : x.key = r.key  BY <2>1 DEF Keys
  <2>3. InScope(x.key, child, Keys(s.rows))  BY <1>3, <2>2
  <2>4. PICK n \in u.rows : x.key = n.key /\ x.c = n.c  BY <1>11, <2>3
  <2>5. n = r  BY <1>3, <2>2, <2>4 DEF SoundStmt, IsTable
  <2> QED  BY <2>2, <2>4, <2>5
<1>14. ASSUME NEW n \in s.rows
       PROVE  Bodies(KidsOf(ds, rows'[child.table], n.key)) = n.c
  <2>1. \A x \in KidsOf(ds, rows'[child.table], n.key) :
           \E r \in KidsOf(ds, RowsOf(child, ans, day), n.key) : r.c = x.c
    <3> SUFFICES ASSUME NEW x \in rows'[child.table], Matches(head.key, x.key, n.key)
                 PROVE  \E r \in RowsOf(child, ans, day) : Matches(head.key, r.key, n.key) /\ r.c = x.c
      BY DEF KidsOf, head
    <3>1. InScope(x.key, child, Keys(s.rows))  BY <1>10, <1>14
    <3> QED  BY <1>3, <1>11, <3>1
  <2>2. \A r \in KidsOf(ds, RowsOf(child, ans, day), n.key) :
           \E x \in KidsOf(ds, rows'[child.table], n.key) : x.c = r.c
    <3> SUFFICES ASSUME NEW r \in RowsOf(child, ans, day), Matches(head.key, r.key, n.key)
                 PROVE  \E x \in rows'[child.table] : Matches(head.key, x.key, n.key) /\ x.c = r.c
      BY DEF KidsOf, head
    <3>1. r \in u.rows  BY <1>3, <1>10, <1>14
    <3> QED  BY <1>13, <3>1
  <2>3. Bodies(KidsOf(ds, rows'[child.table], n.key)) = Bodies(KidsOf(ds, RowsOf(child, ans, day), n.key))
    BY <2>1, <2>2 DEF Bodies
  <2> QED  BY <1>9, <2>3
<1>15. ASSUME NEW o \in rows[head.table], o.key \notin Keys(s.rows)
       PROVE  KidsOf(ds, rows'[child.table], o.key) = KidsOf(ds, rows[child.table], o.key)
  <2>1. ASSUME NEW x, Matches(head.key, x.key, o.key) PROVE ~InScope(x.key, child, Keys(s.rows))
    <3> SUFFICES ASSUME NEW n \in s.rows, Matches(head.key, x.key, n.key) PROVE FALSE  BY <1>10
    <3>1. Matches(head.key, o.key, n.key)  BY <2>1 DEF Matches
    <3>2. o.key = n.key  BY <1>5, <1>7, <1>8, <3>1, KeyedSame
    <3> QED  BY <1>15, <3>2 DEF Keys
  <2>2. \A r \in u.rows : InScope(r.key, child, Keys(s.rows))  BY <1>3
  <2>3. \A x : Matches(head.key, x.key, o.key) => (x \in rows'[child.table] <=> x \in rows[child.table])
    BY <1>11, <1>12, <2>1, <2>2
  <2> QED  BY <2>3 DEF KidsOf, head
<1>16. \A h \in rows'[head.table] :
          \/ \E n \in s.rows : h.key = n.key /\ h.c = n.c
          \/ \E o \in rows[head.table] : o.key \notin Keys(s.rows) /\ h.key = o.key /\ h.c = o.c
  <2> SUFFICES ASSUME NEW h \in CollectedWrite(rows[head.table], s)
               PROVE  \/ \E n \in s.rows : h.key = n.key /\ h.c = n.c
                      \/ \E o \in rows[head.table] : o.key \notin Keys(s.rows) /\ h.key = o.key /\ h.c = o.c
    BY <1>3
  <2>1. "c" \in Effective(s.w)  BY <1>3, <1>5 DEF Effective
  <2>2. Says(rows[head.table], s, h)  BY <1>3, <1>6, WrittenAs
  <2>3. h.key \notin Keys(s.rows \cup s.touched) => h.key \notin Keys(s.rows)  BY DEF Keys
  <2>4. \A n \in s.touched : n.key \notin Keys(s.rows)  BY <1>3 DEF SoundStmt, Keys
  <2> QED  BY <2>1, <2>2, <2>3, <2>4 DEF Says
<1>17. ASSUME NEW h \in rows'[head.table] PROVE h.c = Bodies(KidsOf(ds, rows'[child.table], h.key))
  <2>1. ASSUME NEW o \in rows[head.table], o.key \notin Keys(s.rows), h.key = o.key, h.c = o.c
        PROVE  h.c = Bodies(KidsOf(ds, rows'[child.table], h.key))
    <3>1. o.c = Bodies(KidsOf(ds, rows[child.table], o.key))  BY <1>0 DEF HashWell, head, child
    <3> QED  BY <1>15, <2>1, <3>1
  <2>2. ASSUME NEW n \in s.rows, h.key = n.key, h.c = n.c
        PROVE  h.c = Bodies(KidsOf(ds, rows'[child.table], h.key))
    BY <1>14, <2>2
  <2> QED  BY <1>16, <2>1, <2>2
<1> QED  BY <1>17 DEF HashWell, head, child

\* Headers and children begin empty.
LEMMA HashInit == SyncInit => HashInv
<1> SUFFICES ASSUME SyncInit, NEW ds \in Mates, ds.gate = "hash" PROVE HashWell(ds)
  BY DEF HashInv
<1>1. group \in DOMAIN Groups /\ Guarded(ds)  BY DEF SyncInit, Guarded
<1>2. \A t \in Behind(ds) : t \in Tables /\ t # "symbols"  BY <1>1, BehindForm DEF TreatedByName
<1>3. \A t \in Behind(ds) : rows[t] = {}  BY <1>2 DEF SyncInit
<1> QED  BY <1>3 DEF HashWell, Behind

\* Where headers and children go together, what is left still agrees.
LEMMA HashLeft ==
    ASSUME NEW ds, HashWell(ds), rows'[ds.writes[1].table] \subseteq rows[ds.writes[1].table],
           rows'[ds.writes[2].table] \subseteq rows[ds.writes[2].table],
           \A h \in rows'[ds.writes[1].table], x \in rows[ds.writes[2].table] :
              Matches(ds.writes[1].key, x.key, h.key) => x \in rows'[ds.writes[2].table]
    PROVE  HashWell(ds)'
<1> SUFFICES ASSUME NEW h \in rows'[ds.writes[1].table]
             PROVE  h.c = Bodies(KidsOf(ds, rows'[ds.writes[2].table], h.key))
  BY DEF HashWell
<1>1. KidsOf(ds, rows'[ds.writes[2].table], h.key) = KidsOf(ds, rows[ds.writes[2].table], h.key)  BY DEF KidsOf
<1>2. h.c = Bodies(KidsOf(ds, rows[ds.writes[2].table], h.key))  BY DEF HashWell
<1> QED  BY <1>1, <1>2

\* Retention has no rule for headers or children.
LEMMA HashPrune ==
    ASSUME KeysInv, HashInv, NEW ds, ds \in Mates, ds.gate = "hash", Prune
    PROVE  HashWell(ds)'
<1> DEFINE head == ds.writes[1]
<1> DEFINE child == ds.writes[2]
<1>0. group \in DOMAIN Groups /\ Guarded(ds) /\ HashFacts(ds) /\ HashWell(ds)
  BY HashFact DEF KeysInv, WriterInv, HashInv
<1>1. PICK before, since, past : rows' = RunPrune(rows, before, since, past)  BY DEF Prune
<1> DEFINE first == FirstPruned(rows)
<1>2. \A t \in Behind(ds) : t \in Tables /\ t \notin TreatedByName /\ t \notin AsOfTables  BY <1>0, BehindForm
<1>3. \A t \in Behind(ds) : t \notin HistoryTables
  <2> SUFFICES ASSUME NEW e \in Mates, e.gate = "snapshot", e.writes[2].table \in Behind(ds) PROVE FALSE
    BY DEF HistoryTables
  <2>1. e # ds /\ e.writes[2] \in WritesOf(e)  BY <1>0, SnapForm DEF SnapFacts
  <2> QED  BY <1>0, <2>1, BehindForm
<1>4. \A t \in Behind(ds) :
         rows'[t] = rows[t] \ (IF "screen_runs" \in Tables THEN PruneScreens(first, t, before) ELSE {})
  BY <1>1, <1>2, <1>3, PruneOther
<1>5. \A t \in Behind(ds) : rows'[t] \subseteq rows[t]  BY <1>4
<1>6. CASE Behind(ds) \cap Screens = {}
  <2>1. \A t \in Behind(ds) : PruneScreens(first, t, before) = {}  BY <1>2, <1>6, NoScreens
  <2>2. \A t \in Behind(ds) : rows'[t] = rows[t]  BY <1>4, <2>1
  <2> QED  BY <1>0, <1>5, <2>2, HashLeft DEF Behind
<1>7. CASE Behind(ds) \cap Screens # {}
  <2>1. head.table = "screen_runs" /\ child.table = "screen_members" /\ "day" \in head.key
    BY <1>0, <1>7 DEF HashFacts, SoundHash, Behind
  <2>2. {"screen_runs", "screen_members"} \subseteq Tables  BY <1>2, <2>1 DEF Behind
  <2>3. first["screen_runs"] = rows["screen_runs"] /\ first["screen_members"] = rows["screen_members"]
    BY <2>2 DEF FirstPruned
  <2> DEFINE newest == Max({0} \cup Days(first["screen_runs"]))
  <2> DEFINE members == {r \in first["screen_members"] : r.key.day < before /\ r.key.day # newest}
  <2>4. PruneScreens(first, "screen_members", before) = members
    BY DEF PruneScreens
  <2>5. PruneScreens(first, "screen_runs", before)
          = {r \in first["screen_runs"] : members # {} /\ r.key.day < before /\ r.key.day # newest}
    BY DEF PruneScreens
  <2> HIDE DEF first, newest
  <2>6. rows'["screen_members"] = rows["screen_members"] \ members
    BY <1>4, <2>1, <2>2, <2>4 DEF Behind
  <2>7. rows'["screen_runs"] = rows["screen_runs"]
           \ {r \in rows["screen_runs"] : members # {} /\ r.key.day < before /\ r.key.day # newest}
    BY <1>4, <2>1, <2>2, <2>3, <2>5 DEF Behind
  <2>8. ASSUME NEW h \in rows'["screen_runs"], NEW x \in rows["screen_members"], Matches(head.key, x.key, h.key)
        PROVE  x \in rows'["screen_members"]
    <3>1. x.key.day = h.key.day  BY <2>1, <2>8 DEF Matches
    <3>2. x \in members => members # {} /\ x.key.day < before /\ x.key.day # newest  OBVIOUS
    <3> QED  BY <2>6, <2>7, <2>8, <3>1, <3>2
  <2> QED  BY <1>0, <1>5, <2>1, <2>8, HashLeft DEF Behind
<1> QED  BY <1>6, <1>7

\* Every step keeps it.
LEMMA HashNext == KeysInv /\ HashInv /\ [SyncNext]_syncVars => HashInv'
<1> SUFFICES ASSUME KeysInv, HashInv, [SyncNext]_syncVars PROVE HashInv'  OBVIOUS
<1>0. group \in DOMAIN Groups  BY DEF KeysInv, WriterInv
<1>1. group' = group  BY <1>0, SyncSteps DEF SyncNext, AddSymbol, NextDay, Prune, Purge, syncVars
<1>2. SUFFICES ASSUME NEW ds \in Mates, ds.gate = "hash" PROVE HashWell(ds)'
  BY <1>1 DEF HashInv, Mates
<1>3. Guarded(ds) /\ HashFacts(ds) /\ HashWell(ds)  BY <1>0, <1>2, HashFact DEF HashInv
<1>4. ASSUME Sync(ds) PROVE HashWell(ds)'  BY <1>2, <1>4, HashSync
<1>5. ASSUME \A t \in Behind(ds) : rows'[t] = rows[t] PROVE HashWell(ds)'
  BY <1>3, <1>5 DEF HashWell, Behind
<1>6. ASSUME NEW e \in Mates, e # ds, Sync(e) PROVE HashWell(ds)'
  <2>1. \A t \in Behind(ds) : Untouched(t)  BY <1>0, <1>3, <1>6, OthersLeave
  <2> QED  BY <1>5, <2>1 DEF Untouched
<1>7. ASSUME NEW x, AddSymbol(x) PROVE HashWell(ds)'
  <2>1. \A t \in Behind(ds) : t \in Tables /\ t # "symbols"  BY <1>0, <1>3, BehindForm DEF TreatedByName
  <2>2. \A t \in Behind(ds) : Untouched(t)  BY <1>7, <2>1, AddForm
  <2> QED  BY <1>5, <2>2 DEF Untouched
<1>8. ASSUME NextDay \/ UNCHANGED syncVars PROVE HashWell(ds)'  BY <1>5, <1>8 DEF NextDay, syncVars
<1>9. ASSUME Prune PROVE HashWell(ds)'  BY <1>2, <1>9, HashPrune
<1>10. ASSUME Purge PROVE HashWell(ds)'
  <2>1. "owner" \in ds.writes[1].key /\ "owner" \in ds.writes[2].key  BY <1>3 DEF HashFacts, SoundHash
  <2>2. ASSUME \A t \in Behind(ds) : rows'[t] = {r \in rows[t] : r.key.owner # Owner} PROVE HashWell(ds)'
    <3>1. /\ rows'[ds.writes[1].table] = {r \in rows[ds.writes[1].table] : r.key.owner # Owner}
          /\ rows'[ds.writes[2].table] = {r \in rows[ds.writes[2].table] : r.key.owner # Owner}
      BY <2>2 DEF Behind
    <3>2. \A x, h : Matches(ds.writes[1].key, x.key, h.key) => x.key.owner = h.key.owner  BY <2>1 DEF Matches
    <3> QED  BY <1>3, <3>1, <3>2, HashLeft
  <2> QED  BY <1>0, <1>3, <1>5, <1>10, <2>1, <2>2, PurgeBehind
<1> QED  BY <1>4, <1>6, <1>7, <1>8, <1>9, <1>10 DEF SyncNext

\* The content of every header is that of its children.
THEOREM SyncsKeepHeaders == SyncSpec => []HashInv
<1> QED  BY HashInit, HashNext, SyncsKeepKeys, PTL DEF SyncSpec

\* Skipping the children of a header whose hash has not moved
\* (datasets/hash_gated.py) never leaves children that differ from the answer the
\* header was made of.
THEOREM HeadersTellTheirChildren == SyncSpec => []HeaderTellsChildren
<1>1. KeysInv /\ HashInv => HeaderTellsChildren  BY HeadersTell DEF KeysInv, WriterInv
<1> QED  BY <1>1, SyncsKeepKeys, SyncsKeepHeaders, PTL

--------------------------------------------------------------------------------
(* What is stored behind an as-of gate. *)

\* A row has nothing in the columns its write does not fill.
Bare(w, r) == ("c" \notin w.insert => r.c = {}) /\ ("d" \notin w.insert => r.d = {}) /\ ("e" \notin w.insert => r.e = {})
\* A row a dated write made: the owner's, of a part, with no columns but the write's.
OwnRow(w, x) ==
    /\ "owner" \in w.key => x.key.owner = Owner
    /\ "part" \in w.key => x.key.part \in Parts
    /\ Bare(w, x)

\* The rows of a day in a table, of the parts that were read.
DatedIn(T, w, d, read) ==
    {x \in T : /\ x.key.day = d /\ x.key.part \in w.parts \cup {"-"}
               /\ w.given = "read" => x.key.part \in read}

\* What an answer's digest has for the table of a write.
Told(R, w) == UNION {x[2] : x \in {y \in R : y[1] = w.table}}
\* Whether a write puts its answer in the place of the day's rows.
Whole(w, answer) == w.mode = "replace" /\ (w.given # "rows" \/ answer # {})
\* The latest rows of a table say what the gate's last answer said.
Holds(w, g) ==
    LET stored == Dateless(Latest(w, g))  answer == Told(told[g].rows, w)
    IN  answer \subseteq stored /\ (Whole(w, answer) => stored \subseteq answer)

\* Every row of a dated table is one a dated write made.
DatedWell(ds) == \A w \in Dated(ds) : \A x \in rows[w.table] : OwnRow(w, x)
\* A gate has the digest of its last answer, and the tables hold that answer.
GateAt(ds, p) ==
    LET g == <<ds.name, p>>
    IN  /\ gates[g].hash = told[g].rows
        /\ told[g].rows # {} => /\ IF ds.regional THEN p \in Parts /\ told[g].read = {p} ELSE p = "*"
                                /\ \A w \in Dated(ds) : Holds(w, g)

\* All gates of a dataset.
GateWell(ds) == \A p \in Parts \cup {"*"} : GateAt(ds, p)
\* What the gates by day keep.
AsOfInv ==
    /\ DOMAIN gates = GateKeys /\ DOMAIN told = GateKeys
    /\ \A ds \in Mates : ds.gate = "asof" => DatedWell(ds) /\ GateWell(ds)

\* The invariant gives LatestIsAnswer.
LEMMA AsOfTells ==
    ASSUME AsOfInv
    PROVE  LatestIsAnswer
<1> SUFFICES ASSUME NEW ds \in Mates, ds.gate = "asof", NEW g \in DOMAIN gates, g[1] = ds.name,
                    NEW w \in Dated(ds), told[g].rows # {}
             PROVE  LET stored == Dateless(Latest(w, g))
                        answer == UNION {x[2] : x \in {y \in told[g].rows : y[1] = w.table}}
                    IN  IF w.mode = "replace" /\ (w.given # "rows" \/ answer # {})
                        THEN stored = answer ELSE answer \subseteq stored
  BY DEF LatestIsAnswer, Dated
<1>1. PICK p \in Parts \cup {"*"} : g = <<ds.name, p>>  BY DEF AsOfInv, GateKeys
<1>2. Holds(w, g)  BY <1>1 DEF AsOfInv, GateWell, GateAt
<1> DEFINE stored == Dateless(Latest(w, g))
<1> DEFINE answer == Told(told[g].rows, w)
<1>3. answer \subseteq stored /\ (Whole(w, answer) => stored \subseteq answer)  BY <1>2 DEF Holds
<1>4. UNION {x[2] : x \in {y \in told[g].rows : y[1] = w.table}} = answer  BY DEF Told
<1> HIDE DEF stored, answer
<1>5. IF w.mode = "replace" /\ (w.given # "rows" \/ answer # {}) THEN stored = answer ELSE answer \subseteq stored
  BY <1>3 DEF Whole
<1> QED  BY <1>4, <1>5 DEF stored

\* What the assumption says of a write by day.
DatedFacts(ds, w) ==
    /\ w \in WriteShape /\ SoundWrite(w) /\ w \in WritesOf(ds) /\ w \in ToSet(ds.writes) /\ w \in AllWrites
    /\ w.table \in Tables /\ w.table \notin TreatedByName \cup Screens
    /\ "day" \in w.key /\ w.shape \in {"one", "list"} /\ w.insert = w.update /\ w.parts # {} /\ w.parts \subseteq Parts
    /\ w.mode = "replace" /\ w.given = "rows" => w.scope \subseteq {"owner", "day"}
    /\ w.given = "read" => /\ w.shape = "list" /\ "part" \in w.key
                           /\ w.mode = "replace" => "part" \in w.scope
    /\ ds.regional => w.given = "read"
    /\ \A v \in WritesOf(ds) : v.table = w.table => v = w
    /\ w \notin ToSet(ds.free)

\* It says so of every write by day of a dataset with such a gate.
LEMMA DatedForm ==
    ASSUME group \in DOMAIN Groups, NEW ds \in Mates, ds.gate = "asof", NEW w \in Dated(ds)
    PROVE  DatedFacts(ds, w)
<1>1. SoundDataset(ds) /\ SoundGate(ds) /\ WritesOf(ds) \subseteq AllWrites  BY WritesShare
<1>2. SoundAsOf(ds)  BY <1>1 DEF SoundGate
<1>3. w \in ToSet(ds.writes) /\ "day" \in w.key  BY DEF Dated
<1>4. w \in WritesOf(ds) /\ w \in WriteShape /\ SoundWrite(w)  BY <1>1, <1>3, DatasetForm
<1>5. w \notin ToSet(ds.free) /\ \A v \in WritesOf(ds) : v.table = w.table => v = w  BY <1>1, <1>3, <1>4, DatasetForm
<1>6. w.table \in Tables  BY <1>1, <1>4, WritesShare
<1>7. w.parts \subseteq Parts  BY <1>4 DEF WriteShape
<1> QED  BY <1>1, <1>2, <1>3, <1>4, <1>5, <1>6, <1>7 DEF DatedFacts, SoundAsOf

\* Who else writes a dated table: the same columns, of other parts.
LEMMA SharedWrite ==
    ASSUME group \in DOMAIN Groups, NEW ds \in Mates, ds.gate = "asof", NEW w \in Dated(ds),
           NEW e \in Mates, NEW v \in WritesOf(e), v.table = w.table
    PROVE  /\ v.key = w.key /\ v.insert = w.insert /\ v.shape \in {"one", "list"} /\ v.parts \subseteq Parts
           /\ e = ds => v = w
           /\ e # ds => /\ "part" \in w.key /\ v.parts \cap w.parts = {}
                        /\ ds \in SymbolDatasets <=> e \in SymbolDatasets
<1>1. DatedFacts(ds, w)  BY DatedForm
<1>2. v.key = w.key  BY <1>1, WritesShare DEF DatedFacts
<1>3. v \in WriteShape  BY WritesShare, DatasetForm
<1>4. CASE e = ds  BY <1>1, <1>2, <1>4 DEF DatedFacts
<1>5. CASE e # ds
  <2>1. Apart(ds, e)  BY <1>5, WritesShare
  <2> QED  BY <1>2, <1>3, <1>5, <2>1 DEF Apart, WriteShape
<1> QED  BY <1>4, <1>5

\* A row of a write has no columns but the write's.
LEMMA RowsBare ==
    ASSUME NEW w \in WriteShape, NEW from, NEW ans, NEW d, NEW r \in RowsFrom(w, from, ans, d)
    PROVE  Bare(w, r)
<1>1. RowForm(w, from, ans, d, r)  BY RowForms
<1>2. \A k, body : Bare(w, RowAt(w, k, body))  BY DEF RowAt, Bare
<1>3. \E k, body : r = RowAt(w, k, body)
  <2>1. CASE w.shape = "one"  BY <1>1, <2>1 DEF RowForm
  <2>2. CASE w.shape = "self"  BY <1>1, <2>2 DEF RowForm
  <2>3. CASE w.shape = "list"  BY <1>1, <2>3 DEF RowForm
  <2>4. CASE w.shape = "tag"  BY <1>1, <2>4 DEF RowForm, TagAt
  <2>5. CASE w.shape = "link"  BY <1>1, <2>5 DEF RowForm, TagAt
  <2> QED  BY <2>1, <2>2, <2>3, <2>4, <2>5 DEF WriteShape
<1> QED  BY <1>2, <1>3

\* Nor has a row of a statement of a sync.
LEMMA StmtBare ==
    ASSUME NEW ds, SoundDataset(ds), NEW ans, IsAnswer(ans), NEW full, NEW open,
           NEW s \in StmtsOf(ds, ans, full, open), NEW n \in s.rows
    PROVE  Bare(s.w, n)
<1>1. ASSUME NEW ws, ws \subseteq WritesOf(ds), s \in Stmts(ws, ans) PROVE Bare(s.w, n)
  <2>1. PICK w \in ws : s = StmtOf(w, ans, day)  BY <1>1 DEF Stmts
  <2>2. w \in WriteShape /\ SoundWrite(w)  BY <1>1, DatasetForm
  <2>3. s.w = w /\ s.rows = RowsOf(w, ans, day)  BY <2>1, <2>2, StmtSound
  <2> QED  BY <2>2, <2>3, RowsBare DEF RowsOf
<1>2. ToSet(ds.free) \subseteq WritesOf(ds) /\ ToSet(ds.writes) \subseteq WritesOf(ds)  BY DatasetForm
<1>3. CASE ds.gate \in {"none", "asof"}
  <2>1. s \in Stmts(ToSet(ds.free), ans) \/ s \in Stmts(ToSet(ds.writes), ans)  BY <1>3 DEF StmtsOf, AsOfStmts
  <2> QED  BY <1>1, <1>2, <2>1
<1>4. CASE ds.gate = "snapshot"
  <2> DEFINE hist == ds.writes[2]
  <2> DEFINE kept == {h \in RowsOf(hist, ans, now + 1) :
                        \E m \in FreshRows(ds.writes[1], RowsOf(ds.writes[1], ans, day), full) : m.key.part = h.key.part}
  <2>1. s \in Stmts(ToSet(ds.writes) \ {hist}, ans) \/ s = Stmt(hist, kept, {}, {})
    BY <1>4 DEF StmtsOf, SnapshotStmts
  <2>2. ASSUME s = Stmt(hist, kept, {}, {}) PROVE Bare(s.w, n)
    <3>1. s.w = hist /\ n \in RowsOf(hist, ans, now + 1)  BY <2>2 DEF Stmt
    <3>2. hist \in WriteShape  BY <1>4, DatasetForm
    <3> HIDE DEF hist
    <3> QED  BY <3>1, <3>2, RowsBare DEF RowsOf
  <2>3. ToSet(ds.writes) \ {hist} \subseteq WritesOf(ds)  BY <1>2
  <2> HIDE DEF kept, hist
  <2> QED  BY <1>1, <2>1, <2>2, <2>3
<1>5. CASE ds.gate = "hash"
  <2> DEFINE head == ds.writes[1]
  <2> DEFINE child == [ds.writes[2] EXCEPT !.mode = "replace", !.scope = head.key]
  <2> DEFINE new == RowsFrom(head, ds.writes[2], ans, day)
  <2> DEFINE moved == FreshRows(head, new, full)
  <2> DEFINE kids == {r \in RowsOf(child, ans, day) : InScope(r.key, child, Keys(moved))}
  <2>1. \/ s \in Stmts(ToSet(ds.free), ans)
        \/ s = Stmt(head, moved, {}, new \ moved) \/ s = Stmt(child, kids, Keys(moved), {})
    BY <1>5 DEF StmtsOf, HashStmts
  <2>2. head \in WriteShape /\ ds.writes[2] \in WriteShape  BY <1>5, DatasetForm
  <2>3. child \in WriteShape
    <3>1. head.key \in SUBSET Fields  BY <2>2 DEF WriteShape
    <3>2. \A w \in WriteShape : \A k \in SUBSET Fields : [w EXCEPT !.mode = "replace", !.scope = k] \in WriteShape
      BY DEF WriteShape
    <3> QED  BY <2>2, <3>1, <3>2
  <2>4. ASSUME s = Stmt(head, moved, {}, new \ moved) PROVE Bare(s.w, n)
    <3>1. s.w = head /\ n \in RowsFrom(head, ds.writes[2], ans, day)  BY <2>4 DEF Stmt, FreshRows
    <3> HIDE DEF head
    <3> QED  BY <2>2, <3>1, RowsBare
  <2>5. ASSUME s = Stmt(child, kids, Keys(moved), {}) PROVE Bare(s.w, n)
    <3>1. s.w = child /\ n \in RowsOf(child, ans, day)  BY <2>5 DEF Stmt
    <3> HIDE DEF child
    <3> QED  BY <2>3, <3>1, RowsBare DEF RowsOf
  <2> HIDE DEF head, child, new, moved, kids
  <2> QED  BY <1>1, <1>2, <2>1, <2>4, <2>5
<1> QED  BY <1>3, <1>4, <1>5 DEF SoundDataset

--------------------------------------------------------------------------------
(* The rows of today, once written, are the answer. *)

\* A write by day makes rows of that day.
LEMMA RowsToday ==
    ASSUME NEW w \in WriteShape, w.shape \in {"one", "list"}, "day" \in w.key, NEW ans, NEW d,
           NEW n \in RowsOf(w, ans, d)
    PROVE  n.key.day = d
<1>1. RowForm(w, w, ans, d, n)  BY RowForms DEF RowsOf
<1>2. \E p, i, body : n = RowAt(w, Key(w, Owner, d, p, i), body)  BY <1>1 DEF RowForm
<1> QED  BY <1>2, RowAtRow, KeyForm

\* The scope of a replace is everything of today that it could have written.
LEMMA TodayInScope ==
    ASSUME NEW ds, NEW w, DatedFacts(ds, w), w.mode = "replace", NEW ans, IsAnswer(ans),
           Whole(w, RowsOf(w, ans, day)), NEW T, NEW r \in DatedIn(T, w, day, ans.read), Keyed(w, r.key), OwnRow(w, r)
    PROVE  InScope(r.key, w, Scopes(w, RowsOf(w, ans, day), ans, day))
<1> DEFINE new == RowsOf(w, ans, day)
<1>1. /\ w \in WriteShape /\ SoundWrite(w) /\ w.shape \in {"one", "list"} /\ "day" \in w.key
      /\ w.parts # {} /\ w.parts \subseteq Parts
  BY DEF DatedFacts
<1>2. r.key.day = day /\ r.key.part \in w.parts \cup {"-"} /\ (w.given = "read" => r.key.part \in ans.read)
  BY DEF DatedIn
<1>3. r.key.owner = IF "owner" \in w.key THEN Owner ELSE "-"  BY DEF OwnRow, Keyed
<1>4. CASE w.given = "rows"
  <2>1. PICK n \in new : TRUE  BY <1>4 DEF Whole
  <2>2. n.key.day = day  BY <1>1, RowsToday
  <2>3. Heeds(w, ans, n.key)  BY <1>1, KeysHeed DEF RowsOf
  <2>4. n.key.owner = IF "owner" \in w.key THEN Owner ELSE "-"  BY <1>1, <2>3 DEF Heeds, Asked, Keyed
  <2>5. w.scope \subseteq {"owner", "day"}  BY <1>4 DEF DatedFacts
  <2>6. \A k : k["owner"] = k.owner /\ k["day"] = k.day  OBVIOUS
  <2>7. \A f \in w.scope : r.key[f] = n.key[f]  BY <1>2, <1>3, <2>2, <2>4, <2>5, <2>6
  <2> HIDE DEF new
  <2>8. n.key \in Scopes(w, new, ans, day)  BY <1>4 DEF Scopes, Keys
  <2> QED  BY <2>7, <2>8 DEF InScope, new
<1>5. CASE w.given # "rows"
  <2>1. PICK p \in w.parts : /\ "part" \in w.key => r.key.part = p
                             /\ w.given = "read" => p \in ans.read
    <3>1. CASE "part" \in w.key
      <4>1. r.key.part \in Parts  BY <3>1 DEF OwnRow
      <4>2. r.key.part \in w.parts  BY <1>2, <4>1 DEF Parts
      <4> QED  BY <1>2, <4>2
    <3>2. CASE "part" \notin w.key  BY <1>1, <3>2 DEF DatedFacts
    <3> QED  BY <3>1, <3>2
  <2> DEFINE k == Key(w, Owner, day, p, "-")
  <2>2. k \in Scopes(w, new, ans, day)  BY <1>1, <1>5, <2>1 DEF Scopes, WriteShape
  <2>3. w.scope \subseteq {"owner", "day", "part"}  BY <1>1, <1>5 DEF SoundWrite, WriteShape, Fields
  <2>4. k.owner = r.key.owner /\ k.day = r.key.day  BY <1>1, <1>2, <1>3, KeyForm
  <2>5. k.part = r.key.part  BY <2>1, KeyForm DEF Keyed
  <2>6. \A h : h["owner"] = h.owner /\ h["day"] = h.day /\ h["part"] = h.part  OBVIOUS
  <2> HIDE DEF k, new
  <2>7. \A f \in w.scope : r.key[f] = k[f]  BY <2>3, <2>4, <2>5, <2>6
  <2> QED  BY <2>2, <2>7 DEF InScope, new
<1> QED  BY <1>4, <1>5

\* Rows with the same content.
Same(r, n) == r.key = n.key /\ r.c = n.c /\ r.d = n.d /\ r.e = n.e /\ r.known = n.known
\* Rows that each have their like among others say no more than those, days aside.
LEMMA DatelessWithin ==
    ASSUME NEW S, NEW R, \A r \in S : \E n \in R : Same(r, n)
    PROVE  Dateless(S) \subseteq Dateless(R)
<1> DEFINE Brief(r) == [key |-> Undated(r.key), c |-> r.c, d |-> r.d, e |-> r.e, known |-> r.known]
<1>1. \A r, n : Same(r, n) => Brief(r) = Brief(n)  BY DEF Same
<1>2. Dateless(S) = {Brief(r) : r \in S} /\ Dateless(R) = {Brief(r) : r \in R}  BY DEF Dateless
<1> HIDE DEF Brief
<1> QED  BY <1>1, <1>2

\* After a write by day the day's rows say what the answer said, and nothing else when
\* the write puts the answer in their place.
LEMMA WrittenToday ==
    ASSUME NEW ds, NEW w, DatedFacts(ds, w), NEW ans, IsAnswer(ans), NEW T, IsTable(T),
           \A x \in T : Keyed(w, x.key) /\ OwnRow(w, x)
    PROVE  LET new == Dateless(RowsOf(w, ans, day))
               stored == Dateless(DatedIn(CollectedWrite(T, StmtOf(w, ans, day)), w, day, ans.read))
           IN  new \subseteq stored /\ (Whole(w, RowsOf(w, ans, day)) => stored \subseteq new)
<1> DEFINE s == StmtOf(w, ans, day)
<1> DEFINE new == RowsOf(w, ans, day)
<1> DEFINE C == CollectedWrite(T, s)
<1>1. /\ w \in WriteShape /\ SoundWrite(w) /\ w.shape \in {"one", "list"} /\ "day" \in w.key
      /\ w.insert = w.update /\ w.insert \subseteq {"c", "d", "e"}
  BY DEF DatedFacts, WriteShape
<1>2. SoundStmt(s) /\ s.w = w /\ s.rows = new /\ s.touched = {} /\ s.scopes = Scopes(w, new, ans, day)
  BY <1>1, StmtSound
<1>3. \A n \in new : Heeds(w, ans, n.key) /\ n.key.day = day /\ Bare(w, n)
  BY <1>1, KeysHeed, RowsToday, RowsBare DEF RowsOf
<1>4. new \subseteq s.rows /\ IsTable(s.rows \cup s.touched)  BY <1>2 DEF SoundStmt
<1> HIDE DEF s, new
<1>5. ASSUME NEW r \in C
      PROVE  \/ r \in T /\ r \notin Removed(T, s) /\ r.key \notin Keys(new)
             \/ \E n \in new : Same(r, n)
  <2>1. Says(T, s, r)  BY <1>2, WrittenAs
  <2>2. s.rows \cup s.touched = new /\ s.rows = new /\ s.touched = {}  BY <1>2
  <2>3. ASSUME NEW n \in new, r.key = n.key, r.known = n.known,
               "c" \in Effective(w) => r.c = n.c, "d" \in Effective(w) => r.d = n.d, "e" \in Effective(w) => r.e = n.e,
               NEW o \in T, "c" \notin Effective(w) => r.c = o.c, "d" \notin Effective(w) => r.d = o.d, "e" \notin Effective(w) => r.e = o.e
        PROVE  Same(r, n)
    <3>1. Bare(w, n) /\ Bare(w, o)  BY <1>3 DEF OwnRow
    <3>2. "c" \notin Effective(w) => "c" \notin w.insert  BY <1>1 DEF Effective
    <3>3. "d" \notin Effective(w) => "d" \notin w.insert  BY <1>1 DEF Effective
    <3>4. "e" \notin Effective(w) => "e" \notin w.insert  BY <1>1 DEF Effective
    <3> QED  BY <2>3, <3>1, <3>2, <3>3, <3>4 DEF Bare, Same
  <2>4. ASSUME NEW n \in new, r = n PROVE Same(r, n)  BY <2>4 DEF Same
  <2> QED  BY <1>2, <2>1, <2>2, <2>3, <2>4 DEF Says
<1>6. ASSUME NEW n \in new PROVE \E r \in DatedIn(C, w, day, ans.read) : Same(n, r)
  <2>1. n.key \in Keys(C)
    <3>1. Keys(s.rows) \subseteq Keys(C)  BY <1>2, WriteKeys
    <3> QED  BY <1>2, <3>1 DEF Keys
  <2>2. PICK r \in C : r.key = n.key  BY <2>1 DEF Keys
  <2>3. PICK m \in new : Same(r, m)  BY <1>5, <2>2 DEF Keys
  <2>4. m = n  BY <1>4, <2>2, <2>3 DEF IsTable, Same
  <2>5. Heeds(w, ans, r.key) /\ r.key.day = day  BY <1>3, <2>2
  <2>6. r.key.part \in w.parts \cup {"-"}  BY <2>5 DEF Heeds, Near
  <2>7. w.given = "read" => r.key.part \in ans.read
    BY <2>5 DEF Heeds, Asked, DatedFacts
  <2> HIDE DEF C
  <2>8. r \in DatedIn(C, w, day, ans.read)  BY <2>5, <2>6, <2>7 DEF DatedIn
  <2> QED  BY <2>3, <2>4, <2>8 DEF Same
<1>7. ASSUME Whole(w, new), NEW r \in DatedIn(C, w, day, ans.read) PROVE \E n \in new : Same(r, n)
  <2>1. r \in C  BY DEF DatedIn
  <2>2. ASSUME r \in T, r \notin Removed(T, s), r.key \notin Keys(new) PROVE FALSE
    <3>1. w.mode = "replace"  BY <1>7 DEF Whole
    <3>2. InScope(r.key, w, Scopes(w, new, ans, day))
      <4> HIDE DEF C
      <4> QED  BY <1>7, <2>2, <3>1, TodayInScope DEF new
    <3> QED  BY <1>2, <2>2, <3>1, <3>2 DEF Removed, Replaced
  <2> QED  BY <1>5, <2>1, <2>2
<1> HIDE DEF C
<1>8. Dateless(new) \subseteq Dateless(DatedIn(C, w, day, ans.read))  BY <1>6, DatelessWithin
<1>9. Whole(w, new) => Dateless(DatedIn(C, w, day, ans.read)) \subseteq Dateless(new)  BY <1>7, DatelessWithin
<1> QED  BY <1>8, <1>9 DEF C, new, s

\* A statement about other parts leaves a part as it is.
LEMMA PartSpared ==
    ASSUME NEW T, NEW s, IsTable(T), SoundStmt(s), NEW p,
           \A n \in s.rows \cup s.touched : n.key.part # p,
           s.w.mode = "replace" => "part" \in s.w.scope /\ \A k \in s.scopes : k.part # p
    PROVE  \A x : x.key.part = p => (x \in CollectedWrite(T, s) <=> x \in T)
<1> SUFFICES ASSUME NEW x, x.key.part = p PROVE x \in CollectedWrite(T, s) <=> x \in T  OBVIOUS
<1>1. x.key \notin Keys(s.rows \cup s.touched)  BY DEF Keys
<1>2. x \notin Removed(T, s)
  <2> SUFFICES ASSUME x \in Removed(T, s) PROVE FALSE  OBVIOUS
  <2>1. s.w.mode = "replace" /\ InScope(x.key, s.w, s.scopes)  BY RemovedForm
  <2>2. PICK k \in s.scopes : \A f \in s.w.scope : x.key[f] = k[f]  BY <2>1 DEF InScope
  <2>3. x.key.part = k.part  BY <2>1, <2>2
  <2> QED  BY <2>1, <2>3
<1>3. x \in T => x \in CollectedWrite(T, s)  BY <1>1, <1>2, Written DEF Arises
<1>4. x \in CollectedWrite(T, s) => x \in T  BY <1>1, WriteKeys
<1> QED  BY <1>3, <1>4

--------------------------------------------------------------------------------
(* The gates, step by step. *)

\* The latest rows are those of the gate's day, of the parts its answer read.
LEMMA LatestAt == \A w, g : Latest(w, g) = DatedIn(rows[w.table], w, gates[g].day, told[g].read)
  BY DEF Latest, DatedIn

\* The gates begin shut upon nothing.
LEMMA AsOfInit == SyncInit => AsOfInv
<1> SUFFICES ASSUME SyncInit PROVE AsOfInv  OBVIOUS
<1>1. DOMAIN gates = GateKeys /\ DOMAIN told = GateKeys  BY DEF SyncInit
<1>2. \A g \in GateKeys : gates[g].hash = {} /\ told[g].rows = {}  BY DEF SyncInit, NoGate
<1>3. group \in DOMAIN Groups  BY DEF SyncInit
<1>4. ASSUME NEW ds \in Mates, ds.gate = "asof" PROVE DatedWell(ds) /\ GateWell(ds)
  <2>1. \A w \in Dated(ds) : rows[w.table] = {}
    <3> SUFFICES ASSUME NEW w \in Dated(ds) PROVE rows[w.table] = {}  OBVIOUS
    <3>1. w.table \in Tables /\ w.table # "symbols"  BY <1>3, <1>4, DatedForm DEF DatedFacts, TreatedByName
    <3> QED  BY <3>1 DEF SyncInit
  <2>2. \A p \in Parts \cup {"*"} : <<ds.name, p>> \in GateKeys  BY <1>4 DEF GateKeys
  <2>3. GateWell(ds)  BY <1>2, <2>2 DEF GateWell, GateAt
  <2> QED  BY <2>1, <2>3 DEF DatedWell
<1> QED  BY <1>1, <1>4 DEF AsOfInv

\* A gate about which nothing changed.
LEMMA GateKept ==
    ASSUME NEW ds, NEW p, GateAt(ds, p),
           gates'[<<ds.name, p>>] = gates[<<ds.name, p>>],
           told'[<<ds.name, p>>].rows = told[<<ds.name, p>>].rows,
           told'[<<ds.name, p>>].read = told[<<ds.name, p>>].read,
           told[<<ds.name, p>>].rows # {} =>
              \A w \in Dated(ds) : DatedIn(rows'[w.table], w, gates[<<ds.name, p>>].day, told[<<ds.name, p>>].read)
                                     = Latest(w, <<ds.name, p>>)
    PROVE  GateAt(ds, p)'
<1> DEFINE g == <<ds.name, p>>
<1>1. gates'[g] = gates[g] /\ told'[g].rows = told[g].rows /\ told'[g].read = told[g].read  OBVIOUS
<1>2. gates[g].hash = told[g].rows  BY DEF GateAt
<1>3. ASSUME told[g].rows # {}, NEW w \in Dated(ds) PROVE Holds(w, g)'
  <2>1. Holds(w, g)  BY <1>3 DEF GateAt
  <2>2. Latest(w, g)' = Latest(w, g)  BY <1>1, <1>3 DEF Latest, DatedIn
  <2>3. Told(told'[g].rows, w) = Told(told[g].rows, w)  BY <1>1
  <2> QED  BY <2>1, <2>2, <2>3 DEF Holds
<1>4. told[g].rows # {} => IF ds.regional THEN p \in Parts /\ told[g].read = {p} ELSE p = "*"  BY DEF GateAt
<1> QED  BY <1>1, <1>2, <1>3, <1>4 DEF GateAt

\* The answer a gate has been told.
LEMMA ToldDigest ==
    ASSUME NEW ds, SoundDataset(ds), NEW ans, NEW w \in ToSet(ds.writes)
    PROVE  Told(Digest(ds, ans), w) = Dateless(RowsOf(w, ans, day))
<1> DEFINE RowsFor(v) == Dateless(RowsOf(v, ans, day))
<1>1. \A v \in ToSet(ds.writes) : v.table = w.table => v = w  BY DatasetForm
<1>2. Digest(ds, ans) = {<<v.table, RowsFor(v)>> : v \in ToSet(ds.writes)}  BY DEF Digest
<1> HIDE DEF RowsFor
<1>3. {y \in Digest(ds, ans) : y[1] = w.table} = {<<w.table, RowsFor(w)>>}  BY <1>1, <1>2
<1>4. {x[2] : x \in {<<w.table, RowsFor(w)>>}} = {RowsFor(w)}  OBVIOUS
<1>5. UNION {RowsFor(w)} = RowsFor(w)  OBVIOUS
<1>6. Told(Digest(ds, ans), w) = RowsFor(w)  BY <1>3, <1>4, <1>5 DEF Told
<1> QED  BY <1>6 DEF RowsFor

\* A row of a dated table is the owner's after a sync as before.
LEMMA DatedSync ==
    ASSUME KeysInv, NEW ds \in Mates, ds.gate = "asof", DatedWell(ds), NEW e \in Mates, Sync(e)
    PROVE  DatedWell(ds)'
<1>0. group \in DOMAIN Groups /\ SoundDataset(e)  BY WritesShare DEF KeysInv, WriterInv
<1>1. PICK ans, full : ans \in Answers(e) /\ Synced(e, SyncOf(e, ans, full).stmts, ans)  BY <1>0, SyncSteps
<1>2. PICK open : SyncOf(e, ans, full).stmts = StmtsOf(e, ans, full, open)  BY DEF SyncOf
<1>3. Synced(e, StmtsOf(e, ans, full, open), ans) /\ IsAnswer(ans)  BY <1>1, <1>2, AnswerForm
<1>4. SUFFICES ASSUME NEW w \in Dated(ds), NEW x \in rows'[w.table] PROVE OwnRow(w, x)  BY DEF DatedWell
<1>5. DatedFacts(ds, w) /\ w.table \in Tables /\ \A y \in rows[w.table] : OwnRow(w, y)
  BY <1>0, DatedForm DEF DatedFacts, DatedWell
<1>6. CASE Untouched(w.table)  BY <1>4, <1>5, <1>6 DEF Untouched
<1>7. ASSUME NEW s \in StmtsOf(e, ans, full, open), s.w.table = w.table,
             WriterStep(w.table, s), SoundStmt(s), FromWrite(e, ans, s)
      PROVE  OwnRow(w, x)
  <2>1. IsTable(rows[w.table])  BY <1>5 DEF KeysInv, WriterInv, StoredWell
  <2>2. Says(rows[w.table], s, x)  BY <1>4, <1>7, <2>1, WrittenAs DEF WriterStep
  <2>3. /\ s.w.key = w.key /\ s.w.insert = w.insert /\ s.w.shape \in {"one", "list"} /\ s.w.parts \subseteq Parts
    BY <1>0, <1>7, SharedWrite DEF FromWrite
  <2>4. \A n \in s.rows : Bare(w, n) /\ Asked(s.w, ans, n.key)
    BY <1>0, <1>3, <1>7, <2>3, StmtBare DEF FromWrite, Heeds, Bare
  <2>5. \A n \in s.rows : OwnRow(w, n)  BY <2>3, <2>4 DEF OwnRow, Asked
  <2>6. ASSUME NEW n \in s.rows, x.key = n.key, "c" \in Effective(s.w) => x.c = n.c, "d" \in Effective(s.w) => x.d = n.d, "e" \in Effective(s.w) => x.e = n.e,
               NEW o \in rows[w.table], "c" \notin Effective(s.w) => x.c = o.c, "d" \notin Effective(s.w) => x.d = o.d, "e" \notin Effective(s.w) => x.e = o.e
        PROVE  OwnRow(w, x)
    <3>1. OwnRow(w, n) /\ OwnRow(w, o)  BY <1>5, <2>5
    <3> QED  BY <2>6, <3>1 DEF OwnRow, Bare
  <2>7. ASSUME NEW o \in rows[w.table], x.key = o.key, x.c = o.c, x.d = o.d, x.e = o.e PROVE OwnRow(w, x)
    <3>1. OwnRow(w, o)  BY <1>5
    <3> QED  BY <2>7, <3>1 DEF OwnRow, Bare
  <2> QED  BY <1>5, <2>2, <2>5, <2>6, <2>7 DEF Says
<1> QED  BY <1>3, <1>5, <1>6, <1>7, TableSynced

\* What a commit does to the gates.
LEMMA CommitGates ==
    ASSUME NEW ds, NEW ans, NEW full, Commit(SyncOf(ds, ans, full))
    PROVE  /\ ds.gate # "asof" => gates' = gates /\ told' = told
           /\ \A g \in DOMAIN gates : g # Gate(ds, ans) => gates'[g] = gates[g]
           /\ \A g \in DOMAIN told : g # Gate(ds, ans) => told'[g] = told[g]
           /\ DOMAIN gates' = DOMAIN gates /\ DOMAIN told' = DOMAIN told
<1> DEFINE sync == SyncOf(ds, ans, full)
<1>1. /\ gates' = IF sync.open THEN [gates EXCEPT ![sync.gate] = [hash |-> sync.digest, day |-> day]] ELSE gates
      /\ told' = IF ~sync.gated THEN told
                 ELSE [told EXCEPT ![sync.gate] = [read |-> IF sync.open THEN sync.read ELSE @.read,
                                                   rows |-> sync.digest]]
  BY DEF Commit
<1>2. sync.gate = Gate(ds, ans) /\ (sync.open => sync.gated) /\ (sync.gated => ds.gate = "asof")
  BY DEF SyncOf
<1> HIDE DEF sync
<1> QED  BY <1>1, <1>2

\* What the sync of the dataset itself does to one of its gates.
LEMMA OwnGate ==
    ASSUME group \in DOMAIN Groups, NEW ds \in Mates, ds.gate = "asof", NEW ans, ans \in Answers(ds)
    PROVE  \E q \in Parts \cup {"*"} : /\ Gate(ds, ans) = <<ds.name, q>>
                                      /\ IF ds.regional THEN q \in Parts /\ ans.read = {q} ELSE q = "*"
<1>1. CASE ds.regional
  <2>1. PICK q \in Parts : ans.read = {q}  BY <1>1 DEF Answers
  <2>2. (CHOOSE p \in ans.read : TRUE) = q  BY <2>1
  <2> QED  BY <1>1, <2>1, <2>2 DEF Gate
<1>2. CASE ~ds.regional  BY <1>2 DEF Gate
<1> QED  BY <1>1, <1>2

\* What it writes: behind a gate that stays shut nothing that is dated, behind one that opens all of it.
LEMMA AsOfWritten ==
    ASSUME KeysInv, NEW ds \in Mates, ds.gate = "asof", NEW ans, ans \in Answers(ds), NEW full,
           Synced(ds, SyncOf(ds, ans, full).stmts, ans), NEW w \in Dated(ds)
    PROVE  /\ SyncOf(ds, ans, full).open => rows'[w.table] = CollectedWrite(rows[w.table], StmtOf(w, ans, day))
           /\ ~SyncOf(ds, ans, full).open => rows'[w.table] = rows[w.table]
<1>0. group \in DOMAIN Groups /\ SoundDataset(ds) /\ IsAnswer(ans)
  BY WritesShare, AnswerForm DEF KeysInv, WriterInv
<1>1. DatedFacts(ds, w)  BY <1>0, DatedForm
<1> DEFINE sync == SyncOf(ds, ans, full)
<1>2. sync.stmts = Stmts(ToSet(ds.free), ans) \cup IF sync.open THEN Stmts(ToSet(ds.writes), ans) ELSE {}
  BY DEF SyncOf, StmtsOf, AsOfStmts
<1> HIDE DEF sync
<1>3. ASSUME sync.open PROVE rows'[w.table] = CollectedWrite(rows[w.table], StmtOf(w, ans, day))
  <2>1. StmtOf(w, ans, day) \in sync.stmts  BY <1>1, <1>2, <1>3 DEF DatedFacts, Stmts
  <2>2. StmtOf(w, ans, day).w = w  BY <1>0, <1>1, StmtSound DEF DatedFacts
  <2> QED  BY <2>1, <2>2 DEF Synced, WriterStep, sync
<1>4. ASSUME ~sync.open PROVE rows'[w.table] = rows[w.table]
  <2>1. sync.stmts = Stmts(ToSet(ds.free), ans)  BY <1>2, <1>4
  <2>2. ToSet(ds.free) \subseteq WritesOf(ds)  BY <1>0, DatasetForm
  <2>3. ASSUME NEW s \in sync.stmts PROVE s.w.table # w.table
    <3>1. s.w \in ToSet(ds.free) /\ s.w \in WritesOf(ds)  BY <1>0, <2>1, <2>2, <2>3, StmtsForm
    <3> QED  BY <1>1, <3>1 DEF DatedFacts
  <2>4. w.table \in Tables  BY <1>1 DEF DatedFacts
  <2> QED  BY <2>3, <2>4 DEF Synced, Untouched, sync
<1> QED  BY <1>3, <1>4 DEF sync

\* A sync whose gate is shut writes no dated table: the gates keep.
LEMMA ShutSync ==
    ASSUME KeysInv, AsOfInv, NEW ds \in Mates, ds.gate = "asof", NEW ans, ans \in Answers(ds), NEW full,
           Commit(SyncOf(ds, ans, full)), Synced(ds, SyncOf(ds, ans, full).stmts, ans),
           ~SyncOf(ds, ans, full).open
    PROVE  GateWell(ds)'
<1> DEFINE sync == SyncOf(ds, ans, full)
<1>0. group \in DOMAIN Groups /\ DOMAIN told = GateKeys /\ GateWell(ds)  BY DEF KeysInv, WriterInv, AsOfInv
<1>1. \A w \in Dated(ds) : rows'[w.table] = rows[w.table]  BY AsOfWritten
<1>2. /\ gates' = gates
      /\ told' = IF ~sync.gated THEN told
                 ELSE [told EXCEPT ![sync.gate] = [read |-> IF sync.open THEN sync.read ELSE @.read,
                                                   rows |-> sync.digest]]
  BY DEF Commit
<1>3. sync.gated => gates[sync.gate].hash = sync.digest
  BY DEF SyncOf
<1>4. PICK q \in Parts \cup {"*"} : sync.gate = <<ds.name, q>>  BY <1>0, OwnGate DEF SyncOf
<1>5. ~sync.open  OBVIOUS
<1> HIDE DEF sync
<1> SUFFICES ASSUME NEW p \in Parts \cup {"*"} PROVE GateAt(ds, p)'  BY DEF GateWell
<1> DEFINE g == <<ds.name, p>>
<1>6. g \in GateKeys  BY DEF GateKeys
<1>7. GateAt(ds, p) /\ GateAt(ds, q)  BY <1>0 DEF GateWell
<1>8. told'[g].rows = told[g].rows /\ told'[g].read = told[g].read
  <2>1. CASE ~sync.gated \/ sync.gate # g  BY <1>0, <1>2, <1>6, <2>1
  <2>2. CASE sync.gated /\ sync.gate = g
    <3>1. told'[g] = [read |-> told[g].read, rows |-> sync.digest]  BY <1>0, <1>2, <1>5, <1>6, <2>2
    <3>2. told[g].rows = sync.digest  BY <1>3, <1>4, <1>7, <2>2 DEF GateAt
    <3> QED  BY <3>1, <3>2
  <2> QED  BY <2>1, <2>2
<1>9. \A w \in Dated(ds) : DatedIn(rows'[w.table], w, gates[g].day, told[g].read) = Latest(w, g)
  BY <1>1, LatestAt
<1> QED  BY <1>2, <1>7, <1>8, <1>9, GateKept

\* A sync whose gate opens writes the answer, dates the gate and notes the digest: its
\* gate keeps, and so do the dataset's gates of other parts.
LEMMA OpenSync ==
    ASSUME KeysInv, AsOfInv, NEW ds \in Mates, ds.gate = "asof", NEW ans, ans \in Answers(ds), NEW full,
           Commit(SyncOf(ds, ans, full)), Synced(ds, SyncOf(ds, ans, full).stmts, ans),
           SyncOf(ds, ans, full).open
    PROVE  GateWell(ds)'
<1> DEFINE sync == SyncOf(ds, ans, full)
<1>0. /\ group \in DOMAIN Groups /\ DOMAIN told = GateKeys /\ DOMAIN gates = GateKeys
      /\ GateWell(ds) /\ DatedWell(ds) /\ IsAnswer(ans) /\ SoundDataset(ds)
  BY AnswerForm, WritesShare DEF KeysInv, WriterInv, AsOfInv
<1>1. \A w \in Dated(ds) : rows'[w.table] = CollectedWrite(rows[w.table], StmtOf(w, ans, day))  BY AsOfWritten
<1>2. PICK q \in Parts \cup {"*"} : /\ Gate(ds, ans) = <<ds.name, q>>
                                    /\ IF ds.regional THEN q \in Parts /\ ans.read = {q} ELSE q = "*"
  BY <1>0, OwnGate
<1> DEFINE h == <<ds.name, q>>
<1>3. /\ sync.open /\ sync.gated /\ sync.gate = h /\ sync.read = ans.read /\ sync.digest = Digest(ds, ans)
  BY <1>2 DEF SyncOf
<1>4. /\ gates' = [gates EXCEPT ![sync.gate] = [hash |-> sync.digest, day |-> day]]
      /\ told' = [told EXCEPT ![sync.gate] = [read |-> sync.read, rows |-> sync.digest]]
  BY <1>3 DEF Commit
<1> HIDE DEF sync
<1>5. h \in GateKeys  BY DEF GateKeys
<1>6. gates'[h] = [hash |-> Digest(ds, ans), day |-> day] /\ told'[h] = [read |-> ans.read, rows |-> Digest(ds, ans)]
  BY <1>0, <1>3, <1>4, <1>5
<1>7. \A w \in Dated(ds) : /\ DatedFacts(ds, w) /\ IsTable(rows[w.table])
                           /\ \A x \in rows[w.table] : Keyed(w, x.key) /\ OwnRow(w, x)
  <2> SUFFICES ASSUME NEW w \in Dated(ds)
               PROVE  /\ DatedFacts(ds, w) /\ IsTable(rows[w.table])
                      /\ \A x \in rows[w.table] : Keyed(w, x.key) /\ OwnRow(w, x)
    OBVIOUS
  <2>1. DatedFacts(ds, w) /\ w.table \in Tables /\ w \in AllWrites  BY <1>0, DatedForm DEF DatedFacts
  <2>2. IsTable(rows[w.table])  BY <2>1 DEF KeysInv, WriterInv, StoredWell
  <2>3. \A x \in rows[w.table] : Keyed(w, x.key)  BY <2>1 DEF KeysInv, KeysWell
  <2> QED  BY <1>0, <2>1, <2>2, <2>3 DEF DatedWell
<1>8. ASSUME NEW w \in Dated(ds) PROVE Holds(w, h)'
  <2>1. w \in ToSet(ds.writes)  BY <1>7 DEF DatedFacts
  <2>2. Told(told'[h].rows, w) = Dateless(RowsOf(w, ans, day))  BY <1>0, <1>6, <2>1, ToldDigest
  <2>3. Latest(w, h)' = DatedIn(CollectedWrite(rows[w.table], StmtOf(w, ans, day)), w, day, ans.read)
    <3>1. Latest(w, h)' = DatedIn(rows'[w.table], w, gates'[h].day, told'[h].read)  BY DEF Latest, DatedIn
    <3> QED  BY <1>1, <1>6, <3>1
  <2>4. Whole(w, Dateless(RowsOf(w, ans, day))) => Whole(w, RowsOf(w, ans, day))  BY DEF Whole, Dateless
  <2> DEFINE new == Dateless(RowsOf(w, ans, day))
  <2> DEFINE stored == Dateless(DatedIn(CollectedWrite(rows[w.table], StmtOf(w, ans, day)), w, day, ans.read))
  <2>5. new \subseteq stored /\ (Whole(w, RowsOf(w, ans, day)) => stored \subseteq new)
    BY <1>0, <1>7, WrittenToday
  <2>6. Told(told'[h].rows, w) = new /\ Dateless(Latest(w, h)') = stored  BY <2>2, <2>3
  <2>7. Whole(w, new) => Whole(w, RowsOf(w, ans, day))  BY <2>4
  <2> HIDE DEF new, stored
  <2>8. new \subseteq stored /\ (Whole(w, new) => stored \subseteq new)  BY <2>5, <2>7
  <2> QED  BY <2>6, <2>8 DEF Holds
<1>9. GateAt(ds, q)'
  <2>1. gates'[h].hash = told'[h].rows  BY <1>6
  <2>2. IF ds.regional THEN q \in Parts /\ told'[h].read = {q} ELSE q = "*"  BY <1>2, <1>6
  <2> QED  BY <1>8, <2>1, <2>2 DEF GateAt
<1> SUFFICES ASSUME NEW p \in Parts \cup {"*"}, p # q PROVE GateAt(ds, p)'  BY <1>9 DEF GateWell
<1> DEFINE g == <<ds.name, p>>
<1>10. g \in GateKeys /\ g # h  BY DEF GateKeys
<1>11. gates'[g] = gates[g] /\ told'[g] = told[g]  BY <1>0, <1>3, <1>4, <1>10
<1>12. GateAt(ds, p)  BY <1>0 DEF GateWell
<1>13. ASSUME told[g].rows # {}, NEW w \in Dated(ds)
       PROVE  DatedIn(rows'[w.table], w, gates[g].day, told[g].read) = Latest(w, g)
  <2>1. IF ds.regional THEN p \in Parts /\ told[g].read = {p} ELSE p = "*"  BY <1>12, <1>13 DEF GateAt
  <2>2. ds.regional  BY <1>2, <2>1
  <2>3. p \in Parts /\ told[g].read = {p} /\ q \in Parts /\ ans.read = {q}  BY <1>2, <2>1, <2>2
  <2>4. /\ w \in WriteShape /\ SoundWrite(w) /\ w.shape = "list" /\ w.given = "read" /\ "part" \in w.key
        /\ w.mode = "replace" => "part" \in w.scope
    BY <1>7, <2>2 DEF DatedFacts
  <2> DEFINE s == StmtOf(w, ans, day)
  <2>5. /\ SoundStmt(s) /\ s.w = w /\ s.rows = RowsOf(w, ans, day) /\ s.touched = {}
        /\ s.scopes = Scopes(w, RowsOf(w, ans, day), ans, day)
    BY <1>0, <2>4, StmtSound
  <2>6. \A n \in s.rows \cup s.touched : n.key.part # p
    <3> SUFFICES ASSUME NEW n \in RowsOf(w, ans, day) PROVE n.key.part # p  BY <2>5
    <3>1. Heeds(w, ans, n.key)  BY <1>0, <2>4, KeysHeed DEF RowsOf
    <3> QED  BY <2>3, <2>4, <3>1 DEF Heeds, Asked
  <2>7. \A k \in s.scopes : k.part # p
    <3> SUFFICES ASSUME NEW k \in Scopes(w, RowsOf(w, ans, day), ans, day) PROVE k.part # p  BY <2>5
    <3>1. PICK m \in w.parts \cap ans.read : k = Key(w, Owner, day, m, "-")  BY <2>4 DEF Scopes
    <3>2. k.part = m  BY <2>4, <3>1, KeyForm
    <3> QED  BY <2>3, <3>1, <3>2
  <2> HIDE DEF s
  <2>8. \A x : x.key.part = p => (x \in CollectedWrite(rows[w.table], s) <=> x \in rows[w.table])
    BY <1>7, <2>4, <2>5, <2>6, <2>7, PartSpared
  <2>9. rows'[w.table] = CollectedWrite(rows[w.table], s)  BY <1>1 DEF s
  <2>10. DatedIn(rows'[w.table], w, gates[g].day, told[g].read) = DatedIn(rows[w.table], w, gates[g].day, told[g].read)
    BY <2>3, <2>4, <2>8, <2>9 DEF DatedIn
  <2> QED  BY <2>10, LatestAt
<1> QED  BY <1>11, <1>12, <1>13, GateKept

\* Another dataset leaves the parts of this one alone, and its gates.
LEMMA OtherSync ==
    ASSUME KeysInv, AsOfInv, NEW ds \in Mates, ds.gate = "asof", DatedWell(ds)', NEW e \in Mates, e # ds, Sync(e)
    PROVE  GateWell(ds)'
<1>0. /\ group \in DOMAIN Groups /\ DOMAIN told = GateKeys /\ DOMAIN gates = GateKeys
      /\ GateWell(ds) /\ DatedWell(ds)
  BY DEF KeysInv, WriterInv, AsOfInv
<1>1. PICK ans, full :
         ans \in Answers(e) /\ Commit(SyncOf(e, ans, full)) /\ Synced(e, SyncOf(e, ans, full).stmts, ans)
  BY <1>0, SyncSteps
<1> DEFINE stmts == SyncOf(e, ans, full).stmts
<1>2. SUFFICES ASSUME NEW p \in Parts \cup {"*"} PROVE GateAt(ds, p)'  BY DEF GateWell
<1> DEFINE g == <<ds.name, p>>
<1>3. g \in GateKeys  BY <1>2 DEF GateKeys
<1>4. gates'[g] = gates[g] /\ told'[g] = told[g]
  <2>1. CASE e.gate # "asof"  BY <1>1, <2>1, CommitGates
  <2>2. CASE e.gate = "asof"
    <3>1. Apart(ds, e)  BY WritesShare, <1>0
    <3>2. ds.name # e.name  BY <2>2, <3>1 DEF Apart
    <3>3. PICK q : Gate(e, ans) = <<e.name, q>>  BY <1>0, <1>1, <2>2, OwnGate
    <3>4. g # Gate(e, ans)  BY <3>2, <3>3
    <3> QED  BY <1>0, <1>1, <1>3, <3>4, CommitGates
  <2> QED  BY <2>1, <2>2
<1>5. GateAt(ds, p)  BY <1>0, <1>2 DEF GateWell
<1>6. ASSUME NEW w \in Dated(ds)
      PROVE  DatedIn(rows'[w.table], w, gates[g].day, told[g].read) = Latest(w, g)
  <2>1. DatedFacts(ds, w)  BY <1>0, DatedForm
  <2>2. w.table \in Tables  BY <2>1 DEF DatedFacts
  <2>3. CASE Untouched(w.table)  BY <2>3, LatestAt DEF Untouched
  <2>4. ASSUME NEW s \in stmts, s.w.table = w.table, WriterStep(w.table, s), SoundStmt(s), FromWrite(e, ans, s)
        PROVE  DatedIn(rows'[w.table], w, gates[g].day, told[g].read) = Latest(w, g)
    <3>1. s.w \in WritesOf(e) /\ s.w \in WriteShape  BY <2>4 DEF FromWrite, SoundStmt
    <3>2. /\ s.w.key = w.key /\ s.w.shape \in {"one", "list"} /\ s.w.parts \subseteq Parts
          /\ "part" \in w.key /\ s.w.parts \cap w.parts = {}
      BY <1>0, <2>4, <3>1, SharedWrite
    <3>3. IsTable(rows[w.table])  BY <2>2 DEF KeysInv, WriterInv, StoredWell
    <3>4. s.w.mode = "replace" => "part" \in s.w.scope
      <4>1. SoundWrite(s.w)  BY <1>0, <3>1, WritesShare
      <4>2. s.w.parts # Parts  BY <2>1, <3>2 DEF DatedFacts
      <4> QED  BY <3>2, <4>1, <4>2 DEF SoundWrite
    <3>5. ASSUME NEW m \in w.parts
          PROVE  \A x : x.key.part = m => (x \in rows'[w.table] <=> x \in rows[w.table])
      <4>1. m \in Parts /\ m \notin s.w.parts /\ m # "-"  BY <2>1, <3>2, <3>5 DEF DatedFacts, Parts
      <4>2. \A n \in s.rows \cup s.touched : n.key.part # m
        BY <2>4, <3>2, <4>1 DEF FromWrite, Heeds, Asked
      <4>3. \A k \in s.scopes : k.part # m  BY <2>4, <4>1 DEF FromWrite, Near
      <4>4. \A x : x.key.part = m => (x \in CollectedWrite(rows[w.table], s) <=> x \in rows[w.table])
        BY <2>4, <3>3, <3>4, <4>2, <4>3, PartSpared
      <4> QED  BY <2>4, <4>4 DEF WriterStep
    <3>6. \A x \in rows[w.table] : x.key.part # "-"
      BY <1>0, <3>2 DEF DatedWell, OwnRow, Parts
    <3>7. \A x \in rows'[w.table] : x.key.part # "-"
      BY <1>6, <3>2 DEF DatedWell, OwnRow, Parts
    <3>8. \A x : x.key.part \in w.parts \cup {"-"} => (x \in rows'[w.table] <=> x \in rows[w.table])
      BY <3>5, <3>6, <3>7
    <3>9. DatedIn(rows'[w.table], w, gates[g].day, told[g].read) = DatedIn(rows[w.table], w, gates[g].day, told[g].read)
      BY <3>8 DEF DatedIn
    <3> QED  BY <3>9, LatestAt
  <2> HIDE DEF stmts
  <2>5. Synced(e, stmts, ans)  BY <1>1 DEF stmts
  <2> QED  BY <2>2, <2>3, <2>4, <2>5, TableSynced
<1> QED  BY <1>4, <1>5, <1>6, GateKept

\* The pruner spares the day of every gate.
LEMMA AsOfPrune ==
    ASSUME KeysInv, AsOfInv, NEW ds \in Mates, ds.gate = "asof", Prune
    PROVE  DatedWell(ds)' /\ GateWell(ds)'
<1>0. /\ group \in DOMAIN Groups /\ GateWell(ds) /\ DatedWell(ds)  BY DEF KeysInv, WriterInv, AsOfInv
<1>1. PICK before, since, past : rows' = RunPrune(rows, before, since, past)  BY DEF Prune
<1>2. gates' = gates /\ told' = told  BY DEF Prune
<1>3. ASSUME NEW w \in Dated(ds)
      PROVE  /\ rows'[w.table] \subseteq rows[w.table]
             /\ \A p \in Parts \cup {"*"} : \A x \in rows[w.table] :
                   x.key.day = gates[<<ds.name, p>>].day => x \in rows'[w.table]
  <2> DEFINE t == w.table
  <2>1. t \in Tables /\ t \notin TreatedByName \cup Screens /\ w \in ToSet(ds.writes) /\ w \in WritesOf(ds)
    BY <1>0, DatedForm DEF DatedFacts
  <2>2. t \notin HistoryTables
    <3> SUFFICES ASSUME NEW e \in Mates, e.gate = "snapshot", e.writes[2].table = t PROVE FALSE
      BY DEF HistoryTables
    <3>1. e # ds /\ Guarded(e) /\ t \in Behind(e)  BY DEF Guarded, Behind
    <3> QED  BY <1>0, <2>1, <3>1, BehindForm
  <2>3. PruneScreens(FirstPruned(rows), t, before) = {}  BY <2>1, NoScreens
  <2>4. rows'[t] = rows[t] \ (IF t \in AsOfTables /\ (\A v \in AllWrites : v.table = t => "day" \in v.key)
                              THEN PruneAsOf(t, rows[t], before) ELSE {})
    BY <1>1, <2>1, <2>2, <2>3, PruneOther
  <2>5. \A p \in Parts \cup {"*"} : gates[<<ds.name, p>>].day \in Protected(t, rows[t], before)
    BY <2>1 DEF Protected
  <2>6. \A p \in Parts \cup {"*"} : \A x \in PruneAsOf(t, rows[t], before) : x.key.day # gates[<<ds.name, p>>].day
    BY <2>5 DEF PruneAsOf
  <2> HIDE DEF t
  <2>7. rows'[t] \subseteq rows[t] /\ \A p \in Parts \cup {"*"} : \A x \in rows[t] :
           x.key.day = gates[<<ds.name, p>>].day => x \in rows'[t]
    BY <2>4, <2>6
  <2> QED  BY <2>7 DEF t
<1>4. DatedWell(ds)'  BY <1>0, <1>3 DEF DatedWell
<1>5. ASSUME NEW p \in Parts \cup {"*"} PROVE GateAt(ds, p)'
  <2> DEFINE g == <<ds.name, p>>
  <2>1. ASSUME NEW w \in Dated(ds)
        PROVE  DatedIn(rows'[w.table], w, gates[g].day, told[g].read) = Latest(w, g)
    <3>1. DatedIn(rows'[w.table], w, gates[g].day, told[g].read) = DatedIn(rows[w.table], w, gates[g].day, told[g].read)
      BY <1>3, <1>5, <2>1 DEF DatedIn
    <3> QED  BY <3>1, LatestAt
  <2>2. GateAt(ds, p)  BY <1>0, <1>5 DEF GateWell
  <2> QED  BY <1>2, <2>1, <2>2, GateKept
<1> QED  BY <1>4, <1>5 DEF GateWell

\* A purge resets the gates of the datasets whose rows it takes.
LEMMA AsOfPurge ==
    ASSUME KeysInv, AsOfInv, NEW ds \in Mates, ds.gate = "asof", Purge
    PROVE  DatedWell(ds)' /\ GateWell(ds)'
<1>0. /\ group \in DOMAIN Groups /\ GateWell(ds) /\ DatedWell(ds)
      /\ DOMAIN told = GateKeys /\ DOMAIN gates = GateKeys
  BY DEF KeysInv, WriterInv, AsOfInv
<1> DEFINE lost == {d.name : d \in Mates \cap SymbolDatasets}
<1>1. /\ gates' = [g \in DOMAIN gates |-> IF g[1] \in lost THEN NoGate ELSE gates[g]]
      /\ told' = [g \in DOMAIN told |-> IF g[1] \in lost THEN [read |-> {}, rows |-> {}] ELSE told[g]]
      /\ rows' = [t \in Tables |-> {r \in rows[t] : /\ t \in Scoped => r.key.owner # Owner
                                                    /\ t = "symbols" => r.key.item # Owner}]
  BY DEF Purge
<1>2. \A w \in Dated(ds) : w.table \in Tables /\ w.table # "symbols" /\ w \in WritesOf(ds)
  BY <1>0, DatedForm DEF DatedFacts, TreatedByName
<1>3. \A w \in Dated(ds) : rows'[w.table] \subseteq rows[w.table]  BY <1>1, <1>2
<1>4. DatedWell(ds)'  BY <1>0, <1>3 DEF DatedWell
<1>5. ASSUME NEW p \in Parts \cup {"*"} PROVE GateAt(ds, p)'
  <2> DEFINE g == <<ds.name, p>>
  <2>1. g \in GateKeys /\ g[1] = ds.name  BY <1>5 DEF GateKeys
  <2> HIDE DEF lost
  <2>2. CASE ds.name \in lost
    <3>1. gates'[g] = NoGate /\ told'[g] = [read |-> {}, rows |-> {}]  BY <1>0, <1>1, <2>1, <2>2
    <3>2. gates'[g].hash = {} /\ told'[g].rows = {}  BY <3>1 DEF NoGate
    <3> QED  BY <3>2 DEF GateAt
  <2>3. CASE ds.name \notin lost
    <3>1. gates'[g] = gates[g] /\ told'[g] = told[g]  BY <1>0, <1>1, <2>1, <2>3
    <3>2. ds \notin SymbolDatasets  BY <2>3 DEF lost
    <3>3. ASSUME NEW w \in Dated(ds) PROVE rows'[w.table] = rows[w.table]
      <4>1. w.table \notin Scoped
        <5> SUFFICES ASSUME NEW e \in Mates \cap SymbolDatasets, NEW v \in WritesOf(e), v.table = w.table PROVE FALSE
          BY DEF Scoped
        <5>1. e # ds  BY <3>2
        <5>2. ds \in SymbolDatasets <=> e \in SymbolDatasets  BY <1>0, <3>3, <5>1, SharedWrite
        <5> QED  BY <3>2, <5>2
      <4> QED  BY <1>1, <1>2, <4>1
    <3>4. \A w \in Dated(ds) : DatedIn(rows'[w.table], w, gates[g].day, told[g].read) = Latest(w, g)
      BY <3>3, LatestAt
    <3>5. GateAt(ds, p)  BY <1>0, <1>5 DEF GateWell
    <3> QED  BY <3>1, <3>4, <3>5, GateKept
  <2> QED  BY <2>2, <2>3
<1> QED  BY <1>4, <1>5 DEF GateWell

\* A step that leaves a dataset's gates and dated tables alone keeps them.
LEMMA AsOfStay ==
    ASSUME AsOfInv, NEW ds \in Mates, ds.gate = "asof", gates' = gates, told' = told,
           \A w \in Dated(ds) : rows'[w.table] = rows[w.table]
    PROVE  DatedWell(ds)' /\ GateWell(ds)'
<1>0. GateWell(ds) /\ DatedWell(ds)  BY DEF AsOfInv
<1>1. DatedWell(ds)'  BY <1>0 DEF DatedWell
<1>2. ASSUME NEW p \in Parts \cup {"*"} PROVE GateAt(ds, p)'
  <2> DEFINE g == <<ds.name, p>>
  <2>1. \A w \in Dated(ds) : DatedIn(rows'[w.table], w, gates[g].day, told[g].read) = Latest(w, g)  BY LatestAt
  <2>2. GateAt(ds, p)  BY <1>0, <1>2 DEF GateWell
  <2> QED  BY <2>1, <2>2, GateKept
<1> QED  BY <1>1, <1>2 DEF GateWell

\* Every step keeps the gates.
LEMMA AsOfNext == KeysInv /\ AsOfInv /\ [SyncNext]_syncVars => AsOfInv'
<1> SUFFICES ASSUME KeysInv, AsOfInv, [SyncNext]_syncVars PROVE AsOfInv'  OBVIOUS
<1>0. group \in DOMAIN Groups /\ DOMAIN gates = GateKeys /\ DOMAIN told = GateKeys
  BY DEF KeysInv, WriterInv, AsOfInv
<1>1. group' = group  BY <1>0, SyncSteps DEF SyncNext, AddSymbol, NextDay, Prune, Purge, syncVars
<1>2. Mates' = Mates /\ GateKeys' = GateKeys  BY <1>1 DEF Mates, GateKeys
<1>3. DOMAIN gates' = DOMAIN gates /\ DOMAIN told' = DOMAIN told
  <2>1. ASSUME NEW e \in Mates, Sync(e) PROVE DOMAIN gates' = DOMAIN gates /\ DOMAIN told' = DOMAIN told
    BY <1>0, <2>1, SyncSteps, CommitGates
  <2>2. ASSUME Purge PROVE DOMAIN gates' = DOMAIN gates /\ DOMAIN told' = DOMAIN told  BY <2>2 DEF Purge
  <2> QED  BY <2>1, <2>2 DEF SyncNext, AddSymbol, NextDay, Prune, syncVars
<1>4. ASSUME NEW ds \in Mates, ds.gate = "asof" PROVE DatedWell(ds)' /\ GateWell(ds)'
  <2>1. \A w \in Dated(ds) : w.table \in Tables /\ w.table # "symbols"
    BY <1>0, <1>4, DatedForm DEF DatedFacts, TreatedByName
  <2>2. ASSUME NEW e \in Mates, Sync(e) PROVE DatedWell(ds)' /\ GateWell(ds)'
    <3>1. DatedWell(ds)'  BY <1>4, <2>2, DatedSync DEF AsOfInv
    <3>2. CASE e # ds  BY <1>4, <2>2, <3>1, <3>2, OtherSync
    <3>3. CASE e = ds
      <4>1. PICK ans, full :
               ans \in Answers(ds) /\ Commit(SyncOf(ds, ans, full)) /\ Synced(ds, SyncOf(ds, ans, full).stmts, ans)
        BY <1>0, <2>2, <3>3, SyncSteps
      <4> QED  BY <1>4, <3>1, <4>1, ShutSync, OpenSync
    <3> QED  BY <3>2, <3>3
  <2>3. ASSUME NEW x, AddSymbol(x) PROVE DatedWell(ds)' /\ GateWell(ds)'
    <3>1. gates' = gates /\ told' = told /\ \A w \in Dated(ds) : Untouched(w.table)  BY <2>1, <2>3, AddForm
    <3> QED  BY <1>4, <3>1, AsOfStay DEF Untouched
  <2>4. ASSUME NextDay \/ UNCHANGED syncVars PROVE DatedWell(ds)' /\ GateWell(ds)'
    BY <1>4, <2>4, AsOfStay DEF NextDay, syncVars
  <2> QED  BY <1>4, <2>2, <2>3, <2>4, AsOfPrune, AsOfPurge DEF SyncNext
<1> QED  BY <1>0, <1>2, <1>3, <1>4 DEF AsOfInv

\* Each gate by day knows its last answer, and the day it is dated holds that answer.
THEOREM SyncsKeepGates == SyncSpec => []AsOfInv
<1> QED  BY AsOfInit, AsOfNext, SyncsKeepKeys, PTL DEF SyncSpec

\* The latest day of a dated table is the last answer (datasets/asof_base.py).
THEOREM LatestIsTheAnswer == SyncSpec => []LatestIsAnswer
<1> QED  BY AsOfTells, SyncsKeepGates, PTL

\* No gate hides news: a dated table's latest day, a header's children and a history's
\* end are what the datasets were last answered, although the gates skip what
\* looks unchanged (datasets/asof_base.py, hash_gated.py, snapshot_base.py).
THEOREM GatesHideNothingNew == SyncSpec => []GatesHideNothing
<1>1. LatestIsAnswer /\ HeaderTellsChildren /\ HistoryEndsAtSnapshot => GatesHideNothing  BY DEF GatesHideNothing
<1> QED  BY <1>1, LatestIsTheAnswer, HeadersTellTheirChildren, HistoriesEndAtSnapshots, PTL

===============================================================================

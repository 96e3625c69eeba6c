------------------------------ MODULE MCShardRun ------------------------------
(* Small instances of ShardRun: the sequences and sets its configurations use. *)
EXTENDS ShardRun

CONSTANTS p1, p2, w1, w2

OneShard == {p1}
TwoShards == {p1, p2}
OneWorker == {w1}

TwoSymbols == <<"AAPL", "MSFT">>
FourSymbols == <<"AAPL", "MSFT", "TSLA", "NVDA">>

KnownReplies == {"ok", "unreached", "unknown", "crashed"}
TransportReplies == {"ok", "one_fault", "two_faults", "unreached"}

\* A proxy that was never used, and one left with a failure and a past round.
FreshRows == {Fresh}
WornRows == {Fresh, [Fresh EXCEPT !.failures = 1, !.rounds = 1]}
===============================================================================

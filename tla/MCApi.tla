--------------------------------- MODULE MCApi ---------------------------------
(* A small instance of Api: one client, and how much of each kind may happen. *)
EXTENDS Api, TLC

CONSTANTS o1, o2, a1, a2, r1, r2, r3, f1, f2

TwoOperators == {o1, o2}
TwoAttempts == {a1, a2}
ThreeRequests == {r1, r2, r3}
TwoFlushers == {f1, f2}
Interchangeable == Permutations({o1, o2}) \cup Permutations({a1, a2}) \cup Permutations({r1, r2, r3}) \cup Permutations({f1, f2})

Left(changes, attempts, requests, ends, flushes, faults, kills, edits, pages) ==
    [changes |-> changes, attempts |-> attempts, requests |-> requests, ends |-> ends,
     flushes |-> flushes, faults |-> faults, kills |-> kills,
     edits |-> edits, pages |-> pages]

\* Commands against tokens and attempts; requests against each other, against
\* failed calls, killed processes and a flush; a command against a request; pages against
\* what changes the rows.
AllBudgets ==
    {Left(2, 1, 0, 0, 0, 0, 0, 0, 0), Left(1, 1, 0, 0, 0, 1, 0, 0, 0), Left(0, 3, 0, 0, 0, 2, 0, 0, 0),
     Left(0, 0, 3, 0, 0, 0, 0, 0, 0), Left(0, 0, 2, 2, 0, 0, 0, 0, 0), Left(0, 0, 2, 0, 0, 1, 0, 0, 0), Left(0, 0, 2, 0, 0, 0, 1, 0, 0), Left(0, 0, 1, 1, 0, 1, 1, 0, 0),
     Left(0, 0, 2, 0, 1, 0, 0, 0, 0), Left(0, 0, 1, 0, 2, 1, 0, 0, 0),
     Left(1, 0, 1, 0, 0, 0, 0, 0, 0),
     Left(0, 0, 0, 0, 0, 0, 0, 2, 4), Left(0, 0, 0, 0, 0, 0, 0, 3, 3)}

\* One collection, walked while nothing else happens.
WalkOnly == {Left(0, 0, 0, 0, 0, 0, 0, 0, 3)}
================================================================================

------------------------------ MODULE ProxyHealth ------------------------------
(***************************************************************************)
(* The proxy health policy: src/yfin/proxy/health.py, a pure state machine *)
(* that a shard applies in memory and that is applied again to the row of  *)
(* the proxy, and the eligibility query of src/yfin/proxy/repository.py.   *)
(*                                                                         *)
(* `resting` stands for a cooldown_until that has not passed: a run is     *)
(* shorter than the cooldown here, so only an event clears it.             *)
(***************************************************************************)
EXTENDS Naturals

CONSTANTS
    FailureThreshold,  \* ProxyPolicy.failure_threshold
    DeadRounds         \* ProxyPolicy.dead_rounds

ASSUME PolicyAssumption ==
    /\ FailureThreshold \in Nat \ {0}
    /\ DeadRounds \in Nat \ {0}

Health == [health : {"unknown", "healthy", "cooldown", "dead"},
           failures : Nat, rounds : Nat, resting : BOOLEAN]

Fresh == [health |-> "unknown", failures |-> 0, rounds |-> 0, resting |-> FALSE]

Withdrawn(h) == h.health \in {"cooldown", "dead"}

Eligible(h) == h.health # "dead" /\ ~h.resting

Cooldown(h) ==
    [health   |-> IF h.rounds + 1 >= DeadRounds THEN "dead" ELSE "cooldown",
     failures |-> 0, rounds |-> h.rounds + 1, resting |-> TRUE]

\* apply_outcome for each kind of event; "dead" absorbs every one of them.
Success(h) ==
    IF h.health = "dead" THEN h
    ELSE [h EXCEPT !.health = "healthy", !.failures = 0, !.resting = FALSE]

Fault(h) ==
    IF h.health = "dead" THEN h
    ELSE IF h.failures + 1 >= FailureThreshold THEN Cooldown(h)
    ELSE [h EXCEPT !.failures = @ + 1]

Crash(h) == IF h.health = "dead" THEN h ELSE Cooldown(h)
===============================================================================

--------------------------- MODULE AtLeastOnceQueue ---------------------------
(***************************************************************************)
(* What the transactional outbox promises (outbox/relay.py, module         *)
(* docstring): a message whose transaction committed reaches the broker at *)
(* least once, and the queue may forget it only after that.  Nothing else  *)
(* is promised here: deliveries may repeat and may come in any order.      *)
(***************************************************************************)
VARIABLES
    committed,  \* messages whose writing transaction has committed
    delivered,  \* messages the broker has acknowledged at least once
    done        \* messages the queue will never offer again

vars == <<committed, delivered, done>>

Init ==
    /\ committed = {}
    /\ delivered = {}
    /\ done = {}

\* A transaction commits: its messages enter the queue, none already done.
Commit ==
    /\ committed \subseteq committed'
    /\ UNCHANGED <<delivered, done>>

\* The broker acknowledges messages, and only committed ones.
Deliver ==
    /\ delivered \subseteq delivered'
    /\ delivered' \subseteq committed
    /\ UNCHANGED <<committed, done>>

\* The queue forgets messages, and only delivered ones.
Forget ==
    /\ done \subseteq done'
    /\ done' \subseteq delivered
    /\ UNCHANGED <<committed, delivered>>

Next == Commit \/ Deliver \/ Forget

Spec == Init /\ [][Next]_vars
===============================================================================

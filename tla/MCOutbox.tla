------------------------------- MODULE MCOutbox -------------------------------
(* Small instances of Outbox: the sets its configurations choose from. *)
EXTENDS Outbox

CONSTANTS t1, t2, t3, k1, k2

TwoTxns == {t1, t2}
ThreeTxns == {t1, t2, t3}
OneKey == {k1}
TwoKeys == {k1, k2}
===============================================================================

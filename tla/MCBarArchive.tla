----------------------------- MODULE MCBarArchive -----------------------------
(* Small instances of BarArchive: the sets its configurations use. *)
EXTENDS BarArchive

OldAndDay5 == {2, 5}
OnDay6 == {6}
SomeDays == {2}
===============================================================================

---------------------------- MODULE MCStreamIngest ----------------------------
(* Small instances of StreamIngest: the sets its configurations choose from. *)
EXTENDS StreamIngest

CONSTANTS s1, s2

OneSymbol == {s1}
TwoSymbols == {s1, s2}
===============================================================================

--------------------------- MODULE MCStreamScope ---------------------------
(* Three symbols on two exchanges, one to a connection: an exchange may fit on
   its bare name or need several parts, and three connections are one too many. *)
EXTENDS StreamScope

MCScopes == {[s \in Symbols |-> IF s = 3 THEN "out" ELSE "archived"]}

MCHomes == {[s \in Symbols |-> IF s = 2 THEN "b" ELSE "a"]}

B(edits, faults, stops, messages) ==
    [w \in {"edits", "faults", "stops", "messages"} |->
        CASE w = "edits" -> edits [] w = "faults" -> faults
          [] w = "stops" -> stops [] OTHER -> messages]

MCBudgets ==
    {B(2, 0, 0, 0), B(1, 1, 0, 0), B(1, 0, 1, 0), B(1, 0, 0, 1), B(0, 1, 1, 1)}
=============================================================================

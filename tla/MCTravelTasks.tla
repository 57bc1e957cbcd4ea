---------------------------- MODULE MCTravelTasks ----------------------------
(* Instances of TravelTasks for TLC: two runs of each kind that the loop and *)
(* the panel, or the panel and the tray, start.                              *)
EXTENDS TravelTasks

MCKindOf == [r \in Run |-> CASE r \in {"loop", "panel"} -> "travel"
                             [] r \in {"page", "tray"}  -> "refresh"
                             [] OTHER -> r]
=============================================================================

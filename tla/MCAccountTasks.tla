--------------------------- MODULE MCAccountTasks ---------------------------
(* Instances of AccountTasks for TLC.                                      *)
EXTENDS AccountTasks

MCKindsOf == [t \in Task |-> IF t = "panel" THEN {"checkin", "refresh"}
                             ELSE {"keepalive", "checkin"}]
=============================================================================

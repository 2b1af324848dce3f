---------------------------- MODULE MCDeliveries ----------------------------
(* A schedule without a clock, and one whose date has come; the daemon has *)
(* seen either (Schedules_due starts with one it has not).                  *)
EXTENDS Deliveries

MCPlan == {"hook", "date"}
MCFires == [p \in MCPlan |-> IF p = "hook" THEN {} ELSE {1}]
MCOnce == {"date"}

SeenInit == Init /\ row.seen = 1
SeenSpec == SeenInit /\ [][Next]_vars /\ Fairness
=============================================================================

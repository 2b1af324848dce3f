---------------------------- MODULE MCSchedules ----------------------------
(* A date that may be moved, and a plan with two occurrences. *)
EXTENDS Schedules

MCPlan == {"early", "late", "daily"}
MCFires == [p \in MCPlan |-> CASE p = "early" -> {1} [] p = "late" -> {2} [] p = "daily" -> {1, 2}]
MCOnce == {"early", "late"}
=============================================================================

------------------------------- MODULE MCLane -------------------------------
(* Lane with few writers, terminals and slots, given in Lane_turns.cfg. *)
EXTENDS Lane
=============================================================================

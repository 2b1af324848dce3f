--------------------------- MODULE MCSequenceFence ---------------------------
(* Two fences on one file: a machine and a viewer of one daemon. *)
EXTENDS SequenceFence

CONSTANTS machine, viewer
MCSenderOf == [f \in Fence |-> IF f = machine THEN "machine_id" ELSE "viewer_id"]
=============================================================================

---------------------------- MODULE MCCloudSpool ----------------------------
(* CloudSpool with one recipient of each kind and few sequences. *)
EXTENDS CloudSpool

CONSTANT machine
MCSenderOf == [f \in Fence |-> "machine_id"]
=============================================================================

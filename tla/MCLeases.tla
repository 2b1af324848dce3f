------------------------------ MODULE MCLeases ------------------------------
(* Small instances of Leases for TLC. *)
EXTENDS Leases

MCCompile  == "heavy_compile"
MCRestart  == "daemon_restart"
MCCheckout == {"landing"}

(* Who wants what. *)
WantsFour    == <<MCCompile, MCRestart, MCCompile, MCCompile>>
WantsCompile == <<MCCompile, MCCompile, MCCompile>>
WantsRestart == <<MCCompile, MCRestart>>

(* Who names which proof of life. *)
NamesPid        == [a \in Asker |-> {"pid"}]
NamesSome       == [a \in Asker |-> IF a = 1 THEN {"pid", "session"} ELSE {"pid"}]
FirstIsNameless == [a \in Asker |-> IF a = 1 THEN {} ELSE {"pid"}]
=============================================================================

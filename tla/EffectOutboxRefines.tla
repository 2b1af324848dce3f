------------------------ MODULE EffectOutboxRefines ------------------------
(***************************************************************************)
(* The outbox and its receipts implement OnceOnly.  The refinement         *)
(* mapping: a key stands for its receipt's digest, its line is sent when   *)
(* the effect of one of its rows took place, and its answer is what the    *)
(* receipt was completed with, which a tombstone forgets but a history     *)
(* variable does not.                                                      *)
(***************************************************************************)
EXTENDS EffectOutbox

VARIABLE filed   \* history: the answer each key's receipt was completed with

FiledInit == filed = [k \in Key |-> "none"]

FiledNext ==
  filed' = [k \in Key |->
              IF receipts[k].state = "pending" /\ receipts'[k].state = "complete"
              THEN receipts'[k].answer ELSE filed[k]]

SpecFiled == (Init /\ FiledInit) /\ [][Next /\ FiledNext]_<<vars, filed>>

Asked == [k \in Key |-> receipts[k].digest]
Sent  == {k \in Key : \E i \in RowsOf(k) : typed[i] > 0}

(* Every behaviour of the store, the broker and their crashes is, seen     *)
(* through the mapping, a behaviour of OnceOnly.                           *)
Promise == INSTANCE OnceOnly WITH
  Request <- Digest, NoRequest <- None,
  asked <- Asked, sent <- Sent, answer <- filed

PromiseKept == Promise!Spec
=============================================================================

------------------------------ MODULE OnceOnly ------------------------------
(***************************************************************************)
(* What an Idempotency-Key promises, with no store, handle or crash in it: *)
(* a request is admitted, its line is sent at most once, and either the    *)
(* key is given back unsent, to be used afresh, or one answer is filed     *)
(* under it and never another; "delivered" is answered only for a line     *)
(* that was sent.                                                          *)
(***************************************************************************)
CONSTANTS Key, Request, NoRequest

VARIABLES
  asked,   \* the request each key stands for, NoRequest while it is free
  sent,    \* the keys whose line was sent
  answer   \* what was answered under each key, "none" before

Answers == {"delivered", "failed", "unknown"}

Init ==
  /\ asked = [k \in Key |-> NoRequest]
  /\ sent = {}
  /\ answer = [k \in Key |-> "none"]

Admit(k, r) ==
  /\ asked[k] = NoRequest
  /\ asked' = [asked EXCEPT ![k] = r]
  /\ UNCHANGED <<sent, answer>>

Send(k) ==
  /\ asked[k] # NoRequest /\ answer[k] = "none" /\ k \notin sent
  /\ sent' = sent \cup {k}
  /\ UNCHANGED <<asked, answer>>

GiveBack(k) ==
  /\ asked[k] # NoRequest /\ answer[k] = "none" /\ k \notin sent
  /\ asked' = [asked EXCEPT ![k] = NoRequest]
  /\ UNCHANGED <<sent, answer>>

AnswerWith(k, a) ==
  /\ asked[k] # NoRequest /\ answer[k] = "none"
  /\ a = "delivered" => k \in sent
  /\ answer' = [answer EXCEPT ![k] = a]
  /\ UNCHANGED <<asked, sent>>

Next ==
  \E k \in Key :
    \/ \E r \in Request : Admit(k, r)
    \/ Send(k) \/ GiveBack(k)
    \/ \E a \in Answers : AnswerWith(k, a)

Spec == Init /\ [][Next]_<<asked, sent, answer>>
=============================================================================

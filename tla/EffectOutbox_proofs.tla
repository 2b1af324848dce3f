------------------------ MODULE EffectOutbox_proofs ------------------------
(***************************************************************************)
(* Proofs about EffectOutbox: types, and that an owed effect owns its      *)
(* request's receipt.                                                      *)
(***************************************************************************)
EXTENDS EffectOutbox, TLAPS

-----------------------------------------------------------------------------
(* The inductive invariant.                                                *)

(* A goroutine at work belongs to a running handle. *)
ThreadsLive ==
  \A t \in Thread : thread[t].pc # "idle" => At(t) \in Handle /\ life[At(t)] = "up"

(* Goroutines refer to rows that were recorded, and to keys they claimed.  *)
Refers(t) ==
  /\ thread[t].todo \subseteq 1 .. lastId
  /\ thread[t].pc \in {"reserved", "refusing", "orphaned"} =>
       thread[t].key \in Key /\ thread[t].digest \in Digest
  /\ thread[t].pc \in {"holds", "started", "ended", "releasing"} =>
       thread[t].cur \in 1 .. lastId
  /\ thread[t].pc = "releasing" => Cur(t).receipt \in Key

ThreadsRefer == \A t \in Thread : Refers(t)

FreshRows == \A i \in RowId : i > lastId => outbox[i] = NoRow

(* The key a goroutine has reserved and must still answer or give back.    *)
ReservedKey(t) ==
  IF thread[t].pc \in {"reserved", "refusing", "orphaned"} THEN thread[t].key
  ELSE IF thread[t].pc = "releasing" THEN Cur(t).receipt ELSE None

(* It is pending under the goroutine's own handle and owes no effect.      *)
ReservationsHeld ==
  \A t \in Thread : ReservedKey(t) # None =>
    LET r == receipts[ReservedKey(t)] IN
    /\ r.state = "pending" /\ r.owner = At(t)
    /\ thread[t].pc = "reserved" => r.digest = thread[t].digest
    /\ \A i \in RowId : OpenRow(i) => outbox[i].receipt # ReservedKey(t)

ReservationsApart ==
  \A t, u \in Thread :
    ReservedKey(t) # None /\ ReservedKey(t) = ReservedKey(u) => t = u

OneOpenRow ==
  \A i, j \in RowId :
    OpenRow(i) /\ OpenRow(j) /\ outbox[i].receipt # None
      /\ outbox[i].receipt = outbox[j].receipt => i = j

(* What OpenEffectOwnsReceipt needs to be kept by every step.              *)
IInv ==
  /\ TypeOK
  /\ ThreadsLive
  /\ ThreadsRefer
  /\ FreshRows
  /\ ReservationsHeld
  /\ ReservationsApart
  /\ OneOpenRow
  /\ OpenEffectOwnsReceipt

-----------------------------------------------------------------------------
(* Types: what one update does, then every action.                         *)

LEMMA ThreadTyped == ASSUME TypeOK, NEW t \in Thread
                     PROVE  thread[t] \in Goroutine
BY DEF TypeOK

LEMMA ThreadUpdate == ASSUME TypeOK, NEW t \in Thread, NEW g \in Goroutine,
                             thread' = [thread EXCEPT ![t] = g]
                      PROVE  thread' \in [Thread -> Goroutine]
BY DEF TypeOK

LEMMA IdleTyped == Idle \in Goroutine
BY DEF Idle, Goroutine

LEMMA GotoTyped ==
  ASSUME TypeOK, NEW t \in Thread,
         NEW pc \in {"idle", "reserved", "refusing", "orphaned",
                     "next", "holds", "started", "ended", "releasing"},
         Goto(t, pc)
  PROVE  thread' \in [Thread -> Goroutine]
<1> DEFINE g == [thread[t] EXCEPT !.pc = pc]
<1>1. g \in Goroutine
  BY ThreadTyped DEF Goroutine
<1>2. thread' = [thread EXCEPT ![t] = g]
  BY DEF Goto
<1> QED
  BY <1>1, <1>2, ThreadUpdate

LEMMA LeaveTyped == ASSUME TypeOK, NEW t \in Thread, Leave(t)
                    PROVE  thread' \in [Thread -> Goroutine]
BY IdleTyped, ThreadUpdate DEF Leave

LEMMA DropTyped == ASSUME TypeOK, NEW t \in Thread, NEW i \in RowId, Drop(t, i)
                   PROVE  thread' \in [Thread -> Goroutine]
<1> DEFINE g == [thread[t] EXCEPT !.todo = @ \ {i}]
<1>1. g \in Goroutine
  BY ThreadTyped DEF Goroutine
<1>2. thread' = [thread EXCEPT ![t] = g]
  BY DEF Drop
<1> QED
  BY <1>1, <1>2, ThreadUpdate

LEMMA TookTyped == ASSUME TypeOK, NEW t \in Thread,
                          NEW res \in {"typed", "refused", "error"}, Took(t, res)
                   PROVE  thread' \in [Thread -> Goroutine]
<1> DEFINE g == [thread[t] EXCEPT !.pc = "ended", !.res = res]
<1>1. g \in Goroutine
  BY ThreadTyped DEF Goroutine
<1>2. thread' = [thread EXCEPT ![t] = g]
  BY DEF Took
<1> QED
  BY <1>1, <1>2, ThreadUpdate

LEMMA UnholdTyped == ASSUME TypeOK, NEW t \in Thread, Unhold(t)
                     PROVE  /\ thread' \in [Thread -> Goroutine]
                            /\ held' \in [Handle -> SUBSET RowId]
<1> DEFINE g == [thread[t] EXCEPT !.pc = "next", !.cur = 0, !.res = "none"]
<1>1. g \in Goroutine
  BY ThreadTyped DEF Goroutine
<1>2. thread' = [thread EXCEPT ![t] = g]
  BY DEF Unhold
<1>3. thread' \in [Thread -> Goroutine]
  BY <1>1, <1>2, ThreadUpdate
<1>4. held' \in [Handle -> SUBSET RowId]
  BY DEF Unhold, TypeOK
<1> QED
  BY <1>3, <1>4

LEMMA RowTyped ==
  ASSUME TypeOK, NEW i,
         NEW s \in {"none", "pending", "started", "done", "failed", "unknown"},
         outbox' = [outbox EXCEPT ![i].state = s]
  PROVE  outbox' \in [RowId -> Row]
<1> DEFINE r == [outbox[i] EXCEPT !.state = s]
<1>1. outbox \in [RowId -> Row]
  BY DEF TypeOK
<1>2. i \in RowId => r \in Row
  BY <1>1 DEF Row
<1>3. outbox' = [outbox EXCEPT ![i] = r]
  OBVIOUS
<1> QED
  BY <1>1, <1>2, <1>3

LEMMA ReceiptUpdate ==
  ASSUME TypeOK, NEW k, NEW r, k \in Key => r \in Receipt,
         receipts' = [receipts EXCEPT ![k] = r]
  PROVE  receipts' \in [Key -> Receipt]
BY DEF TypeOK

LEMMA CompletedTyped == ASSUME TypeOK, NEW k \in Key, NEW a \in Answer
                        PROVE  Completed(k, a) \in Receipt
<1>1. receipts[k] \in Receipt
  BY DEF TypeOK
<1> QED
  BY <1>1 DEF Receipt, Completed

LEMMA ReleasedTyped == ASSUME TypeOK, NEW h, NEW k, receipts' = Released(h, k)
                       PROVE  receipts' \in [Key -> Receipt]
<1>1. NoReceipt \in Receipt
  BY DEF NoReceipt, Receipt
<1>2. receipts \in [Key -> Receipt]
  BY DEF TypeOK
<1> QED
  BY <1>1, <1>2 DEF Released

LEMMA FinishTyped ==
  ASSUME TypeOK, NEW h, NEW i, NEW s \in {"done", "failed", "unknown"},
         NEW a \in Answer \cup {None}, FinishEffect(h, i, s, a)
  PROVE  outbox' \in [RowId -> Row] /\ receipts' \in [Key -> Receipt]
<1>1. outbox' \in [RowId -> Row]
  BY RowTyped DEF FinishEffect
<1>2. CASE receipts' = receipts
  BY <1>1, <1>2 DEF TypeOK
<1>3. CASE /\ a # None
           /\ receipts' = [receipts EXCEPT ![outbox[i].receipt] = Completed(outbox[i].receipt, a)]
  <2>1. a \in Answer
    BY <1>3
  <2>2. outbox[i].receipt \in Key => Completed(outbox[i].receipt, a) \in Receipt
    BY <2>1, CompletedTyped
  <2> QED
    BY <1>1, <1>3, <2>2, ReceiptUpdate
<1> QED
  BY <1>2, <1>3 DEF FinishEffect

LEMMA TypeStep == ASSUME TypeOK, ThreadsRefer, [Next]_vars PROVE TypeOK'
<1> USE OutboxAssumption DEF OutboxAssumption
<1>1. ASSUME NEW c \in Caller, NEW h \in Handle, NEW k \in Key, NEW d \in Digest, ClaimNew(c, h, k, d)
      PROVE  TypeOK'
  <2>1. (thread \in [Thread -> Goroutine])'
    BY <1>1 DEF TypeOK, ClaimNew, Goroutine, Thread, Idle
  <2>2. (receipts \in [Key -> Receipt])'
    BY <1>1 DEF TypeOK, ClaimNew, Receipt
  <2>3. (aged \subseteq Key)'
    BY <1>1 DEF TypeOK, ClaimNew
  <2> QED
    BY <1>1, <2>1, <2>2, <2>3 DEF TypeOK, ClaimNew
<1>2. ASSUME NEW c \in Caller, NEW h \in Handle, NEW k \in Key, NEW d \in Digest, ClaimReplay(c, h, k, d)
      PROVE  TypeOK'
  <2>1. (told \in [Key -> SUBSET ((Digest \cup {None}) \X (Answer \cup {None}))])'
    <3>1. told \in [Key -> SUBSET ((Digest \cup {None}) \X (Answer \cup {None}))]
      BY DEF TypeOK
    <3>2. <<d, receipts[k].answer>> \in (Digest \cup {None}) \X (Answer \cup {None})
      <4>1. receipts[k] \in Receipt
        BY DEF TypeOK
      <4> QED
        BY <4>1 DEF Receipt
    <3> QED
      BY <1>2, <3>1, <3>2 DEF ClaimReplay
  <2> QED
    BY <1>2, <2>1 DEF TypeOK, ClaimReplay
<1>3. ASSUME NEW c \in Caller, NEW h \in Handle, NEW k \in Key, NEW d \in Digest, ClaimExpires(c, h, k, d)
      PROVE  TypeOK'
  <2>1. (receipts \in [Key -> Receipt])'
    <3> DEFINE r == [receipts[k] EXCEPT !.state = "expired", !.answer = None]
    <3>1. receipts[k] \in Receipt
      BY DEF TypeOK
    <3>2. r \in Receipt
      BY <3>1 DEF Receipt
    <3>3. receipts' = [receipts EXCEPT ![k] = r]
      BY <1>3 DEF ClaimExpires
    <3> QED
      BY <3>2, <3>3, ReceiptUpdate
  <2> QED
    BY <1>3, <2>1 DEF TypeOK, ClaimExpires
<1>4. ASSUME NEW c \in Caller, NEW h \in Handle, NEW k \in Key, NEW d \in Digest, ClaimOrphaned(c, h, k, d)
      PROVE  TypeOK'
  <2>1. (thread \in [Thread -> Goroutine])'
    BY <1>4 DEF TypeOK, ClaimOrphaned, Goroutine, Thread, Idle
  <2>2. (receipts \in [Key -> Receipt])'
    <3> DEFINE r == [receipts[k] EXCEPT !.owner = h]
    <3>1. receipts[k] \in Receipt
      BY DEF TypeOK
    <3>2. r \in Receipt
      BY <3>1 DEF Receipt
    <3>3. receipts' = [receipts EXCEPT ![k] = r]
      BY <1>4 DEF ClaimOrphaned
    <3> QED
      BY <3>2, <3>3, ReceiptUpdate
  <2> QED
    BY <1>4, <2>1, <2>2 DEF TypeOK, ClaimOrphaned
<1>5. ASSUME NEW c \in Caller, CompleteOrphan(c)
      PROVE  TypeOK'
  <2>1. (thread \in [Thread -> Goroutine])'
    BY <1>5, LeaveTyped DEF CompleteOrphan, Thread
  <2>2. (receipts \in [Key -> Receipt])'
    <3>1. receipts' = [receipts EXCEPT ![thread[c].key] = Completed(thread[c].key, "unknown")]
      BY <1>5 DEF CompleteOrphan
    <3>2. thread[c].key \in Key => Completed(thread[c].key, "unknown") \in Receipt
      BY CompletedTyped DEF Answer
    <3> QED
      BY <3>1, <3>2, ReceiptUpdate
  <2>3. (told \in [Key -> SUBSET ((Digest \cup {None}) \X (Answer \cup {None}))])'
    <3>1. told \in [Key -> SUBSET ((Digest \cup {None}) \X (Answer \cup {None}))]
      BY DEF TypeOK
    <3>2. <<thread[c].digest, "unknown">> \in (Digest \cup {None}) \X (Answer \cup {None})
      BY ThreadTyped DEF Thread, Goroutine, Answer
    <3> QED
      BY <1>5, <3>1, <3>2 DEF CompleteOrphan
  <2> QED
    BY <1>5, <2>1, <2>2, <2>3 DEF TypeOK, CompleteOrphan
<1>6. ASSUME NEW c \in Caller, CompleteOrphanFails(c)
      PROVE  TypeOK'
  <2>1. (thread \in [Thread -> Goroutine])'
    BY <1>6, LeaveTyped DEF CompleteOrphanFails, Thread
  <2>2. (faults \in 0 .. MaxFaults)'
    BY <1>6 DEF TypeOK, CompleteOrphanFails, Fault
  <2> QED
    BY <1>6, <2>1, <2>2 DEF TypeOK, CompleteOrphanFails
<1>7. ASSUME NEW c \in Caller, Refuse(c)
      PROVE  TypeOK'
  <2>1. (thread \in [Thread -> Goroutine])'
    BY <1>7, GotoTyped DEF Refuse, Thread
  <2> QED
    BY <1>7, <2>1 DEF TypeOK, Refuse
<1>8. ASSUME NEW c \in Caller, GiveBack(c)
      PROVE  TypeOK'
  <2>1. (thread \in [Thread -> Goroutine])'
    BY <1>8, LeaveTyped DEF GiveBack, Thread
  <2>2. (receipts \in [Key -> Receipt])'
    BY <1>8, ReleasedTyped DEF GiveBack
  <2> QED
    BY <1>8, <2>1, <2>2 DEF TypeOK, GiveBack
<1>9. ASSUME NEW c \in Caller, GiveBackFails(c)
      PROVE  TypeOK'
  <2>1. (thread \in [Thread -> Goroutine])'
    BY <1>9, LeaveTyped DEF GiveBackFails, Thread
  <2>2. (faults \in 0 .. MaxFaults)'
    BY <1>9 DEF TypeOK, GiveBackFails, Fault
  <2> QED
    BY <1>9, <2>1, <2>2 DEF TypeOK, GiveBackFails
<1>10. ASSUME NEW c \in Caller, RecordMessage(c)
      PROVE  TypeOK'
  <2>1. (thread \in [Thread -> Goroutine])'
    <3> DEFINE g == [thread[c] EXCEPT !.pc = "next", !.todo = {lastId + 1}]
    <3>1. lastId + 1 \in RowId
      BY <1>10 DEF RecordMessage, TypeOK, RowId
    <3>2. g \in Goroutine
      BY <3>1, ThreadTyped DEF Goroutine, Thread
    <3>3. thread' = [thread EXCEPT ![c] = g]
      BY <1>10 DEF RecordMessage
    <3> QED
      BY <3>2, <3>3, ThreadUpdate DEF Thread
  <2>2. (outbox \in [RowId -> Row])'
    BY <1>10 DEF TypeOK, RecordMessage, Row, Goroutine, Thread, At, RowId
  <2>3. (lastId \in 0 .. MaxRows)'
    BY <1>10 DEF TypeOK, RecordMessage
  <2> QED
    BY <1>10, <2>1, <2>2, <2>3 DEF TypeOK, RecordMessage
<1>11. ASSUME NEW c \in Caller, NEW h \in Handle, NEW kind \in Kind, NEW n \in BatchSizes, RecordBatch(c, h, kind, n)
      PROVE  TypeOK'
  <2>1. (thread \in [Thread -> Goroutine])'
    <3> DEFINE ids == (lastId + 1) .. (lastId + n)
               g == [Idle EXCEPT !.pc = "next", !.at = h, !.todo = ids]
    <3>1. ids \subseteq RowId
      BY <1>11 DEF RecordBatch, TypeOK, RowId
    <3>2. g \in Goroutine
      BY <3>1 DEF Goroutine, Idle
    <3>3. thread' = [thread EXCEPT ![c] = g]
      BY <1>11 DEF RecordBatch
    <3> QED
      BY <3>2, <3>3, ThreadUpdate DEF Thread
  <2>2. (outbox \in [RowId -> Row])'
    BY <1>11 DEF TypeOK, RecordBatch, Row, RowId
  <2>3. (lastId \in 0 .. MaxRows)'
    BY <1>11 DEF TypeOK, RecordBatch
  <2> QED
    BY <1>11, <2>1, <2>2, <2>3 DEF TypeOK, RecordBatch
<1>12. ASSUME NEW t \in Thread, Return(t)
      PROVE  TypeOK'
  <2>1. (thread \in [Thread -> Goroutine])'
    BY <1>12, LeaveTyped DEF Return, Thread
  <2> QED
    BY <1>12, <2>1 DEF TypeOK, Return
<1>13. ASSUME NEW t \in Thread, NEW i \in RowId, SettleUnknown(t, i)
      PROVE  TypeOK'
  <2>1. (thread \in [Thread -> Goroutine])'
    BY <1>13, DropTyped DEF SettleUnknown, Thread
  <2>2. (receipts \in [Key -> Receipt])'
    BY <1>13, FinishTyped DEF SettleUnknown, Answer, TypeOK
  <2>3. (outbox \in [RowId -> Row])'
    BY <1>13, FinishTyped DEF SettleUnknown, Answer, TypeOK
  <2>4. (faults \in 0 .. MaxFaults)'
    BY <1>13 DEF TypeOK, SettleUnknown, Fault
  <2> QED
    BY <1>13, <2>1, <2>2, <2>3, <2>4 DEF TypeOK, SettleUnknown
<1>14. ASSUME NEW t \in Thread, NEW i \in RowId, Hold(t, i)
      PROVE  TypeOK'
  <2>1. (thread \in [Thread -> Goroutine])'
    <3> DEFINE g == [thread[t] EXCEPT !.pc = "holds", !.cur = i, !.todo = @ \ {i}]
    <3>1. g \in Goroutine
      BY ThreadTyped DEF Goroutine
    <3>2. thread' = [thread EXCEPT ![t] = g]
      BY <1>14 DEF Hold
    <3> QED
      BY <3>1, <3>2, ThreadUpdate
  <2>2. (held \in [Handle -> SUBSET RowId])'
    BY <1>14 DEF TypeOK, Hold
  <2> QED
    BY <1>14, <2>1, <2>2 DEF TypeOK, Hold
<1>15. ASSUME NEW t \in Thread, NEW i \in RowId, HoldRefused(t, i)
      PROVE  TypeOK'
  <2>1. (thread \in [Thread -> Goroutine])'
    BY <1>15, DropTyped DEF HoldRefused, Thread
  <2> QED
    BY <1>15, <2>1 DEF TypeOK, HoldRefused
<1>16. ASSUME NEW t \in Thread, StartEffect(t)
      PROVE  TypeOK'
  <2>1. (thread \in [Thread -> Goroutine])'
    BY <1>16, GotoTyped DEF StartEffect, Thread
  <2>2. (outbox \in [RowId -> Row])'
    BY <1>16, RowTyped DEF StartEffect
  <2> QED
    BY <1>16, <2>1, <2>2 DEF TypeOK, StartEffect
<1>17. ASSUME NEW t \in Thread, StartFails(t)
      PROVE  TypeOK'
  <2>1. (thread \in [Thread -> Goroutine])'
    BY <1>17, UnholdTyped DEF StartFails, Thread
  <2>2. (held \in [Handle -> SUBSET RowId])'
    BY <1>17, UnholdTyped DEF StartFails, Thread
  <2>3. (faults \in 0 .. MaxFaults)'
    BY <1>17 DEF TypeOK, StartFails, Fault
  <2> QED
    BY <1>17, <2>1, <2>2, <2>3 DEF TypeOK, StartFails
<1>18. ASSUME NEW t \in Thread, Attempt(t)
      PROVE  TypeOK'
  <2>1. (thread \in [Thread -> Goroutine])'
    BY <1>18, TookTyped DEF Attempt, Thread
  <2>2. (typed \in [RowId -> 0 .. 2])'
    BY <1>18 DEF TypeOK, Attempt
  <2> QED
    BY <1>18, <2>1, <2>2 DEF TypeOK, Attempt
<1>19. ASSUME NEW t \in Thread, Finish(t)
      PROVE  TypeOK'
  <2>1. (thread \in [Thread -> Goroutine])'
    BY <1>19, GotoTyped, UnholdTyped DEF Finish, Thread
  <2>2. (held \in [Handle -> SUBSET RowId])'
    BY <1>19, UnholdTyped DEF Finish, TypeOK
  <2>3. (receipts \in [Key -> Receipt])'
    BY <1>19, FinishTyped DEF Finish, EndState, EndAnswer, Answer
  <2>4. (outbox \in [RowId -> Row])'
    BY <1>19, FinishTyped DEF Finish, EndState, EndAnswer, Answer
  <2>5. (told \in [Key -> SUBSET ((Digest \cup {None}) \X (Answer \cup {None}))])'
    <3>1. told \in [Key -> SUBSET ((Digest \cup {None}) \X (Answer \cup {None}))]
      BY DEF TypeOK
    <3>2. thread[t].cur \in RowId
      BY <1>19 DEF Finish, ThreadsRefer, Refers, TypeOK, RowId
    <3>3. Cur(t).digest \in Digest \cup {None}
      BY <3>2 DEF TypeOK, Row, Cur
    <3>4. EndAnswer(t) \in Answer \cup {None}
      BY DEF EndAnswer, Answer
    <3>5. <<Cur(t).digest, EndAnswer(t)>> \in (Digest \cup {None}) \X (Answer \cup {None})
      BY <3>3, <3>4
    <3> QED
      BY <1>19, <3>1, <3>5 DEF Finish, Tell
  <2> QED
    BY <1>19, <2>1, <2>2, <2>3, <2>4, <2>5 DEF TypeOK, Finish
<1>20. ASSUME NEW t \in Thread, FinishFails(t)
      PROVE  TypeOK'
  <2>1. (thread \in [Thread -> Goroutine])'
    BY <1>20, UnholdTyped DEF FinishFails, Thread
  <2>2. (held \in [Handle -> SUBSET RowId])'
    BY <1>20, UnholdTyped DEF FinishFails, Thread
  <2>3. (faults \in 0 .. MaxFaults)'
    BY <1>20 DEF TypeOK, FinishFails, Fault
  <2> QED
    BY <1>20, <2>1, <2>2, <2>3 DEF TypeOK, FinishFails
<1>21. ASSUME NEW t \in Thread, ReleaseAfter(t)
      PROVE  TypeOK'
  <2>1. (thread \in [Thread -> Goroutine])'
    BY <1>21, UnholdTyped DEF ReleaseAfter, Thread
  <2>2. (held \in [Handle -> SUBSET RowId])'
    BY <1>21, UnholdTyped DEF ReleaseAfter, Thread
  <2>3. (receipts \in [Key -> Receipt])'
    BY <1>21, ReleasedTyped DEF ReleaseAfter, TypeOK
  <2>4. (faults \in 0 .. MaxFaults)'
    BY <1>21 DEF TypeOK, ReleaseAfter, Fault
  <2> QED
    BY <1>21, <2>1, <2>2, <2>3, <2>4 DEF TypeOK, ReleaseAfter
<1>22. ASSUME NEW h \in Handle, AdoptEffects(h)
      PROVE  TypeOK'
  <2>1. (thread \in [Thread -> Goroutine])'
    BY <1>22 DEF TypeOK, AdoptEffects, Goroutine, Thread, Idle, Adoptable
  <2>2. (outbox \in [RowId -> Row])'
    <3>1. outbox \in [RowId -> Row]
      BY DEF TypeOK
    <3>2. \A i \in RowId : [outbox[i] EXCEPT !.owner = h] \in Row
      BY <3>1 DEF Row
    <3> QED
      BY <1>22, <3>1, <3>2 DEF AdoptEffects
  <2>3. (receipts \in [Key -> Receipt])'
    <3>1. receipts \in [Key -> Receipt]
      BY DEF TypeOK
    <3>2. \A k \in Key : [receipts[k] EXCEPT !.owner = h] \in Receipt
      BY <3>1 DEF Receipt
    <3> QED
      BY <1>22, <3>1, <3>2 DEF AdoptEffects
  <2> QED
    BY <1>22, <2>1, <2>2, <2>3 DEF TypeOK, AdoptEffects
<1>23. ASSUME NEW h \in Handle, NEW i \in RowId, ReadUnattended(h, i)
      PROVE  TypeOK'
  <2>1. (thread \in [Thread -> Goroutine])'
    BY <1>23 DEF TypeOK, ReadUnattended, Goroutine, Thread, Idle, Unattended
  <2> QED
    BY <1>23, <2>1 DEF TypeOK, ReadUnattended
<1>24. ASSUME NEW h \in Handle, ExpireReceipts(h)
      PROVE  TypeOK'
  <2>1. (receipts \in [Key -> Receipt])'
    <3>1. receipts \in [Key -> Receipt]
      BY DEF TypeOK
    <3>2. \A k \in Key :
            [receipts[k] EXCEPT !.state = "expired", !.answer = None] \in Receipt
      BY <3>1 DEF Receipt
    <3> QED
      BY <1>24, <3>1, <3>2 DEF ExpireReceipts
  <2> QED
    BY <1>24, <2>1 DEF TypeOK, ExpireReceipts
<1>25. ASSUME NEW h \in Handle, Boot(h)
      PROVE  TypeOK'
  <2>1. (life \in [Handle -> {"unborn", "up", "dead", "gone"}])'
    BY <1>25 DEF TypeOK, Boot
  <2> QED
    BY <1>25, <2>1 DEF TypeOK, Boot
<1>26. ASSUME NEW h \in Handle, Crash(h)
      PROVE  TypeOK'
  <2>1. (thread \in [Thread -> Goroutine])'
    BY <1>26 DEF TypeOK, Crash, Goroutine, Thread, Idle
  <2>2. (life \in [Handle -> {"unborn", "up", "dead", "gone"}])'
    BY <1>26 DEF TypeOK, Crash
  <2>3. (held \in [Handle -> SUBSET RowId])'
    BY <1>26 DEF TypeOK, Crash
  <2> QED
    BY <1>26, <2>1, <2>2, <2>3 DEF TypeOK, Crash
<1>27. ASSUME NEW h \in Handle, PidFreed(h)
      PROVE  TypeOK'
  <2>1. (life \in [Handle -> {"unborn", "up", "dead", "gone"}])'
    BY <1>27 DEF TypeOK, PidFreed
  <2> QED
    BY <1>27, <2>1 DEF TypeOK, PidFreed
<1>28. ASSUME NEW k \in Key, WindowPasses(k)
      PROVE  TypeOK'
  <2>1. (aged \subseteq Key)'
    BY <1>28 DEF TypeOK, WindowPasses
  <2> QED
    BY <1>28, <2>1 DEF TypeOK, WindowPasses
<1>29. CASE UNCHANGED vars
  BY <1>29 DEF TypeOK, vars
<1> QED
  BY <1>1, <1>2, <1>3, <1>4, <1>5, <1>6, <1>7, <1>8, <1>9, <1>10, <1>11, <1>12, <1>13, <1>14, <1>15, <1>16, <1>17, <1>18, <1>19, <1>20, <1>21, <1>22, <1>23, <1>24, <1>25, <1>26, <1>27, <1>28, <1>29 DEF Next, Claim, Decide, Batch, Run, Beat

-----------------------------------------------------------------------------
(* Goroutines.                                                             *)

LEMMA LiveStep == ASSUME TypeOK, ThreadsLive, [Next]_vars PROVE ThreadsLive'
<1> USE DEF ThreadsLive, At
<1>1. ASSUME NEW c \in Caller, Claim(c) PROVE ThreadsLive'
  <2> PICK h \in Handle, k \in Key, d \in Digest :
        \/ ClaimNew(c, h, k, d) \/ ClaimReplay(c, h, k, d)
        \/ ClaimExpires(c, h, k, d) \/ ClaimOrphaned(c, h, k, d)
    BY <1>1 DEF Claim
  <2>1. life' = life /\ life[h] = "up"
    BY DEF ClaimNew, ClaimReplay, ClaimExpires, ClaimOrphaned
  <2>2. \A u \in Thread : thread'[u] = thread[u] \/ thread'[u].at = h
    <3>1. CASE ClaimNew(c, h, k, d)
      BY <3>1 DEF ClaimNew, TypeOK, Idle
    <3>2. CASE ClaimOrphaned(c, h, k, d)
      BY <3>2 DEF ClaimOrphaned, TypeOK, Idle
    <3> QED
      BY <3>1, <3>2 DEF ClaimReplay, ClaimExpires
  <2> QED
    BY <2>1, <2>2
<1>2. ASSUME NEW c \in Caller, Decide(c) PROVE ThreadsLive'
  <2>1. life' = life
    BY <1>2 DEF Decide, CompleteOrphan, CompleteOrphanFails, Refuse, GiveBack, GiveBackFails,
                RecordMessage
  <2>2. thread[c].pc # "idle"
    BY <1>2 DEF Decide, CompleteOrphan, CompleteOrphanFails, Refuse, GiveBack, GiveBackFails,
                RecordMessage, Runs
  <2>3. \A u \in Thread : thread'[u].pc # "idle" =>
          thread[u].pc # "idle" /\ thread'[u].at = thread[u].at
    BY <1>2, <2>2 DEF Decide, CompleteOrphan, CompleteOrphanFails, Refuse, GiveBack, GiveBackFails,
                RecordMessage, Goto, Leave, Idle, TypeOK, Thread, Goroutine
  <2> QED
    BY <2>1, <2>3
<1>3. ASSUME NEW c \in Caller, Batch(c) PROVE ThreadsLive'
  BY <1>3 DEF Batch, RecordBatch, TypeOK, Idle, Thread
<1>4. ASSUME NEW t \in Thread, Run(t) PROVE ThreadsLive'
  <2>1. life' = life
    BY <1>4 DEF Run, Return, SettleUnknown, Hold, HoldRefused, StartEffect, StartFails, Attempt,
                Finish, FinishFails, ReleaseAfter
  <2>2. thread[t].pc # "idle"
    BY <1>4 DEF Run, Return, SettleUnknown, Hold, HoldRefused, StartEffect, StartFails, Attempt,
                Finish, FinishFails, ReleaseAfter, TurnsTo, Runs
  <2>3. \A u \in Thread \ {t} : thread'[u] = thread[u]
    BY <1>4 DEF Run, Return, SettleUnknown, Hold, HoldRefused, StartEffect, StartFails,
                Attempt, Finish, FinishFails, ReleaseAfter, Goto, Leave, Drop, Took, Unhold, TypeOK
  <2>4. thread'[t].pc = "idle" \/ thread'[t].at = thread[t].at
    <3>1. thread[t] \in Goroutine /\ Idle.pc = "idle"
      BY ThreadTyped DEF Idle
    <3>2. ASSUME NEW i \in RowId, SettleUnknown(t, i) \/ Hold(t, i) \/ HoldRefused(t, i)
          PROVE  thread'[t].at = thread[t].at
      BY <3>1, <3>2 DEF SettleUnknown, Hold, HoldRefused, Drop, TypeOK, Goroutine
    <3>3. CASE Return(t)
      BY <3>1, <3>3 DEF Return, Leave, TypeOK
    <3>4. CASE StartEffect(t) \/ StartFails(t) \/ FinishFails(t) \/ ReleaseAfter(t)
      BY <3>1, <3>4 DEF StartEffect, StartFails, FinishFails, ReleaseAfter, Goto, Unhold, TypeOK,
                        Goroutine
    <3>5. CASE Attempt(t)
      BY <3>1, <3>5 DEF Attempt, Took, TypeOK, Goroutine
    <3>6. CASE Finish(t)
      BY <3>1, <3>6 DEF Finish, Goto, Unhold, TypeOK, Goroutine
    <3> QED
      BY <1>4, <3>2, <3>3, <3>4, <3>5, <3>6 DEF Run
  <2> QED
    BY <2>1, <2>2, <2>3, <2>4
<1>5. ASSUME NEW h \in Handle, Beat(h) PROVE ThreadsLive'
  <2>1. life' = life /\ life[h] = "up"
    BY <1>5 DEF Beat, AdoptEffects, ReadUnattended
  <2>2. \A u \in Thread : thread'[u] = thread[u] \/ thread'[u].at = h
    <3>1. CASE AdoptEffects(h)
      BY <3>1 DEF AdoptEffects, TypeOK, Idle
    <3>2. ASSUME NEW i \in RowId, ReadUnattended(h, i)
          PROVE  \A u \in Thread : thread'[u] = thread[u] \/ thread'[u].at = h
      BY <3>2 DEF ReadUnattended, TypeOK, Idle
    <3> QED
      BY <1>5, <3>1, <3>2 DEF Beat
  <2> QED
    BY <2>1, <2>2
<1>6. ASSUME NEW h \in Handle, ExpireReceipts(h) PROVE ThreadsLive'
  BY <1>6 DEF ExpireReceipts
<1>7. ASSUME NEW h \in Handle, Boot(h) PROVE ThreadsLive'
  BY <1>7 DEF Boot, TypeOK
<1>8. ASSUME NEW h \in Handle, Crash(h) PROVE ThreadsLive'
  BY <1>8 DEF Crash, TypeOK, Idle
<1>9. ASSUME NEW h \in Handle, PidFreed(h) PROVE ThreadsLive'
  BY <1>9 DEF PidFreed, TypeOK
<1>10. ASSUME NEW k \in Key, WindowPasses(k) PROVE ThreadsLive'
  BY <1>10 DEF WindowPasses
<1>11. CASE UNCHANGED vars
  BY <1>11 DEF vars
<1> QED
  BY <1>1, <1>2, <1>3, <1>4, <1>5, <1>6, <1>7, <1>8, <1>9, <1>10, <1>11 DEF Next

(* What a table keeps of the rows it has. *)
RowsKept ==
  /\ lastId' \in lastId .. MaxRows
  /\ \A i \in 1 .. lastId : /\ outbox'[i].receipt = outbox[i].receipt
                            /\ outbox'[i].digest = outbox[i].digest

LEMMA ReferKept == ASSUME TypeOK, RowsKept, NEW u \in Thread, Refers(u), thread'[u] = thread[u]
                   PROVE  Refers(u)'
<1>1. lastId \in Nat /\ lastId' \in Nat /\ lastId <= lastId'
  BY OutboxAssumption DEF OutboxAssumption, TypeOK, RowsKept
<1>2. 1 .. lastId \subseteq 1 .. lastId'
  BY <1>1
<1>3. thread[u].cur \in 1 .. lastId => outbox'[thread[u].cur].receipt = outbox[thread[u].cur].receipt
  BY DEF RowsKept
<1> QED
  BY <1>2, <1>3 DEF Refers, Cur

LEMMA SameRows == ASSUME TypeOK, UNCHANGED <<lastId, outbox>> PROVE RowsKept
BY OutboxAssumption DEF OutboxAssumption, TypeOK, RowsKept

LEMMA SameReceipts ==
  ASSUME TypeOK, NEW i, NEW s, outbox' = [outbox EXCEPT ![i].state = s], UNCHANGED lastId
  PROVE  RowsKept
<1>1. 1 .. lastId \subseteq RowId
  BY OutboxAssumption DEF OutboxAssumption, TypeOK, RowId
<1>2. \A j \in RowId : outbox[j] \in Row
  BY DEF TypeOK
<1>3. \A j \in RowId : /\ outbox'[j].receipt = outbox[j].receipt
                       /\ outbox'[j].digest = outbox[j].digest
  BY <1>2 DEF TypeOK, Row
<1> QED
  BY <1>1, <1>3, OutboxAssumption DEF OutboxAssumption, TypeOK, RowsKept

(* Rows are only added, after the last one, and keep what they are for.    *)
LEMMA RowsStep == ASSUME TypeOK, FreshRows, [Next]_vars PROVE RowsKept /\ FreshRows'
<1> USE DEF FreshRows
<1>0. ASSUME UNCHANGED <<lastId, outbox>> PROVE RowsKept /\ FreshRows'
  BY <1>0, SameRows
<1>a. ASSUME NEW i \in RowId, OpenRow(i), NEW s, UNCHANGED lastId,
             outbox' = [outbox EXCEPT ![i].state = s]
      PROVE  RowsKept /\ FreshRows'
  <2>1. i <= lastId
    BY <1>a DEF OpenRow, NoRow, Open, TypeOK, RowId
  <2>2. \A j \in RowId : j # i => outbox'[j] = outbox[j]
    BY <1>a DEF TypeOK
  <2>3. FreshRows'
    BY <1>a, <2>1, <2>2 DEF TypeOK, RowId
  <2> QED
    BY <1>a, <2>3, SameReceipts
<1>1. ASSUME NEW c \in Caller, Claim(c) PROVE RowsKept /\ FreshRows'
  BY <1>1, <1>0 DEF Claim, ClaimNew, ClaimReplay, ClaimExpires, ClaimOrphaned
<1>2. ASSUME NEW c \in Caller, Decide(c) PROVE RowsKept /\ FreshRows'
  <2>1. CASE RecordMessage(c)
    <3>1. lastId' = lastId + 1 /\ lastId + 1 <= MaxRows /\ lastId \in Nat
      BY <2>1 DEF RecordMessage, TypeOK
    <3>2. \A j \in RowId : j # lastId + 1 => outbox'[j] = outbox[j]
      BY <2>1 DEF RecordMessage, TypeOK
    <3>3. FreshRows'
      BY <3>1, <3>2, OutboxAssumption DEF RowId, OutboxAssumption
    <3>4. RowsKept
      BY <3>1, <3>2, OutboxAssumption DEF RowsKept, RowId, OutboxAssumption
    <3> QED
      BY <3>3, <3>4
  <2> QED
    BY <1>2, <1>0, <2>1 DEF Decide, CompleteOrphan, CompleteOrphanFails, Refuse, GiveBack,
                            GiveBackFails
<1>3. ASSUME NEW c \in Caller, Batch(c) PROVE RowsKept /\ FreshRows'
  <2> PICK h \in Handle, kind \in Kind, n \in BatchSizes : RecordBatch(c, h, kind, n)
    BY <1>3 DEF Batch
  <2>1. lastId' = lastId + n /\ lastId + n <= MaxRows /\ lastId \in Nat /\ n \in Nat
    BY OutboxAssumption DEF RecordBatch, TypeOK, OutboxAssumption
  <2>2. \A j \in RowId : j \notin (lastId + 1) .. (lastId + n) => outbox'[j] = outbox[j]
    BY DEF RecordBatch
  <2>3. FreshRows'
    BY <2>1, <2>2, OutboxAssumption DEF RowId, OutboxAssumption
  <2>4. RowsKept
    BY <2>1, <2>2, OutboxAssumption DEF RowsKept, RowId, OutboxAssumption
  <2> QED
    BY <2>3, <2>4
<1>4. ASSUME NEW t \in Thread, Run(t) PROVE RowsKept /\ FreshRows'
  <2>1. ASSUME NEW i \in RowId, SettleUnknown(t, i) PROVE RowsKept /\ FreshRows'
    <3>1. CASE FinishEffect(At(t), i, "unknown", "unknown")
      BY <2>1, <3>1, <1>a DEF SettleUnknown, FinishEffect, Finishable, OpenRow, Open
    <3> QED
      BY <2>1, <3>1, <1>0 DEF SettleUnknown
  <2>2. CASE StartEffect(t)
    <3>1. thread[t].cur \in RowId \/ outbox' = outbox
      BY <2>2 DEF StartEffect, TypeOK
    <3> QED
      BY <2>2, <3>1, <1>a, <1>0 DEF StartEffect
  <2>3. CASE Finish(t)
    <3>1. thread[t].cur \in RowId \/ outbox' = outbox
      BY <2>3 DEF Finish, FinishEffect, TypeOK
    <3> QED
      BY <2>3, <3>1, <1>a, <1>0 DEF Finish, FinishEffect, Finishable, OpenRow, Open, EndState
  <2> QED
    BY <1>4, <1>0, <2>1, <2>2, <2>3 DEF Run, Return, Hold, HoldRefused, StartFails, Attempt,
                                        FinishFails, ReleaseAfter
<1>5. ASSUME NEW h \in Handle, Beat(h) PROVE RowsKept /\ FreshRows'
  <2>1. CASE AdoptEffects(h)
    <3>1. \A j \in RowId : outbox[j] \in Row
      BY DEF TypeOK
    <3>2. \A j \in RowId : /\ outbox'[j].receipt = outbox[j].receipt
                           /\ outbox'[j].digest = outbox[j].digest
      BY <2>1, <3>1 DEF AdoptEffects, Row
    <3>3. \A j \in RowId : ~OpenRow(j) => outbox'[j] = outbox[j]
      BY <2>1 DEF AdoptEffects, Adoptable
    <3>4. FreshRows'
      <4>1. \A j \in RowId : j > lastId => ~OpenRow(j)
        BY DEF OpenRow, NoRow, Open
      <4>2. lastId' = lastId
        BY <2>1 DEF AdoptEffects
      <4> QED
        BY <3>3, <4>1, <4>2
    <3>5. RowsKept
      BY <2>1, <3>2, OutboxAssumption DEF AdoptEffects, RowsKept, TypeOK, RowId, OutboxAssumption
    <3> QED
      BY <3>4, <3>5
  <2> QED
    BY <1>5, <1>0, <2>1 DEF Beat, ReadUnattended
<1>6. ASSUME NEW h \in Handle, ExpireReceipts(h) \/ Boot(h) \/ Crash(h) \/ PidFreed(h)
      PROVE  RowsKept /\ FreshRows'
  BY <1>6, <1>0 DEF ExpireReceipts, Boot, Crash, PidFreed
<1>7. ASSUME NEW k \in Key, WindowPasses(k) PROVE RowsKept /\ FreshRows'
  BY <1>7, <1>0 DEF WindowPasses
<1>8. CASE UNCHANGED vars
  BY <1>8, <1>0 DEF vars
<1> QED
  BY <1>1, <1>2, <1>3, <1>4, <1>5, <1>6, <1>7, <1>8 DEF Next

(* A goroutine whose own record changed still refers to what there is.     *)
LEMMA ReferStep == ASSUME TypeOK, ThreadsRefer, FreshRows, [Next]_vars PROVE ThreadsRefer'
<1>0. RowsKept
  BY RowsStep
<1>1. \A u \in Thread : Refers(u) /\ thread[u] \in Goroutine
  BY DEF ThreadsRefer, TypeOK
<1>2. \A u \in Thread : thread'[u] = thread[u] => Refers(u)'
  BY <1>0, <1>1, ReferKept
<1>3. /\ lastId \in Nat /\ lastId' \in Nat /\ 1 .. lastId \subseteq 1 .. lastId'
      /\ 1 .. lastId \subseteq RowId
      /\ \A i \in 1 .. lastId : outbox'[i].receipt = outbox[i].receipt
  BY <1>0, OutboxAssumption DEF OutboxAssumption, RowsKept, TypeOK, RowId
<1>4. \A i \in RowId : OpenRow(i) => i \in 1 .. lastId
  BY OutboxAssumption DEF OutboxAssumption, OpenRow, FreshRows, NoRow, Open, RowId, TypeOK
<1>5. \A u \in Thread : thread'[u] = Idle => Refers(u)'
  BY <1>3 DEF Refers, Idle
<1>a. ASSUME NEW c \in Thread, NEW h, NEW k \in Key, NEW d \in Digest,
             NEW pc \in {"reserved", "orphaned"},
             thread' = [thread EXCEPT ![c] =
                         [Idle EXCEPT !.pc = pc, !.at = h, !.key = k, !.digest = d]]
      PROVE  ThreadsRefer'
  <2>1. \A u \in Thread \ {c} : thread'[u] = thread[u]
    BY <1>a DEF TypeOK
  <2>2. Refers(c)'
    BY <1>a DEF Refers, Idle, TypeOK
  <2> QED
    BY <1>2, <2>1, <2>2 DEF ThreadsRefer
<1>b. ASSUME NEW t \in Thread, NEW g,
             thread' = [thread EXCEPT ![t] = g],
             g.todo \subseteq 1 .. lastId',
             g.pc \in {"idle", "next"} \/ (/\ g.pc = "refusing" /\ thread[t].pc = "reserved"
                                           /\ g.key = thread[t].key /\ g.digest = thread[t].digest)
                                       \/ (/\ g.pc \in {"holds", "started", "ended"}
                                           /\ g.cur \in 1 .. lastId)
                                       \/ (/\ g.pc = "releasing" /\ g.cur \in 1 .. lastId
                                           /\ outbox[g.cur].receipt \in Key)
      PROVE  ThreadsRefer'
  <2>1. \A u \in Thread \ {t} : thread'[u] = thread[u]
    BY <1>b DEF TypeOK
  <2>2. thread'[t] = g
    BY <1>b DEF TypeOK
  <2>3. Refers(t)'
    BY <1>1, <1>3, <1>b, <2>2 DEF Refers, Cur
  <2> QED
    BY <1>2, <2>1, <2>3 DEF ThreadsRefer
<1>6. ASSUME NEW c \in Caller, Claim(c) PROVE ThreadsRefer'
  <2> PICK h \in Handle, k \in Key, d \in Digest :
        \/ ClaimNew(c, h, k, d) \/ ClaimReplay(c, h, k, d)
        \/ ClaimExpires(c, h, k, d) \/ ClaimOrphaned(c, h, k, d)
    BY <1>6 DEF Claim
  <2>1. CASE ClaimNew(c, h, k, d)
    BY <2>1, <1>a DEF ClaimNew, Thread
  <2>2. CASE ClaimOrphaned(c, h, k, d)
    BY <2>2, <1>a DEF ClaimOrphaned, Thread
  <2> QED
    BY <1>2, <2>1, <2>2 DEF ClaimReplay, ClaimExpires, ThreadsRefer
<1>7. ASSUME NEW c \in Caller, Decide(c) PROVE ThreadsRefer'
  <2>1. c \in Thread
    BY DEF Thread
  <2>2. CASE Refuse(c)
    <3> DEFINE g == [thread[c] EXCEPT !.pc = "refusing"]
    <3>1. thread' = [thread EXCEPT ![c] = g] /\ thread[c].pc = "reserved"
      BY <2>2 DEF Refuse, Goto
    <3>2. /\ g.pc = "refusing" /\ g.key = thread[c].key /\ g.digest = thread[c].digest
          /\ g.todo = thread[c].todo
      BY <1>1, <2>1 DEF Goroutine
    <3> QED
      BY <1>1, <1>3, <1>b, <2>1, <3>1, <3>2 DEF Refers
  <2>3. CASE RecordMessage(c)
    <3> DEFINE g == [thread[c] EXCEPT !.pc = "next", !.todo = {lastId + 1}]
    <3>1. thread' = [thread EXCEPT ![c] = g] /\ lastId' = lastId + 1
      BY <2>3 DEF RecordMessage
    <3>2. g.pc = "next" /\ g.todo = {lastId + 1}
      BY <1>1, <2>1 DEF Goroutine
    <3> QED
      <4>1. {lastId + 1} \subseteq 1 .. lastId'
        BY <1>3, <3>1
      <4> QED
        BY <1>b, <2>1, <3>1, <3>2, <4>1
  <2>4. CASE thread' = [thread EXCEPT ![c] = Idle]
    BY <1>2, <1>5, <2>1, <2>4 DEF ThreadsRefer, TypeOK
  <2> QED
    BY <1>7, <2>2, <2>3, <2>4 DEF Decide, CompleteOrphan, CompleteOrphanFails, GiveBack,
                                  GiveBackFails, Leave
<1>8. ASSUME NEW c \in Caller, Batch(c) PROVE ThreadsRefer'
  <2> PICK h \in Handle, kind \in Kind, n \in BatchSizes : RecordBatch(c, h, kind, n)
    BY <1>8 DEF Batch
  <2> DEFINE g == [Idle EXCEPT !.pc = "next", !.at = h, !.todo = (lastId + 1) .. (lastId + n)]
  <2>1. thread' = [thread EXCEPT ![c] = g] /\ lastId' = lastId + n /\ n \in Nat
    BY OutboxAssumption DEF RecordBatch, OutboxAssumption
  <2>2. g.pc = "next" /\ g.todo = (lastId + 1) .. (lastId + n)
    BY DEF Idle
  <2>3. g.todo \subseteq 1 .. lastId'
    BY <1>3, <2>1, <2>2
  <2> QED
    BY <1>b, <2>1, <2>2, <2>3 DEF Thread
<1>9. ASSUME NEW t \in Thread, Run(t) PROVE ThreadsRefer'
  <2>0. /\ thread[t] \in Goroutine /\ thread[t].todo \subseteq 1 .. lastId'
        /\ thread[t].pc \in {"holds", "started", "ended", "releasing"} => thread[t].cur \in 1 .. lastId
    BY <1>1, <1>3 DEF Refers
  <2>1. ASSUME NEW i \in RowId, Hold(t, i) PROVE ThreadsRefer'
    <3> DEFINE g == [thread[t] EXCEPT !.pc = "holds", !.cur = i, !.todo = @ \ {i}]
    <3>1. thread' = [thread EXCEPT ![t] = g] /\ i \in thread[t].todo
      BY <2>1 DEF Hold, TurnsTo, IsFirst
    <3>2. g.pc = "holds" /\ g.cur = i /\ g.todo \subseteq thread[t].todo
      BY <2>0 DEF Goroutine
    <3>3. i \in 1 .. lastId
      BY <1>1, <3>1 DEF Refers
    <3> QED
      BY <1>b, <2>0, <3>1, <3>2, <3>3
  <2>2. ASSUME NEW i \in RowId, Drop(t, i), thread[t].pc = "next" PROVE ThreadsRefer'
    <3> DEFINE g == [thread[t] EXCEPT !.todo = @ \ {i}]
    <3>1. thread' = [thread EXCEPT ![t] = g]
      BY <2>2 DEF Drop
    <3>2. g.pc = "next" /\ g.todo \subseteq thread[t].todo
      BY <2>0, <2>2 DEF Goroutine
    <3> QED
      BY <1>b, <2>0, <3>1, <3>2
  <2>3. CASE Unhold(t)
    <3> DEFINE g == [thread[t] EXCEPT !.pc = "next", !.cur = 0, !.res = "none"]
    <3>1. thread' = [thread EXCEPT ![t] = g]
      BY <2>3 DEF Unhold
    <3>2. g.pc = "next" /\ g.todo = thread[t].todo
      BY <2>0 DEF Goroutine
    <3> QED
      BY <1>b, <2>0, <3>1, <3>2
  <2>4. ASSUME thread[t].pc \in {"holds", "ended"}, NEW pc \in {"started", "releasing"}, Goto(t, pc),
               pc = "releasing" => Cur(t).receipt \in Key
        PROVE  ThreadsRefer'
    <3> DEFINE g == [thread[t] EXCEPT !.pc = pc]
    <3>1. thread' = [thread EXCEPT ![t] = g]
      BY <2>4 DEF Goto
    <3>2. g.pc = pc /\ g.todo = thread[t].todo /\ g.cur = thread[t].cur
      BY <2>0 DEF Goroutine
    <3> QED
      BY <1>b, <2>0, <2>4, <3>1, <3>2 DEF Cur
  <2>5. ASSUME thread[t].pc = "started", NEW res, Took(t, res) PROVE ThreadsRefer'
    <3> DEFINE g == [thread[t] EXCEPT !.pc = "ended", !.res = res]
    <3>1. thread' = [thread EXCEPT ![t] = g]
      BY <2>5 DEF Took
    <3>2. g.pc = "ended" /\ g.todo = thread[t].todo /\ g.cur = thread[t].cur
      BY <2>0 DEF Goroutine
    <3> QED
      BY <1>b, <2>0, <2>5, <3>1, <3>2
  <2>6. CASE Return(t)
    BY <1>2, <1>5, <2>6 DEF Return, Leave, ThreadsRefer, TypeOK
  <2>7. ASSUME NEW i \in RowId, SettleUnknown(t, i) \/ HoldRefused(t, i) PROVE ThreadsRefer'
    BY <2>2, <2>7 DEF SettleUnknown, HoldRefused, TurnsTo
  <2>8. CASE StartEffect(t)
    BY <2>4, <2>8 DEF StartEffect
  <2>9. CASE Attempt(t)
    BY <2>5, <2>9 DEF Attempt
  <2>10. CASE Finish(t)
    <3>1. thread[t].cur \in RowId
      BY <1>3, <2>0, <2>10 DEF Finish
    <3>2. Cur(t).receipt \in Key \cup {None}
      BY <3>1 DEF TypeOK, Row, Cur
    <3> QED
      BY <2>3, <2>4, <2>10, <3>2 DEF Finish
  <2> QED
    BY <1>9, <2>1, <2>3, <2>6, <2>7, <2>8, <2>9, <2>10
       DEF Run, StartFails, FinishFails, ReleaseAfter
<1>10. ASSUME NEW h \in Handle, Beat(h) PROVE ThreadsRefer'
  <2>1. ASSUME NEW S, \A i \in S : i \in RowId /\ OpenRow(i), NEW B,
               thread' = [thread EXCEPT ![h] =
                           [Idle EXCEPT !.pc = "next", !.at = h, !.todo = S, !.begun = B]]
        PROVE  ThreadsRefer'
    <3> DEFINE g == [Idle EXCEPT !.pc = "next", !.at = h, !.todo = S, !.begun = B]
    <3>1. g.pc = "next" /\ g.todo = S
      BY DEF Idle
    <3>2. S \subseteq 1 .. lastId'
      BY <1>3, <1>4, <2>1
    <3> QED
      BY <1>b, <2>1, <3>1, <3>2 DEF Thread
  <2>2. CASE AdoptEffects(h)
    BY <2>1, <2>2 DEF AdoptEffects, Adoptable
  <2>3. ASSUME NEW i \in RowId, ReadUnattended(h, i) PROVE ThreadsRefer'
    BY <2>1, <2>3 DEF ReadUnattended, Unattended
  <2> QED
    BY <1>10, <2>2, <2>3 DEF Beat
<1>11. ASSUME NEW h \in Handle, ExpireReceipts(h) \/ Boot(h) \/ Crash(h) \/ PidFreed(h)
       PROVE  ThreadsRefer'
  <2>1. \A u \in Thread : thread'[u] \in {thread[u], Idle}
    BY <1>11 DEF ExpireReceipts, Boot, Crash, PidFreed
  <2> QED
    BY <1>2, <1>5, <2>1 DEF ThreadsRefer
<1>12. ASSUME NEW k \in Key, WindowPasses(k) PROVE ThreadsRefer'
  BY <1>2, <1>12 DEF WindowPasses, ThreadsRefer
<1>13. CASE UNCHANGED vars
  BY <1>2, <1>13 DEF vars, ThreadsRefer
<1> QED
  BY <1>6, <1>7, <1>8, <1>9, <1>10, <1>11, <1>12, <1>13 DEF Next

-----------------------------------------------------------------------------
(* Receipts, reservations and the rows that answer them.                   *)

Core == ReservationsHeld /\ ReservationsApart /\ OneOpenRow /\ OpenEffectOwnsReceipt

(* The reservation of goroutine u is no other than it was. *)
SameReservation(u) ==
  ReservedKey(u)' # None =>
    /\ ReservedKey(u)' = ReservedKey(u)
    /\ thread'[u].at = thread[u].at
    /\ thread'[u].pc = "reserved" =>
         thread[u].pc = "reserved" /\ thread'[u].digest = thread[u].digest

LEMMA SameThread == ASSUME TypeOK, RowsKept, ThreadsRefer, NEW u \in Thread,
                           thread'[u] = thread[u]
                    PROVE  SameReservation(u) /\ ReservedKey(u)' = ReservedKey(u)
<1>1. thread[u].pc = "releasing" => thread[u].cur \in 1 .. lastId
  BY DEF ThreadsRefer, Refers
<1> QED
  BY <1>1 DEF SameReservation, ReservedKey, Cur, RowsKept

LEMMA NoReservation == ASSUME NEW u, thread'[u].pc \notin {"reserved", "refusing", "orphaned", "releasing"}
                       PROVE  ReservedKey(u)' = None /\ SameReservation(u)
BY DEF ReservedKey, SameReservation

(* No row is opened or taken over, no receipt changes, and no reservation  *)
(* is new: then everything stays in order.                                 *)
LEMMA CoreKept ==
  ASSUME TypeOK, Core, UNCHANGED receipts,
         \A i \in RowId : OpenRow(i)' =>
           /\ OpenRow(i) /\ outbox'[i].owner = outbox[i].owner
           /\ outbox'[i].receipt = outbox[i].receipt /\ outbox'[i].digest = outbox[i].digest,
         \A u \in Thread : SameReservation(u)
  PROVE  Core'
<1>1. ReservationsHeld'
  <2> SUFFICES ASSUME NEW u \in Thread, ReservedKey(u)' # None
               PROVE  /\ receipts'[ReservedKey(u)'].state = "pending"
                      /\ receipts'[ReservedKey(u)'].owner = thread'[u].at
                      /\ thread'[u].pc = "reserved" =>
                           receipts'[ReservedKey(u)'].digest = thread'[u].digest
                      /\ \A i \in RowId : OpenRow(i)' => outbox'[i].receipt # ReservedKey(u)'
    BY DEF ReservationsHeld, At
  <2>1. /\ ReservedKey(u)' = ReservedKey(u) /\ ReservedKey(u) # None
        /\ thread'[u].at = thread[u].at
        /\ thread'[u].pc = "reserved" =>
             thread[u].pc = "reserved" /\ thread'[u].digest = thread[u].digest
    BY DEF SameReservation
  <2>2. /\ receipts[ReservedKey(u)].state = "pending"
        /\ receipts[ReservedKey(u)].owner = thread[u].at
        /\ thread[u].pc = "reserved" => receipts[ReservedKey(u)].digest = thread[u].digest
        /\ \A i \in RowId : OpenRow(i) => outbox[i].receipt # ReservedKey(u)
    BY <2>1 DEF Core, ReservationsHeld, At
  <2> QED
    BY <2>1, <2>2
<1>2. ReservationsApart'
  BY DEF Core, ReservationsApart, SameReservation
<1>3. OneOpenRow'
  BY DEF Core, OneOpenRow
<1>4. OpenEffectOwnsReceipt'
  BY DEF Core, OpenEffectOwnsReceipt
<1> QED
  BY <1>1, <1>2, <1>3, <1>4 DEF Core

(* Some receipts change, and neither an open row nor a reservation that is *)
(* left depends on them.                                                   *)
LEMMA CoreSettled ==
  ASSUME TypeOK, Core, NEW K,
         \A l \in Key \ K : receipts'[l] = receipts[l],
         \A i \in RowId : OpenRow(i)' =>
           /\ OpenRow(i) /\ outbox'[i].owner = outbox[i].owner
           /\ outbox'[i].receipt = outbox[i].receipt /\ outbox'[i].digest = outbox[i].digest
           /\ outbox[i].receipt \notin K,
         \A u \in Thread : SameReservation(u) /\ (ReservedKey(u)' # None => ReservedKey(u)' \notin K),
         ThreadsRefer
  PROVE  Core'
<1>0. \A u \in Thread : ReservedKey(u) # None => ReservedKey(u) \in Key
  BY DEF ThreadsRefer, Refers, ReservedKey
<1>1. ReservationsHeld'
  <2> SUFFICES ASSUME NEW u \in Thread, ReservedKey(u)' # None
               PROVE  /\ receipts'[ReservedKey(u)'].state = "pending"
                      /\ receipts'[ReservedKey(u)'].owner = thread'[u].at
                      /\ thread'[u].pc = "reserved" =>
                           receipts'[ReservedKey(u)'].digest = thread'[u].digest
                      /\ \A i \in RowId : OpenRow(i)' => outbox'[i].receipt # ReservedKey(u)'
    BY DEF ReservationsHeld, At
  <2>1. /\ ReservedKey(u)' = ReservedKey(u) /\ ReservedKey(u) # None
        /\ thread'[u].at = thread[u].at
        /\ thread'[u].pc = "reserved" =>
             thread[u].pc = "reserved" /\ thread'[u].digest = thread[u].digest
    BY DEF SameReservation
  <2>2. /\ receipts[ReservedKey(u)].state = "pending"
        /\ receipts[ReservedKey(u)].owner = thread[u].at
        /\ thread[u].pc = "reserved" => receipts[ReservedKey(u)].digest = thread[u].digest
        /\ \A i \in RowId : OpenRow(i) => outbox[i].receipt # ReservedKey(u)
    BY <2>1 DEF Core, ReservationsHeld, At
  <2>3. receipts'[ReservedKey(u)] = receipts[ReservedKey(u)]
    BY <1>0, <2>1
  <2> QED
    BY <2>1, <2>2, <2>3
<1>2. ReservationsApart'
  BY DEF Core, ReservationsApart, SameReservation
<1>3. OneOpenRow'
  BY DEF Core, OneOpenRow
<1>4. OpenEffectOwnsReceipt'
  <2> SUFFICES ASSUME NEW i \in RowId, OpenRow(i)', outbox'[i].receipt # None
               PROVE  /\ receipts'[outbox'[i].receipt].state = "pending"
                      /\ receipts'[outbox'[i].receipt].owner = outbox'[i].owner
                      /\ receipts'[outbox'[i].receipt].digest = outbox'[i].digest
    BY DEF OpenEffectOwnsReceipt
  <2>1. outbox[i].receipt \in Key
    BY DEF TypeOK, Row
  <2> QED
    BY <2>1 DEF Core, OpenEffectOwnsReceipt
<1> QED
  BY <1>1, <1>2, <1>3, <1>4 DEF Core

(* A goroutine takes a reservation nobody else has and no row answers.     *)
LEMMA CoreReserved ==
  ASSUME TypeOK, Core, RowsKept, ThreadsRefer, NEW t \in Thread, NEW k \in Key,
         \A u \in Thread \ {t} : thread'[u] = thread[u] /\ ReservedKey(u) # k,
         ReservedKey(t)' = k,
         \A l \in Key \ {k} : receipts'[l] = receipts[l],
         receipts'[k].state = "pending", receipts'[k].owner = thread'[t].at,
         thread'[t].pc = "reserved" => receipts'[k].digest = thread'[t].digest,
         \A i \in RowId : OpenRow(i)' =>
           /\ OpenRow(i) /\ outbox'[i].owner = outbox[i].owner
           /\ outbox'[i].receipt = outbox[i].receipt /\ outbox'[i].digest = outbox[i].digest
           /\ outbox[i].receipt # k
  PROVE  Core'
<1>0. \A u \in Thread \ {t} : SameReservation(u) /\ ReservedKey(u)' = ReservedKey(u)
  BY SameThread
<1>a. \A u \in Thread : ReservedKey(u) # None => ReservedKey(u) \in Key
  BY DEF ThreadsRefer, Refers, ReservedKey
<1>1. ReservationsHeld'
  <2> SUFFICES ASSUME NEW u \in Thread, ReservedKey(u)' # None
               PROVE  /\ receipts'[ReservedKey(u)'].state = "pending"
                      /\ receipts'[ReservedKey(u)'].owner = thread'[u].at
                      /\ thread'[u].pc = "reserved" =>
                           receipts'[ReservedKey(u)'].digest = thread'[u].digest
                      /\ \A i \in RowId : OpenRow(i)' => outbox'[i].receipt # ReservedKey(u)'
    BY DEF ReservationsHeld, At
  <2>1. CASE u = t
    BY <2>1
  <2>2. CASE u # t
    <3>1. /\ ReservedKey(u)' = ReservedKey(u) /\ ReservedKey(u) \in Key \ {k}
          /\ thread'[u] = thread[u]
      BY <1>0, <1>a, <2>2
    <3>2. /\ receipts[ReservedKey(u)].state = "pending"
          /\ receipts[ReservedKey(u)].owner = thread[u].at
          /\ thread[u].pc = "reserved" => receipts[ReservedKey(u)].digest = thread[u].digest
          /\ \A i \in RowId : OpenRow(i) => outbox[i].receipt # ReservedKey(u)
      BY <3>1, OutboxAssumption DEF OutboxAssumption, Core, ReservationsHeld, At
    <3> QED
      BY <3>1, <3>2
  <2> QED
    BY <2>1, <2>2
<1>2. ReservationsApart'
  BY <1>0 DEF Core, ReservationsApart
<1>3. OneOpenRow'
  BY DEF Core, OneOpenRow
<1>4. OpenEffectOwnsReceipt'
  <2> SUFFICES ASSUME NEW i \in RowId, OpenRow(i)', outbox'[i].receipt # None
               PROVE  /\ receipts'[outbox'[i].receipt].state = "pending"
                      /\ receipts'[outbox'[i].receipt].owner = outbox'[i].owner
                      /\ receipts'[outbox'[i].receipt].digest = outbox'[i].digest
    BY DEF OpenEffectOwnsReceipt
  <2>1. outbox[i].receipt \in Key
    BY DEF TypeOK, Row
  <2> QED
    BY <2>1 DEF Core, OpenEffectOwnsReceipt
<1> QED
  BY <1>1, <1>2, <1>3, <1>4 DEF Core

LEMMA PendingOnly ==
  ASSUME TypeOK, Core, ThreadsRefer, NEW k \in Key, receipts[k].state # "pending"
  PROVE  /\ \A i \in RowId : OpenRow(i) => outbox[i].receipt # k
         /\ \A u \in Thread : ReservedKey(u) # k
BY OutboxAssumption DEF OutboxAssumption, Core, OpenEffectOwnsReceipt, ReservationsHeld, TypeOK

LEMMA CoreClaim ==
  ASSUME TypeOK, Core, RowsKept, ThreadsLive, ThreadsRefer, NEW c \in Caller, Claim(c)
  PROVE  Core'
<1> PICK h \in Handle, k \in Key, d \in Digest :
      \/ ClaimNew(c, h, k, d) \/ ClaimReplay(c, h, k, d)
      \/ ClaimExpires(c, h, k, d) \/ ClaimOrphaned(c, h, k, d)
  BY DEF Claim
<1>0. c \in Thread /\ receipts[k] \in Receipt
  BY DEF Thread, TypeOK
<1>1. CASE ClaimNew(c, h, k, d)
  <2>1. receipts[k].state = "none"
    BY <1>0, <1>1 DEF ClaimNew, ClaimOutcome, Receipt
  <2>2. /\ receipts'[k] = [state |-> "pending", digest |-> d, owner |-> h, answer |-> None]
        /\ \A l \in Key \ {k} : receipts'[l] = receipts[l]
        /\ \A u \in Thread \ {c} : thread'[u] = thread[u]
        /\ thread'[c] = [Idle EXCEPT !.pc = "reserved", !.at = h, !.key = k, !.digest = d]
        /\ outbox' = outbox
    BY <1>0, <1>1 DEF ClaimNew, TypeOK
  <2>3. /\ thread'[c].pc = "reserved" /\ thread'[c].at = h
        /\ thread'[c].key = k /\ thread'[c].digest = d
    BY <2>2 DEF Idle
  <2>4. ReservedKey(c)' = k
    BY <2>3 DEF ReservedKey
  <2> QED
    <3>1. \A u \in Thread \ {c} : thread'[u] = thread[u] /\ ReservedKey(u) # k
      BY <2>1, <2>2, PendingOnly
    <3>2. \A i \in RowId : OpenRow(i)' =>
            /\ OpenRow(i) /\ outbox'[i].owner = outbox[i].owner
            /\ outbox'[i].receipt = outbox[i].receipt /\ outbox'[i].digest = outbox[i].digest
            /\ outbox[i].receipt # k
      BY <2>1, <2>2, PendingOnly DEF OpenRow
    <3>3. /\ receipts'[k].state = "pending" /\ receipts'[k].owner = thread'[c].at
          /\ receipts'[k].digest = thread'[c].digest
      BY <2>2, <2>3
    <3> QED
      BY <1>0, <2>2, <2>4, <3>1, <3>2, <3>3, CoreReserved
<1>2. CASE ClaimReplay(c, h, k, d)
  <2>1. \A u \in Thread : SameReservation(u)
    BY <1>2, SameThread DEF ClaimReplay
  <2> QED
    BY <1>2, <2>1, CoreKept DEF ClaimReplay, OpenRow
<1>3. CASE ClaimExpires(c, h, k, d)
  <2>1. receipts[k].state # "pending"
    BY <1>0, <1>3 DEF ClaimExpires, ClaimOutcome, Receipt
  <2>2. /\ \A l \in Key \ {k} : receipts'[l] = receipts[l]
        /\ \A u \in Thread : SameReservation(u) /\ ReservedKey(u)' = ReservedKey(u)
    BY <1>3, SameThread DEF ClaimExpires, TypeOK
  <2>3. /\ \A i \in RowId : OpenRow(i) => outbox[i].receipt # k
        /\ \A u \in Thread : ReservedKey(u) # k
    BY <2>1, PendingOnly
  <2> DEFINE K == {k}
  <2>4. \A i \in RowId : OpenRow(i)' =>
          /\ OpenRow(i) /\ outbox'[i].owner = outbox[i].owner
          /\ outbox'[i].receipt = outbox[i].receipt /\ outbox'[i].digest = outbox[i].digest
          /\ outbox[i].receipt \notin K
    BY <1>3, <2>3 DEF ClaimExpires, OpenRow
  <2>5. \A u \in Thread : SameReservation(u) /\ (ReservedKey(u)' # None => ReservedKey(u)' \notin K)
    BY <2>2, <2>3
  <2>6. \A l \in Key \ K : receipts'[l] = receipts[l]
    BY <2>2
  <2> HIDE DEF K
  <2> QED
    BY <2>4, <2>5, <2>6, CoreSettled
<1>4. CASE ClaimOrphaned(c, h, k, d)
  <2>1. /\ receipts[k].state = "pending" /\ OpenRowsOf(k) = {} /\ OwnerGone(h, receipts[k].owner)
        /\ receipts[k].digest = d
    BY <1>0, <1>4 DEF ClaimOrphaned, ClaimOutcome, Receipt
  <2>2. \A u \in Thread : ReservedKey(u) # k
    <3> SUFFICES ASSUME NEW u \in Thread, ReservedKey(u) = k PROVE FALSE
      OBVIOUS
    <3>1. receipts[k].owner = At(u)
      BY OutboxAssumption DEF OutboxAssumption, Core, ReservationsHeld
    <3>2. thread[u].pc # "idle"
      BY OutboxAssumption DEF OutboxAssumption, ReservedKey
    <3>3. life[At(u)] = "up"
      BY <3>2 DEF ThreadsLive
    <3> QED
      BY <2>1, <3>1, <3>3 DEF OwnerGone
  <2>3. /\ receipts'[k] = [receipts[k] EXCEPT !.owner = h]
        /\ \A l \in Key \ {k} : receipts'[l] = receipts[l]
        /\ \A u \in Thread \ {c} : thread'[u] = thread[u]
        /\ thread'[c] = [Idle EXCEPT !.pc = "orphaned", !.at = h, !.key = k, !.digest = d]
        /\ outbox' = outbox
    BY <1>0, <1>4 DEF ClaimOrphaned, TypeOK
  <2>4. thread'[c].pc = "orphaned" /\ thread'[c].at = h /\ thread'[c].key = k
    BY <2>3 DEF Idle
  <2>5. ReservedKey(c)' = k
    BY <2>4 DEF ReservedKey
  <2>6. receipts'[k].state = "pending" /\ receipts'[k].owner = h
    BY <1>0, <2>1, <2>3 DEF Receipt
  <2>7. \A i \in RowId : OpenRow(i) => outbox[i].receipt # k
    BY <2>1 DEF OpenRowsOf
  <2> QED
    <3>1. \A u \in Thread \ {c} : thread'[u] = thread[u] /\ ReservedKey(u) # k
      BY <2>2, <2>3
    <3>2. \A i \in RowId : OpenRow(i)' =>
            /\ OpenRow(i) /\ outbox'[i].owner = outbox[i].owner
            /\ outbox'[i].receipt = outbox[i].receipt /\ outbox'[i].digest = outbox[i].digest
            /\ outbox[i].receipt # k
      BY <2>3, <2>7 DEF OpenRow
    <3>3. receipts'[k].owner = thread'[c].at
      BY <2>4, <2>6
    <3>4. thread'[c].pc = "reserved" => receipts'[k].digest = thread'[c].digest
      BY <2>4
    <3>5. receipts'[k].state = "pending"
      BY <2>6
    <3>6. \A l \in Key \ {k} : receipts'[l] = receipts[l]
      BY <2>3
    <3> QED
      BY <1>0, <2>5, <3>1, <3>2, <3>3, <3>4, <3>5, <3>6, CoreReserved
<1> QED
  BY <1>1, <1>2, <1>3, <1>4
(* Goroutine t goes on without a reservation; the others stay as they are. *)
Unreserved(t) ==
  /\ \A u \in Thread \ {t} : thread'[u] = thread[u]
  /\ thread'[t].pc \notin {"reserved", "refusing", "orphaned", "releasing"}

LEMMA UnreservedSame ==
  ASSUME TypeOK, RowsKept, ThreadsRefer, NEW t \in Thread, Unreserved(t)
  PROVE  /\ \A u \in Thread : SameReservation(u)
         /\ ReservedKey(t)' = None
         /\ \A u \in Thread \ {t} : ReservedKey(u)' = ReservedKey(u)
<1>1. \A u \in Thread \ {t} : SameReservation(u) /\ ReservedKey(u)' = ReservedKey(u)
  BY SameThread DEF Unreserved
<1>2. SameReservation(t) /\ ReservedKey(t)' = None
  BY NoReservation DEF Unreserved
<1> QED
  BY <1>1, <1>2

(* Its reservation is answered or given back. *)
LEMMA CoreLeft ==
  ASSUME TypeOK, Core, RowsKept, ThreadsRefer, NEW t \in Thread, Unreserved(t),
         NEW k \in Key, ReservedKey(t) = k, UNCHANGED outbox,
         \A l \in Key \ {k} : receipts'[l] = receipts[l]
  PROVE  Core'
<1> DEFINE K == {k}
<1>1. \A i \in RowId : OpenRow(i)' =>
        /\ OpenRow(i) /\ outbox'[i].owner = outbox[i].owner
        /\ outbox'[i].receipt = outbox[i].receipt /\ outbox'[i].digest = outbox[i].digest
        /\ outbox[i].receipt \notin K
  BY OutboxAssumption DEF OutboxAssumption, Core, ReservationsHeld, OpenRow
<1>2. \A u \in Thread : SameReservation(u) /\ (ReservedKey(u)' # None => ReservedKey(u)' \notin K)
  BY UnreservedSame, OutboxAssumption DEF OutboxAssumption, Core, ReservationsApart
<1>3. \A l \in Key \ K : receipts'[l] = receipts[l]
  OBVIOUS
<1> HIDE DEF K
<1> QED
  BY <1>1, <1>2, <1>3, CoreSettled

(* No receipt and no row but a closing one is touched.                     *)
LEMMA CoreQuiet ==
  ASSUME TypeOK, Core, RowsKept, ThreadsRefer, NEW t \in Thread, Unreserved(t),
         UNCHANGED receipts,
         \A i \in RowId : OpenRow(i)' =>
           /\ OpenRow(i) /\ outbox'[i].owner = outbox[i].owner
           /\ outbox'[i].receipt = outbox[i].receipt /\ outbox'[i].digest = outbox[i].digest
  PROVE  Core'
BY UnreservedSame, CoreKept

LEMMA LeaveUnreserved == ASSUME TypeOK, NEW t \in Thread, Leave(t) PROVE Unreserved(t)
BY DEF Leave, Unreserved, TypeOK, Idle

LEMMA UnholdUnreserved == ASSUME TypeOK, NEW t \in Thread, Unhold(t) PROVE Unreserved(t)
<1>1. thread[t] \in Goroutine
  BY DEF TypeOK
<1>2. thread' = [thread EXCEPT ![t] = [thread[t] EXCEPT !.pc = "next", !.cur = 0, !.res = "none"]]
  BY DEF Unhold
<1>3. thread'[t].pc = "next"
  BY <1>1, <1>2 DEF TypeOK, Goroutine
<1> QED
  BY <1>2, <1>3 DEF Unreserved, TypeOK

(* The reserved request's message is recorded: the row takes the place of  *)
(* the reservation.                                                        *)
LEMMA CoreRecorded ==
  ASSUME TypeOK, Core, RowsKept, ThreadsRefer, NEW c \in Caller, RecordMessage(c)
  PROVE  Core'
<1> DEFINE n == lastId + 1
<1> DEFINE k == thread[c].key
<1>1. c \in Thread /\ thread[c] \in Goroutine /\ thread[c].pc = "reserved"
  BY DEF RecordMessage, Thread, TypeOK
<1>2. k \in Key /\ ReservedKey(c) = k /\ k # None
  BY <1>1, OutboxAssumption DEF OutboxAssumption, ThreadsRefer, Refers, ReservedKey
<1>3. /\ n \in RowId /\ receipts' = receipts
      /\ \A j \in RowId \ {n} : outbox'[j] = outbox[j]
      /\ outbox'[n] = [state |-> "pending", kind |-> Message, owner |-> At(c),
                       receipt |-> k, digest |-> thread[c].digest]
  BY OutboxAssumption DEF OutboxAssumption, RecordMessage, TypeOK, RowId
<1>4. outbox'[n].receipt = k /\ outbox'[n].owner = At(c) /\ outbox'[n].digest = thread[c].digest
  BY <1>3
<1>5. /\ receipts[k].state = "pending" /\ receipts[k].owner = At(c)
      /\ receipts[k].digest = thread[c].digest
      /\ \A i \in RowId : OpenRow(i) => outbox[i].receipt # k
  BY <1>1, <1>2 DEF Core, ReservationsHeld
<1>6. Unreserved(c)
  <2>1. thread' = [thread EXCEPT ![c] = [thread[c] EXCEPT !.pc = "next", !.todo = {n}]]
    BY DEF RecordMessage
  <2>2. thread'[c].pc = "next"
    BY <1>1, <2>1 DEF TypeOK, Goroutine
  <2> QED
    BY <2>1, <2>2 DEF Unreserved, TypeOK
<1>7. /\ \A u \in Thread : SameReservation(u)
      /\ ReservedKey(c)' = None
      /\ \A u \in Thread \ {c} : ReservedKey(u)' = ReservedKey(u)
  BY <1>1, <1>6, UnreservedSame
<1>8. \A u \in Thread : ReservedKey(u)' # k
  BY <1>1, <1>2, <1>7 DEF Core, ReservationsApart
<1> HIDE DEF n, k
<1>9. ReservationsHeld'
  <2> SUFFICES ASSUME NEW u \in Thread, ReservedKey(u)' # None
               PROVE  /\ receipts'[ReservedKey(u)'].state = "pending"
                      /\ receipts'[ReservedKey(u)'].owner = thread'[u].at
                      /\ thread'[u].pc = "reserved" =>
                           receipts'[ReservedKey(u)'].digest = thread'[u].digest
                      /\ \A i \in RowId : OpenRow(i)' => outbox'[i].receipt # ReservedKey(u)'
    BY DEF ReservationsHeld, At
  <2>1. /\ ReservedKey(u)' = ReservedKey(u) /\ ReservedKey(u) # None
        /\ thread'[u].at = thread[u].at
        /\ thread'[u].pc = "reserved" =>
             thread[u].pc = "reserved" /\ thread'[u].digest = thread[u].digest
    BY <1>7 DEF SameReservation
  <2>2. /\ receipts[ReservedKey(u)].state = "pending"
        /\ receipts[ReservedKey(u)].owner = thread[u].at
        /\ thread[u].pc = "reserved" => receipts[ReservedKey(u)].digest = thread[u].digest
        /\ \A i \in RowId : OpenRow(i) => outbox[i].receipt # ReservedKey(u)
    BY <2>1 DEF Core, ReservationsHeld, At
  <2>3. \A i \in RowId : OpenRow(i)' => outbox'[i].receipt # ReservedKey(u)'
    BY <1>3, <1>4, <1>8, <2>1, <2>2 DEF OpenRow
  <2> QED
    BY <1>3, <2>1, <2>2, <2>3
<1>10. ReservationsApart'
  BY <1>7 DEF Core, ReservationsApart
<1>11. OneOpenRow'
  <2> SUFFICES ASSUME NEW i \in RowId, NEW j \in RowId, OpenRow(i)', OpenRow(j)',
                      outbox'[i].receipt # None, outbox'[i].receipt = outbox'[j].receipt
               PROVE  i = j
    BY DEF OneOpenRow
  <2>1. CASE i # n /\ j # n
    BY <1>3, <2>1 DEF Core, OneOpenRow, OpenRow
  <2>2. CASE i = n \/ j = n
    BY <1>3, <1>4, <1>5, <2>2 DEF OpenRow
  <2> QED
    BY <2>1, <2>2
<1>12. OpenEffectOwnsReceipt'
  <2> SUFFICES ASSUME NEW i \in RowId, OpenRow(i)', outbox'[i].receipt # None
               PROVE  /\ receipts'[outbox'[i].receipt].state = "pending"
                      /\ receipts'[outbox'[i].receipt].owner = outbox'[i].owner
                      /\ receipts'[outbox'[i].receipt].digest = outbox'[i].digest
    BY DEF OpenEffectOwnsReceipt
  <2>1. CASE i = n
    BY <1>3, <1>4, <1>5, <2>1
  <2>2. CASE i # n
    BY <1>3, <2>2 DEF Core, OpenEffectOwnsReceipt, OpenRow
  <2> QED
    BY <2>1, <2>2
<1> QED
  BY <1>9, <1>10, <1>11, <1>12 DEF Core

LEMMA CoreDecide ==
  ASSUME TypeOK, Core, RowsKept, ThreadsRefer, NEW c \in Caller, Decide(c)
  PROVE  Core'
<1>1. c \in Thread /\ thread[c] \in Goroutine
  BY DEF Thread, TypeOK
<1>a. ASSUME thread[c].pc \in {"orphaned", "refusing"}
      PROVE  thread[c].key \in Key /\ ReservedKey(c) = thread[c].key
  BY <1>1, <1>a DEF ThreadsRefer, Refers, ReservedKey
<1>b. ASSUME UNCHANGED <<receipts, outbox>>, Leave(c) PROVE Core'
  BY <1>1, <1>b, LeaveUnreserved, CoreQuiet DEF OpenRow
<1>2. CASE CompleteOrphan(c)
  <2>1. thread[c].pc = "orphaned" /\ outbox' = outbox /\ Leave(c)
    BY <1>2 DEF CompleteOrphan
  <2>2. \A l \in Key \ {thread[c].key} : receipts'[l] = receipts[l]
    BY <1>2 DEF CompleteOrphan, TypeOK
  <2> QED
    BY <1>1, <1>a, <2>1, <2>2, LeaveUnreserved, CoreLeft
<1>3. CASE GiveBack(c)
  <2>1. thread[c].pc = "refusing" /\ outbox' = outbox /\ Leave(c)
    BY <1>3 DEF GiveBack
  <2>2. \A l \in Key \ {thread[c].key} : receipts'[l] = receipts[l]
    BY <1>3 DEF GiveBack, Released, TypeOK
  <2> QED
    BY <1>1, <1>a, <2>1, <2>2, LeaveUnreserved, CoreLeft
<1>4. CASE CompleteOrphanFails(c) \/ GiveBackFails(c)
  BY <1>4, <1>b DEF CompleteOrphanFails, GiveBackFails
<1>5. CASE Refuse(c)
  <2>1. /\ thread' = [thread EXCEPT ![c] = [thread[c] EXCEPT !.pc = "refusing"]]
        /\ thread[c].pc = "reserved" /\ UNCHANGED <<outbox, receipts>>
    BY <1>5 DEF Refuse, Goto
  <2>2. thread'[c] = [thread[c] EXCEPT !.pc = "refusing"]
    BY <1>1, <2>1 DEF TypeOK
  <2>3. /\ thread'[c].pc = "refusing" /\ thread'[c].key = thread[c].key
        /\ thread'[c].at = thread[c].at
    BY <1>1, <2>2 DEF Goroutine
  <2>4. SameReservation(c)
    BY <2>1, <2>3 DEF SameReservation, ReservedKey
  <2>5. \A u \in Thread \ {c} : SameReservation(u)
    BY <2>1, SameThread DEF TypeOK
  <2> QED
    BY <2>1, <2>4, <2>5, CoreKept DEF OpenRow
<1>6. CASE RecordMessage(c)
  BY <1>6, CoreRecorded
<1> QED
  BY <1>2, <1>3, <1>4, <1>5, <1>6 DEF Decide

(* Rows that answer no receipt. *)
LEMMA CoreBatch ==
  ASSUME TypeOK, Core, RowsKept, ThreadsRefer, NEW c \in Caller, Batch(c)
  PROVE  Core'
<1> PICK h \in Handle, kind \in Kind, n \in BatchSizes : RecordBatch(c, h, kind, n)
  BY DEF Batch
<1>1. c \in Thread /\ receipts' = receipts
  BY DEF Thread, RecordBatch
<1>2. Unreserved(c)
  BY <1>1 DEF RecordBatch, Unreserved, TypeOK, Idle
<1>3. \A u \in Thread : SameReservation(u)
  BY <1>1, <1>2, UnreservedSame
<1>4. \A i \in RowId : outbox'[i] = outbox[i] \/ outbox'[i].receipt = None
  BY DEF RecordBatch
<1>5. \A i \in RowId : OpenRow(i)' /\ outbox'[i].receipt # None => OpenRow(i) /\ outbox'[i] = outbox[i]
  BY <1>4 DEF OpenRow
<1>6. ReservationsHeld'
  <2> SUFFICES ASSUME NEW u \in Thread, ReservedKey(u)' # None
               PROVE  /\ receipts'[ReservedKey(u)'].state = "pending"
                      /\ receipts'[ReservedKey(u)'].owner = thread'[u].at
                      /\ thread'[u].pc = "reserved" =>
                           receipts'[ReservedKey(u)'].digest = thread'[u].digest
                      /\ \A i \in RowId : OpenRow(i)' => outbox'[i].receipt # ReservedKey(u)'
    BY DEF ReservationsHeld, At
  <2>1. /\ ReservedKey(u)' = ReservedKey(u) /\ ReservedKey(u) # None
        /\ thread'[u].at = thread[u].at
        /\ thread'[u].pc = "reserved" =>
             thread[u].pc = "reserved" /\ thread'[u].digest = thread[u].digest
    BY <1>3 DEF SameReservation
  <2>2. /\ receipts[ReservedKey(u)].state = "pending"
        /\ receipts[ReservedKey(u)].owner = thread[u].at
        /\ thread[u].pc = "reserved" => receipts[ReservedKey(u)].digest = thread[u].digest
        /\ \A i \in RowId : OpenRow(i) => outbox[i].receipt # ReservedKey(u)
    BY <2>1 DEF Core, ReservationsHeld, At
  <2> QED
    BY <1>1, <1>5, <2>1, <2>2
<1>7. ReservationsApart'
  BY <1>3 DEF Core, ReservationsApart, SameReservation
<1>8. OneOpenRow'
  BY <1>5 DEF Core, OneOpenRow
<1>9. OpenEffectOwnsReceipt'
  BY <1>1, <1>5 DEF Core, OpenEffectOwnsReceipt
<1> QED
  BY <1>6, <1>7, <1>8, <1>9 DEF Core

(* The rows that are taken over take their receipts with them.             *)
LEMMA CoreAdopt ==
  ASSUME TypeOK, Core, RowsKept, ThreadsRefer, NEW h \in Handle, AdoptEffects(h)
  PROVE  Core'
<1> DEFINE S == Adoptable(h)
<1> DEFINE ks == {outbox[i].receipt : i \in S}
<1>1. h \in Thread /\ S \subseteq {i \in RowId : OpenRow(i)}
  BY DEF Thread, Adoptable
<1>2. \A i \in RowId : outbox'[i] = IF i \in S THEN [outbox[i] EXCEPT !.owner = h] ELSE outbox[i]
  BY DEF AdoptEffects
<1>3. \A k \in Key : receipts'[k] = IF k \in ks /\ receipts[k].state = "pending"
                                    THEN [receipts[k] EXCEPT !.owner = h] ELSE receipts[k]
  BY DEF AdoptEffects
<1>4. Unreserved(h)
  BY <1>1 DEF AdoptEffects, Unreserved, TypeOK, Idle
<1>5. \A u \in Thread : SameReservation(u)
  BY <1>1, <1>4, UnreservedSame
<1>6. \A i \in RowId : outbox[i] \in Row
  BY DEF TypeOK
<1>7. \A i \in RowId : /\ outbox'[i].state = outbox[i].state
                       /\ outbox'[i].receipt = outbox[i].receipt
                       /\ outbox'[i].digest = outbox[i].digest
                       /\ outbox'[i].owner = IF i \in S THEN h ELSE outbox[i].owner
  BY <1>2, <1>6 DEF Row
<1>8. \A k \in Key : receipts[k] \in Receipt
  BY DEF TypeOK
<1>9. \A k \in Key : /\ receipts'[k].state = receipts[k].state
                     /\ receipts'[k].digest = receipts[k].digest
                     /\ k \notin ks => receipts'[k].owner = receipts[k].owner
                     /\ k \in ks /\ receipts[k].state = "pending" => receipts'[k].owner = h
  BY <1>3, <1>8 DEF Receipt
<1> HIDE DEF S
<1>10. \A i \in RowId : OpenRow(i)' <=> OpenRow(i)
  BY <1>7 DEF OpenRow
<1>11. ReservationsHeld'
  <2> SUFFICES ASSUME NEW u \in Thread, ReservedKey(u)' # None
               PROVE  /\ receipts'[ReservedKey(u)'].state = "pending"
                      /\ receipts'[ReservedKey(u)'].owner = thread'[u].at
                      /\ thread'[u].pc = "reserved" =>
                           receipts'[ReservedKey(u)'].digest = thread'[u].digest
                      /\ \A i \in RowId : OpenRow(i)' => outbox'[i].receipt # ReservedKey(u)'
    BY DEF ReservationsHeld, At
  <2>1. /\ ReservedKey(u)' = ReservedKey(u) /\ ReservedKey(u) # None
        /\ thread'[u].at = thread[u].at
        /\ thread'[u].pc = "reserved" =>
             thread[u].pc = "reserved" /\ thread'[u].digest = thread[u].digest
    BY <1>5 DEF SameReservation
  <2>2. /\ receipts[ReservedKey(u)].state = "pending"
        /\ receipts[ReservedKey(u)].owner = thread[u].at
        /\ thread[u].pc = "reserved" => receipts[ReservedKey(u)].digest = thread[u].digest
        /\ \A i \in RowId : OpenRow(i) => outbox[i].receipt # ReservedKey(u)
    BY <2>1 DEF Core, ReservationsHeld, At
  <2>3. ReservedKey(u) \in Key
    BY <2>1 DEF ThreadsRefer, Refers, ReservedKey
  <2>4. ReservedKey(u) \notin ks
    BY <1>1, <2>2
  <2>5. receipts'[ReservedKey(u)].state = receipts[ReservedKey(u)].state
        /\ receipts'[ReservedKey(u)].digest = receipts[ReservedKey(u)].digest
        /\ receipts'[ReservedKey(u)].owner = receipts[ReservedKey(u)].owner
    BY <1>9, <2>3, <2>4
  <2>6. \A i \in RowId : OpenRow(i)' => outbox'[i].receipt # ReservedKey(u)'
    BY <1>7, <1>10, <2>1, <2>2
  <2> QED
    BY <2>1, <2>2, <2>5, <2>6
<1>12. ReservationsApart'
  BY <1>5 DEF Core, ReservationsApart, SameReservation
<1>13. OneOpenRow'
  BY <1>7, <1>10 DEF Core, OneOpenRow
<1>14. OpenEffectOwnsReceipt'
  <2> SUFFICES ASSUME NEW i \in RowId, OpenRow(i)', outbox'[i].receipt # None
               PROVE  /\ receipts'[outbox'[i].receipt].state = "pending"
                      /\ receipts'[outbox'[i].receipt].owner = outbox'[i].owner
                      /\ receipts'[outbox'[i].receipt].digest = outbox'[i].digest
    BY DEF OpenEffectOwnsReceipt
  <2>1. OpenRow(i) /\ outbox[i].receipt # None /\ outbox'[i].receipt = outbox[i].receipt
        /\ outbox[i].receipt \in Key
    BY <1>6, <1>7, <1>10 DEF Row
  <2>2. /\ receipts[outbox[i].receipt].state = "pending"
        /\ receipts[outbox[i].receipt].owner = outbox[i].owner
        /\ receipts[outbox[i].receipt].digest = outbox[i].digest
    BY <2>1 DEF Core, OpenEffectOwnsReceipt
  <2>3. outbox[i].receipt \in ks <=> i \in S
    BY <1>1, <2>1 DEF Core, OneOpenRow
  <2> QED
    BY <1>7, <1>9, <2>1, <2>2, <2>3
<1> QED
  BY <1>11, <1>12, <1>13, <1>14 DEF Core

(* A row is finished, and its receipt with it when there is an answer.     *)
LEMMA CoreFinished ==
  ASSUME TypeOK, Core, RowsKept, ThreadsRefer, NEW t \in Thread, Unreserved(t),
         NEW h, NEW i \in RowId, NEW s, s \notin Open, NEW a, FinishEffect(h, i, s, a)
  PROVE  Core'
<1> DEFINE k == outbox[i].receipt
<1> DEFINE K == {k} \ {None}
<1>1. OpenRow(i) /\ outbox[i] \in Row
  BY DEF FinishEffect, Finishable, OpenRow, Open, TypeOK
<1>2. outbox' = [outbox EXCEPT ![i] = [outbox[i] EXCEPT !.state = s]]
  BY DEF FinishEffect
<1>3. outbox'[i].state = s /\ \A j \in RowId \ {i} : outbox'[j] = outbox[j]
  BY <1>1, <1>2 DEF TypeOK, Row
<1>4. \A j \in RowId : OpenRow(j)' =>
        /\ OpenRow(j) /\ outbox'[j].owner = outbox[j].owner
        /\ outbox'[j].receipt = outbox[j].receipt /\ outbox'[j].digest = outbox[j].digest
        /\ outbox[j].receipt \notin K
  BY <1>1, <1>3 DEF OpenRow, Core, OneOpenRow
<1>5. \A u \in Thread : SameReservation(u) /\ (ReservedKey(u)' # None => ReservedKey(u)' \notin K)
  <2>1. \A u \in Thread : SameReservation(u)
    BY UnreservedSame
  <2>2. \A u \in Thread : ReservedKey(u) # None => ReservedKey(u) # k
    BY <1>1 DEF Core, ReservationsHeld
  <2> QED
    BY <2>1, <2>2 DEF SameReservation
<1>6. \A l \in Key \ K : receipts'[l] = receipts[l]
  BY DEF FinishEffect, TypeOK
<1> HIDE DEF K
<1> QED
  BY <1>4, <1>5, <1>6, CoreSettled

(* A refused message is finished before its key is given back. *)
LEMMA CoreRefused ==
  ASSUME TypeOK, Core, RowsKept, ThreadsRefer, NEW t \in Thread,
         thread[t].pc = "ended", thread[t].res = "refused", Goto(t, "releasing"),
         Cur(t).receipt # None, NEW s, s \notin Open, FinishEffect(At(t), thread[t].cur, s, None)
  PROVE  Core'
<1> DEFINE i == thread[t].cur
<1> DEFINE k == outbox[i].receipt
<1>1. i \in RowId /\ i \in 1 .. lastId
  BY OutboxAssumption DEF OutboxAssumption, ThreadsRefer, Refers, TypeOK, RowId
<1>2. OpenRow(i) /\ outbox[i] \in Row
  BY <1>1 DEF FinishEffect, Finishable, OpenRow, Open, TypeOK
<1>3. k \in Key /\ k # None
  BY <1>2 DEF Row, Cur
<1>4. outbox' = [outbox EXCEPT ![i] = [outbox[i] EXCEPT !.state = s]] /\ receipts' = receipts
      /\ outbox[i].owner = At(t)
  BY DEF FinishEffect, Finishable
<1>5. outbox'[i].state = s /\ outbox'[i].receipt = k /\ \A j \in RowId \ {i} : outbox'[j] = outbox[j]
  BY <1>1, <1>2, <1>4 DEF TypeOK, Row
<1>6. \A j \in RowId : OpenRow(j)' =>
        /\ OpenRow(j) /\ outbox'[j].owner = outbox[j].owner
        /\ outbox'[j].receipt = outbox[j].receipt /\ outbox'[j].digest = outbox[j].digest
        /\ outbox[j].receipt # k
  BY <1>1, <1>2, <1>3, <1>5 DEF OpenRow, Core, OneOpenRow
<1>7. thread' = [thread EXCEPT ![t] = [thread[t] EXCEPT !.pc = "releasing"]]
  BY DEF Goto
<1>8. thread[t] \in Goroutine
  BY DEF TypeOK
<1>9. thread'[t] = [thread[t] EXCEPT !.pc = "releasing"]
  BY <1>7 DEF TypeOK
<1>10. thread'[t].pc = "releasing" /\ thread'[t].at = At(t) /\ thread'[t].cur = i
  BY <1>8, <1>9 DEF Goroutine, At
<1>11. ReservedKey(t)' = k
  BY <1>5, <1>10 DEF ReservedKey, Cur
<1>12. \A u \in Thread : ReservedKey(u) # k
  BY <1>1, <1>2, <1>3 DEF Core, ReservationsHeld
<1>13. \A u \in Thread \ {t} : thread'[u] = thread[u] /\ ReservedKey(u) # k
  BY <1>7, <1>12 DEF TypeOK
<1>14. receipts'[k].state = "pending" /\ receipts'[k].owner = thread'[t].at
  BY <1>1, <1>2, <1>3, <1>4, <1>10 DEF Core, OpenEffectOwnsReceipt
<1>15. thread'[t].pc = "reserved" => receipts'[k].digest = thread'[t].digest
  BY <1>10
<1>16. \A l \in Key \ {k} : receipts'[l] = receipts[l]
  BY <1>4
<1> HIDE DEF k, i
<1> QED
  BY <1>3, <1>6, <1>11, <1>13, <1>14, <1>15, <1>16, CoreReserved

LEMMA CoreRun ==
  ASSUME TypeOK, Core, RowsKept, ThreadsRefer, NEW t \in Thread, Run(t)
  PROVE  Core'
<1>1. thread[t] \in Goroutine
  BY DEF TypeOK
<1>a. ASSUME NEW g, thread' = [thread EXCEPT ![t] = g],
             g.pc \notin {"reserved", "refusing", "orphaned", "releasing"}
      PROVE  Unreserved(t)
  BY <1>a DEF Unreserved, TypeOK
<1>b. ASSUME Unreserved(t), UNCHANGED <<receipts, outbox>> PROVE Core'
  BY <1>b, CoreQuiet DEF OpenRow
<1>c. ASSUME NEW i \in RowId, Drop(t, i), thread[t].pc = "next" PROVE Unreserved(t)
  <2>1. thread' = [thread EXCEPT ![t] = [thread[t] EXCEPT !.todo = @ \ {i}]]
    BY <1>c DEF Drop
  <2>2. [thread[t] EXCEPT !.todo = @ \ {i}].pc = "next"
    BY <1>1, <1>c DEF Goroutine
  <2> QED
    BY <1>a, <2>1, <2>2
<1>2. CASE Return(t)
  BY <1>2, <1>b, LeaveUnreserved DEF Return
<1>3. ASSUME NEW i \in RowId, SettleUnknown(t, i) PROVE Core'
  <2>1. Unreserved(t)
    BY <1>3, <1>c DEF SettleUnknown, TurnsTo
  <2>2. FinishEffect(At(t), i, "unknown", "unknown") \/ UNCHANGED <<outbox, receipts>>
    BY <1>3 DEF SettleUnknown
  <2> QED
    BY <1>b, <2>1, <2>2, CoreFinished DEF Open
<1>4. ASSUME NEW i \in RowId, Hold(t, i) PROVE Core'
  <2>1. thread' = [thread EXCEPT ![t] = [thread[t] EXCEPT !.pc = "holds", !.cur = i, !.todo = @ \ {i}]]
        /\ UNCHANGED <<receipts, outbox>>
    BY <1>4 DEF Hold
  <2>2. [thread[t] EXCEPT !.pc = "holds", !.cur = i, !.todo = @ \ {i}].pc = "holds"
    BY <1>1 DEF Goroutine
  <2> QED
    BY <1>a, <1>b, <2>1, <2>2
<1>5. ASSUME NEW i \in RowId, HoldRefused(t, i) PROVE Core'
  BY <1>5, <1>b, <1>c DEF HoldRefused, TurnsTo
<1>6. CASE StartEffect(t)
  <2>1. /\ thread' = [thread EXCEPT ![t] = [thread[t] EXCEPT !.pc = "started"]]
        /\ receipts' = receipts
        /\ outbox' = [outbox EXCEPT ![thread[t].cur].state = "started"]
        /\ OpenRow(thread[t].cur)
    BY <1>6 DEF StartEffect, Goto
  <2>2. [thread[t] EXCEPT !.pc = "started"].pc = "started"
    BY <1>1 DEF Goroutine
  <2>3. Unreserved(t)
    BY <1>a, <2>1, <2>2
  <2>4. \A i \in RowId : outbox[i] \in Row
    BY DEF TypeOK
  <2>5. \A i \in RowId : OpenRow(i)' =>
          /\ OpenRow(i) /\ outbox'[i].owner = outbox[i].owner
          /\ outbox'[i].receipt = outbox[i].receipt /\ outbox'[i].digest = outbox[i].digest
    BY <2>1, <2>4 DEF OpenRow, TypeOK, Row
  <2> QED
    BY <2>1, <2>3, <2>5, CoreQuiet
<1>7. CASE StartFails(t) \/ FinishFails(t)
  BY <1>7, <1>b, UnholdUnreserved DEF StartFails, FinishFails
<1>8. CASE Attempt(t)
  <2>1. PICK res : thread' = [thread EXCEPT ![t] = [thread[t] EXCEPT !.pc = "ended", !.res = res]]
    BY <1>8 DEF Attempt, Took
  <2>2. [thread[t] EXCEPT !.pc = "ended", !.res = res].pc = "ended"
    BY <1>1 DEF Goroutine
  <2>3. UNCHANGED <<receipts, outbox>>
    BY <1>8 DEF Attempt
  <2> QED
    BY <1>a, <1>b, <2>1, <2>2, <2>3
<1>9. CASE Finish(t)
  <2>1. /\ thread[t].pc = "ended"
        /\ FinishEffect(At(t), thread[t].cur, EndState(thread[t].res), EndAnswer(t))
        /\ EndState(thread[t].res) \notin Open
    BY <1>9 DEF Finish, EndState, Open
  <2>2. CASE thread[t].res = "refused" /\ Cur(t).receipt # None
    <3>1. EndAnswer(t) = None /\ Goto(t, "releasing")
      BY <1>9, <2>2 DEF Finish, EndAnswer
    <3> QED
      BY <2>1, <2>2, <3>1, CoreRefused
  <2>3. CASE ~(thread[t].res = "refused" /\ Cur(t).receipt # None)
    <3>1. Unhold(t)
      BY <1>9, <2>3 DEF Finish
    <3>2. thread[t].cur \in RowId
      BY <2>1, OutboxAssumption DEF OutboxAssumption, ThreadsRefer, Refers, TypeOK, RowId
    <3> QED
      BY <2>1, <3>1, <3>2, UnholdUnreserved, CoreFinished
  <2> QED
    BY <2>2, <2>3
<1>10. CASE ReleaseAfter(t)
  <2> DEFINE k == Cur(t).receipt
  <2>1. thread[t].pc = "releasing" /\ outbox' = outbox /\ Unhold(t)
    BY <1>10 DEF ReleaseAfter
  <2>2. k \in Key /\ ReservedKey(t) = k
    BY <2>1 DEF ThreadsRefer, Refers, ReservedKey
  <2>3. \A l \in Key \ {k} : receipts'[l] = receipts[l]
    BY <1>10 DEF ReleaseAfter, Released, TypeOK
  <2> HIDE DEF k
  <2> QED
    BY <2>1, <2>2, <2>3, UnholdUnreserved, CoreLeft
<1> QED
  BY <1>2, <1>3, <1>4, <1>5, <1>6, <1>7, <1>8, <1>9, <1>10 DEF Run

LEMMA CoreBeat ==
  ASSUME TypeOK, Core, RowsKept, ThreadsRefer, NEW h \in Handle, Beat(h)
  PROVE  Core'
<1>1. CASE AdoptEffects(h)
  BY <1>1, CoreAdopt
<1>2. ASSUME NEW i \in RowId, ReadUnattended(h, i) PROVE Core'
  <2>1. Unreserved(h)
    BY <1>2 DEF ReadUnattended, Unreserved, TypeOK, Idle
  <2> QED
    BY <1>2, <2>1, CoreQuiet DEF ReadUnattended, OpenRow, Thread
<1> QED
  BY <1>1, <1>2 DEF Beat

LEMMA CoreStep ==
  ASSUME TypeOK, Core, ThreadsLive, ThreadsRefer, FreshRows, [Next]_vars
  PROVE  Core'
<1>0. RowsKept
  BY RowsStep
<1>a. ASSUME UNCHANGED <<receipts, outbox>>, \A u \in Thread : thread'[u] \in {thread[u], Idle}
      PROVE  Core'
  <2>1. \A u \in Thread : SameReservation(u)
    BY <1>0, <1>a, SameThread, NoReservation DEF Idle
  <2> QED
    BY <1>a, <2>1, CoreKept DEF OpenRow
<1>1. ASSUME NEW c \in Caller, Claim(c) PROVE Core'
  BY <1>0, <1>1, CoreClaim
<1>2. ASSUME NEW c \in Caller, Decide(c) PROVE Core'
  BY <1>0, <1>2, CoreDecide
<1>3. ASSUME NEW c \in Caller, Batch(c) PROVE Core'
  BY <1>0, <1>3, CoreBatch
<1>4. ASSUME NEW t \in Thread, Run(t) PROVE Core'
  BY <1>0, <1>4, CoreRun
<1>5. ASSUME NEW h \in Handle, Beat(h) PROVE Core'
  BY <1>0, <1>5, CoreBeat
<1>6. ASSUME NEW h \in Handle, ExpireReceipts(h) PROVE Core'
  <2> DEFINE K == {k \in Key : receipts[k].state # "pending"}
  <2>1. /\ \A l \in Key \ K : receipts'[l] = receipts[l]
        /\ UNCHANGED <<outbox, thread>>
    BY <1>6 DEF ExpireReceipts
  <2>2. \A i \in RowId : OpenRow(i) => outbox[i].receipt \notin K
    BY PendingOnly
  <2>3. \A u \in Thread : ReservedKey(u) \notin K
    BY PendingOnly
  <2>4. \A u \in Thread : SameReservation(u) /\ (ReservedKey(u)' # None => ReservedKey(u)' \notin K)
    BY <1>0, <2>1, <2>3, SameThread
  <2>5. \A i \in RowId : OpenRow(i)' =>
          /\ OpenRow(i) /\ outbox'[i].owner = outbox[i].owner
          /\ outbox'[i].receipt = outbox[i].receipt /\ outbox'[i].digest = outbox[i].digest
          /\ outbox[i].receipt \notin K
    BY <2>1, <2>2 DEF OpenRow
  <2> HIDE DEF K
  <2> QED
    BY <2>1, <2>4, <2>5, CoreSettled
<1>7. ASSUME NEW h \in Handle, Boot(h) \/ PidFreed(h) PROVE Core'
  BY <1>7, <1>a DEF Boot, PidFreed
<1>8. ASSUME NEW h \in Handle, Crash(h) PROVE Core'
  BY <1>8, <1>a DEF Crash
<1>9. ASSUME NEW k \in Key, WindowPasses(k) PROVE Core'
  BY <1>9, <1>a DEF WindowPasses
<1>10. CASE UNCHANGED vars
  BY <1>10, <1>a DEF vars
<1> QED
  BY <1>1, <1>2, <1>3, <1>4, <1>5, <1>6, <1>7, <1>8, <1>9, <1>10 DEF Next

-----------------------------------------------------------------------------
(* The theorems.                                                           *)

LEMMA InitIInv == Init => IInv
<1> SUFFICES ASSUME Init PROVE IInv
  OBVIOUS
<1> USE OutboxAssumption DEF OutboxAssumption, Init
<1>1. TypeOK
  BY IdleTyped DEF TypeOK, Receipt, Row, NoReceipt, NoRow, RowId
<1>2. \A t \in Thread : thread[t].pc = "idle" /\ thread[t].todo = {}
  BY DEF Idle
<1>3. ThreadsLive /\ ThreadsRefer
  BY <1>2 DEF ThreadsLive, ThreadsRefer, Refers
<1>4. FreshRows
  BY DEF FreshRows
<1>5. \A t \in Thread : ReservedKey(t) = None
  BY <1>2 DEF ReservedKey
<1>6. \A i \in RowId : ~OpenRow(i)
  BY DEF OpenRow, NoRow, Open
<1> QED
  BY <1>1, <1>3, <1>4, <1>5, <1>6
     DEF IInv, ReservationsHeld, ReservationsApart, OneOpenRow, OpenEffectOwnsReceipt

LEMMA NextIInv == IInv /\ [Next]_vars => IInv'
<1> SUFFICES ASSUME IInv, [Next]_vars PROVE IInv'
  OBVIOUS
<1>1. TypeOK'
  BY TypeStep DEF IInv
<1>2. ThreadsLive'
  BY LiveStep DEF IInv
<1>3. ThreadsRefer'
  BY ReferStep DEF IInv
<1>4. FreshRows'
  BY RowsStep DEF IInv
<1>5. Core'
  BY CoreStep DEF IInv, Core
<1> QED
  BY <1>1, <1>2, <1>3, <1>4, <1>5 DEF IInv, Core

THEOREM Inductive == Spec => []IInv
BY InitIInv, NextIInv, PTL DEF Spec

(* Whatever requests, beats, crashes and failing writes do, the tables,    *)
(* the holds and the goroutines' bookkeeping keep their types (a final     *)
(* answer is one of the three that receipts file, for one).                *)
THEOREM TypeCorrect == Spec => []TypeOK
<1>1. IInv => TypeOK
  BY DEF IInv
<1> QED
  BY <1>1, Inductive, PTL

(* Any number of daemons, goroutines, keys, rows and failing writes: the   *)
(* receipt of an effect still owed is pending, owned by the row's owner    *)
(* and about the same request, so FinishEffect's completion never meets a  *)
(* receipt that is not its own.                                            *)
THEOREM EffectOwnsReceipt == Spec => []OpenEffectOwnsReceipt
<1>1. IInv => OpenEffectOwnsReceipt
  BY DEF IInv
<1> QED
  BY <1>1, Inductive, PTL

=============================================================================

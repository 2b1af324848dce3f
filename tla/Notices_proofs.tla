--------------------------- MODULE Notices_proofs ---------------------------
(***************************************************************************)
(* For every number of daemons, acknowledgements and people who start the  *)
(* ladder again, an acknowledgement that was granted stays.  It rests on   *)
(* the compare-and-set and on what a writer may have read: a pass attempts *)
(* nothing acknowledged, a person starts nothing again that is             *)
(* acknowledged, and a retyping, which may have read anything, writes back *)
(* the state it read.  With one daemon, a ladder owes one push at most, is *)
(* typed within its budget, and is not typed once its root has read it.    *)
(***************************************************************************)
EXTENDS Notices, FiniteSetTheorems, TLAPS

OpenState == {"pending", "delivered"}

Closed(n) == n.state = "acknowledged" => n.observed

RowFits ==
  /\ row \in Notice /\ Closed(row)
  /\ pushes \in Nat /\ rearms \in Nat
  /\ AckIsKept

\* A pass attempts nothing that was acknowledged when it read it.
PumpFits ==
  /\ pump \in [Pump -> [pc : {"idle", "due", "attempt", "listed", "retype"} \cup InFlight, seen : Notice]]
  /\ \A p \in Pump :
       /\ Closed(pump[p].seen)
       /\ pump[p].pc \in {"attempt", "typed", "unsure"} => pump[p].seen.state # "acknowledged"

AskersFit == asking \in [Asker -> [pc : {"idle", "read", "done", "refused"}, seen : Notice, tries : Nat]]

RearmersFit ==
  /\ rearming \in [Rearmer -> [pc : {"idle", "read"}, seen : Notice]]
  /\ \A r \in Rearmer : rearming[r].pc = "read" => rearming[r].seen.state # "acknowledged"

CountsFit == deferred \subseteq Pump /\ typed \in Int /\ troubles \in Nat

IInv == RowFits /\ PumpFits /\ AskersFit /\ RearmersFit /\ CountsFit

-----------------------------------------------------------------------------
(* What the writers write is a notice, in the state they give it. *)

LEMMA WritesDead ==
  ASSUME NEW n \in Notice, NEW c \in Code
  PROVE  DeadLetter(n, c) \in Notice /\ DeadLetter(n, c).state = "dead_letter"
BY DEF DeadLetter, Notice, NoticeState

LEMMA WritesSpent ==
  ASSUME NEW n \in Notice, NEW c \in Code
  PROVE  /\ Spent(n, c) \in Notice
         /\ Spent(n, c).state \in {n.state, "dead_letter"}
<1> DEFINE tried == [n EXCEPT !.attempts = @ + 1, !.code = c, !.due = FALSE, !.long = FALSE]
<1>1. tried \in Notice /\ tried.state = n.state
  <2>1. n.attempts + 1 \in Nat
    BY DEF Notice
  <2> DEFINE k == n.attempts + 1
  <2>2. [n EXCEPT !.attempts = k, !.code = c, !.due = FALSE, !.long = FALSE] \in Notice
    BY <2>1 DEF Notice
  <2> QED BY <2>2 DEF Notice
<1>2. DeadLetter(tried, c) \in Notice /\ DeadLetter(tried, c).state = "dead_letter"
  BY <1>1, WritesDead
<1>3. Spent(n, c) = IF tried.attempts >= AttemptLimit THEN DeadLetter(tried, c) ELSE tried
  BY DEF Spent
<1> HIDE DEF tried
<1> QED BY <1>1, <1>2, <1>3

LEMMA WritesOpen ==
  ASSUME NEW n \in Notice
  PROVE  /\ Delivered(n) \in Notice /\ Delivered(n).state = "delivered"
         /\ Uncertain(n) \in Notice /\ Uncertain(n).state = "dead_letter"
         /\ Observed(n) \in Notice /\ Observed(n).state = n.state
         /\ \A h \in Hold : Held(n, h) \in Notice /\ Held(n, h).state = n.state
         /\ Rearmed(n) \in Notice /\ Rearmed(n).state = "pending"
<1>1. n.attempts + 1 \in Nat /\ 0 \in Nat
  BY DEF Notice
<1>2. Delivered(n) \in Notice /\ Delivered(n).state = "delivered"
  BY <1>1 DEF Delivered, Notice, NoticeState, Code
<1>3. Uncertain(n) \in Notice /\ Uncertain(n).state = "dead_letter"
  BY <1>1 DEF Uncertain, DeadLetter, Notice, NoticeState, Code
<1>4. Observed(n) \in Notice /\ Observed(n).state = n.state
  BY DEF Observed, Notice, Code
<1>5. ASSUME NEW h \in Hold PROVE Held(n, h) \in Notice /\ Held(n, h).state = n.state
  BY DEF Held, Notice, Code
<1>6. Rearmed(n) \in Notice /\ Rearmed(n).state = "pending"
  BY <1>1 DEF Rearmed, Notice, NoticeState, Code
<1> QED BY <1>2, <1>3, <1>4, <1>5, <1>6

LEMMA WritesAcknowledged ==
  ASSUME NEW n \in Notice
  PROVE  /\ Acknowledged(n) \in Notice
         /\ Acknowledged(n).state = "acknowledged" /\ Acknowledged(n).observed
BY DEF Acknowledged, Observed, Notice, NoticeState, Code

LEMMA WritesRetyped ==
  ASSUME NEW n \in Notice
  PROVE  /\ [RetypeMark(n) EXCEPT !.delivered = TRUE] \in Notice
         /\ [RetypeMark(n) EXCEPT !.delivered = TRUE].state = n.state
         /\ [RetypeMark(n) EXCEPT !.delivered = TRUE].observed = n.observed
         /\ \A c \in {"failed", "native_delivery_uncertain"} :
              /\ [RetypeMark(n) EXCEPT !.code = c] \in Notice
              /\ [RetypeMark(n) EXCEPT !.code = c].state = n.state
              /\ [RetypeMark(n) EXCEPT !.code = c].observed = n.observed
<1> DEFINE k == (IF n.attempts > AttemptLimit THEN n.attempts ELSE AttemptLimit) + 1
<1>1. k \in Nat
  BY NoticesAssumption DEF Notice
<1>2. RetypeMark(n) = [n EXCEPT !.attempts = k]
  BY DEF RetypeMark
<1> HIDE DEF k
<1>3. RetypeMark(n) \in Notice /\ RetypeMark(n).state = n.state /\ RetypeMark(n).observed = n.observed
  BY <1>1, <1>2 DEF Notice
<1> QED BY <1>3 DEF Notice, Code

-----------------------------------------------------------------------------
(* The row after a compare-and-set. *)

\* A pass that attempts moves what is not acknowledged, and not to acknowledged.
LEMMA MovesUnacknowledged ==
  ASSUME RowFits, NEW seen \in Notice, NEW next \in Notice,
         seen.state # "acknowledged", next.state # "acknowledged",
         Move(seen, next), UNCHANGED <<asking, rearms>>
  PROVE  RowFits'
<1>1. CASE Unmoved(seen)
  <2>1. row' = next /\ pushes' = (IF OwesPush(seen, next) THEN pushes + 1 ELSE pushes)
    BY <1>1 DEF Move
  <2>2. row.state # "acknowledged"
    BY <1>1 DEF Unmoved
  <2>3. AckIsKept'
    BY <2>2 DEF RowFits, AckIsKept
  <2>4. pushes' \in Nat
    BY <2>1 DEF RowFits
  <2> QED BY <2>1, <2>3, <2>4 DEF RowFits, Closed
<1>2. CASE ~Unmoved(seen)
  BY <1>2 DEF Move, RowFits, AckIsKept, Closed
<1> QED BY <1>1, <1>2

\* A writer that keeps the state it read disturbs nothing.
LEMMA MovesInPlace ==
  ASSUME RowFits, NEW seen \in Notice, NEW next \in Notice,
         next.state = seen.state, Closed(next),
         Move(seen, next), UNCHANGED <<asking, rearms>>
  PROVE  RowFits'
<1>1. CASE Unmoved(seen)
  <2>1. row' = next /\ pushes' = pushes
    BY <1>1 DEF Move, OwesPush
  <2>2. row'.state = row.state
    BY <1>1, <2>1 DEF Unmoved
  <2> QED BY <2>1, <2>2 DEF RowFits, AckIsKept, Closed
<1>2. CASE ~Unmoved(seen)
  BY <1>2 DEF Move, RowFits, AckIsKept, Closed
<1> QED BY <1>1, <1>2

-----------------------------------------------------------------------------
(* The beats. *)

LEMMA OpenedFits == Opened \in Notice /\ Closed(Opened)
BY DEF Opened, Notice, NoticeState, Code, Closed

LEMMA Rests ==
  ASSUME PumpFits, NEW p \in Pump, Rest(p)
  PROVE  PumpFits'
BY OpenedFits DEF PumpFits, Rest, Idle

LEMMA Going ==
  ASSUME PumpFits, NEW p \in Pump, NEW pc \in {"due", "listed"} \cup InFlight, Goes(p, pc),
         pc \in {"typed", "unsure"} => pump[p].seen.state # "acknowledged"
  PROVE  PumpFits'
BY DEF PumpFits, Goes, InFlight

LEMMA Reading ==
  ASSUME PumpFits, RowFits, NEW p \in Pump, NEW pc \in {"attempt", "retype"}, Reads(p, pc),
         pc = "attempt" => row.state # "acknowledged"
  PROVE  PumpFits'
BY DEF PumpFits, RowFits, Reads, InFlight

\* A step that leaves the row and its counters alone.
LEMMA RowRests ==
  ASSUME RowFits, UNCHANGED <<row, pushes, rearms, asking>>
  PROVE  RowFits'
BY DEF RowFits, Closed, AckIsKept

LEMMA AttemptKeeps ==
  ASSUME IInv, NEW p \in Pump, Attempt(p)
  PROVE  IInv'
<1> DEFINE seen == pump[p].seen
<1>1. seen \in Notice /\ Closed(seen)
  BY DEF IInv, PumpFits
<1>2. pump[p].pc \in {"attempt", "typed", "unsure"} => seen.state # "acknowledged"
  BY DEF IInv, PumpFits
<1>3. RowFits /\ PumpFits
  BY DEF IInv
<1>4. {"none", "failed"} \cup Hold \subseteq Code
  BY DEF Code
<1>5. CASE GiveUp(p)
  <2>1. seen.state # "acknowledged"
    BY <1>2, <1>5 DEF GiveUp
  <2>2. RowFits'
    BY <1>1, <1>3, <1>4, <1>5, <2>1, WritesDead, MovesUnacknowledged DEF GiveUp
  <2>3. PumpFits'
    BY <1>3, <1>5, Rests DEF GiveUp
  <2> QED BY <1>5, <2>2, <2>3 DEF GiveUp, IInv, AskersFit, RearmersFit, CountsFit
<1>6. CASE SpendAttempt(p)
  <2>1. seen.state # "acknowledged"
    BY <1>2, <1>6 DEF SpendAttempt, Trying
  <2>2. RowFits'
    BY <1>1, <1>3, <1>4, <1>6, <2>1, WritesSpent, MovesUnacknowledged DEF SpendAttempt
  <2>3. PumpFits'
    BY <1>3, <1>6, Rests DEF SpendAttempt
  <2> QED BY <1>6, <2>2, <2>3 DEF SpendAttempt, IInv, AskersFit, RearmersFit, CountsFit
<1>7. CASE NoticeInConversation(p)
  <2>1. seen.state # "acknowledged"
    BY <1>2, <1>7 DEF NoticeInConversation, Trying
  <2>2. RowFits'
    BY <1>1, <1>3, <1>7, <2>1, WritesOpen, MovesUnacknowledged DEF NoticeInConversation
  <2>3. PumpFits'
    BY <1>3, <1>7, Rests DEF NoticeInConversation
  <2> QED BY <1>7, <2>2, <2>3 DEF NoticeInConversation, IInv, AskersFit, RearmersFit, CountsFit
<1>8. ASSUME NEW h \in Hold, HoldEnds(p, h) PROVE IInv'
  <2>1. seen.state # "acknowledged"
    BY <1>2, <1>8 DEF HoldEnds, Trying
  <2> DEFINE next == IF h = "root_choosing" THEN DeadLetter(seen, h) ELSE Spent(seen, h)
  <2>2. next \in Notice /\ next.state # "acknowledged"
    BY <1>1, <1>4, <2>1, WritesDead, WritesSpent
  <2>3. Move(seen, next)
    BY <1>8 DEF HoldEnds
  <2> HIDE DEF next
  <2>4. RowFits'
    BY <1>1, <1>3, <1>8, <2>1, <2>2, <2>3, MovesUnacknowledged DEF HoldEnds
  <2>5. PumpFits'
    BY <1>3, <1>8, Rests DEF HoldEnds
  <2> QED BY <1>8, <2>4, <2>5 DEF HoldEnds, IInv, AskersFit, RearmersFit, CountsFit
<1>9. ASSUME NEW h \in Hold, HoldNotice(p, h) PROVE IInv'
  <2>1. seen.state # "acknowledged"
    BY <1>2, <1>9 DEF HoldNotice, Trying
  <2>2. RowFits'
    <3>1. CASE UNCHANGED <<row, pushes>>
      BY <1>3, <1>9, <3>1, RowRests DEF HoldNotice
    <3>2. CASE Move(seen, Held(seen, h))
      BY <1>1, <1>3, <1>9, <2>1, <3>2, WritesOpen, MovesUnacknowledged DEF HoldNotice
    <3> QED BY <1>9, <3>1, <3>2 DEF HoldNotice
  <2>3. PumpFits'
    BY <1>3, <1>9, Rests DEF HoldNotice
  <2> QED BY <1>9, <2>2, <2>3 DEF HoldNotice, IInv, AskersFit, RearmersFit, CountsFit
<1>10. CASE TypeNotice(p)
  <2>1. PumpFits'
    BY <1>2, <1>3, <1>10, Going DEF TypeNotice, Trying, InFlight
  <2> QED BY <1>3, <1>10, <2>1, RowRests DEF TypeNotice, IInv, AskersFit, RearmersFit, CountsFit
<1>11. CASE TypeUnsure(p)
  <2>1. PumpFits'
    BY <1>2, <1>3, <1>11, Going DEF TypeUnsure, Trying, InFlight
  <2> QED BY <1>3, <1>11, <2>1, RowRests DEF TypeUnsure, IInv, AskersFit, RearmersFit, CountsFit
<1>12. CASE RecordTyped(p)
  <2>1. seen.state # "acknowledged"
    BY <1>2, <1>12 DEF RecordTyped
  <2>2. PICK next \in {Delivered(seen), Uncertain(seen)} : Move(seen, next)
    BY <1>12 DEF RecordTyped
  <2>3. next \in Notice /\ next.state # "acknowledged"
    BY <1>1, <2>2, WritesOpen DEF OpenState
  <2>4. RowFits'
    BY <1>1, <1>3, <1>12, <2>1, <2>2, <2>3, MovesUnacknowledged DEF RecordTyped
  <2>5. PumpFits'
    BY <1>3, <1>12, Rests DEF RecordTyped
  <2> QED BY <1>12, <2>4, <2>5 DEF RecordTyped, Remembered, IInv, AskersFit, RearmersFit, CountsFit
<1> QED BY <1>5, <1>6, <1>7, <1>8, <1>9, <1>10, <1>11, <1>12 DEF Attempt

LEMMA RetypeKeeps ==
  ASSUME IInv, NEW p \in Pump, RetypeIfIdle(p)
  PROVE  IInv'
<1> DEFINE seen == pump[p].seen
<1>1. seen \in Notice /\ Closed(seen) /\ RowFits /\ PumpFits
  BY DEF IInv, PumpFits
<1>2. CASE ReadListed(p)
  <2>1. PumpFits'
    BY <1>1, <1>2, Reading DEF ReadListed
  <2> QED BY <1>1, <1>2, <2>1, RowRests DEF ReadListed, IInv, AskersFit, RearmersFit, CountsFit
<1>3. CASE NotIdle(p)
  <2>1. PumpFits'
    BY <1>1, <1>3, Rests DEF NotIdle
  <2> QED BY <1>1, <1>3, <2>1, RowRests DEF NotIdle, IInv, AskersFit, RearmersFit, CountsFit
<1>4. CASE Retype(p)
  <2>1. PumpFits'
    BY <1>1, <1>4, Going DEF Retype, InFlight
  <2> QED BY <1>1, <1>4, <2>1, RowRests DEF Retype, IInv, AskersFit, RearmersFit, CountsFit
<1>5. CASE RecordRetyped(p)
  <2>1. PICK next : /\ next = [RetypeMark(seen) EXCEPT !.delivered = TRUE]
                       \/ \E c \in {"failed", "native_delivery_uncertain"} :
                            next = [RetypeMark(seen) EXCEPT !.code = c]
                    /\ Move(seen, next)
    BY <1>5 DEF RecordRetyped
  <2>2. next \in Notice /\ next.state = seen.state /\ next.observed = seen.observed
    <3>1. CASE next = [RetypeMark(seen) EXCEPT !.delivered = TRUE]
      BY ONLY <1>1, <3>1, WritesRetyped
    <3>2. ASSUME NEW c \in {"failed", "native_delivery_uncertain"}, next = [RetypeMark(seen) EXCEPT !.code = c]
          PROVE  next \in Notice /\ next.state = seen.state /\ next.observed = seen.observed
      BY ONLY <1>1, <3>2, WritesRetyped
    <3> QED BY <2>1, <3>1, <3>2
  <2>3. RowFits'
    BY <1>1, <1>5, <2>1, <2>2, MovesInPlace DEF RecordRetyped, Closed
  <2>4. PumpFits'
    BY <1>1, <1>5, Rests DEF RecordRetyped
  <2> QED BY <1>5, <2>3, <2>4 DEF RecordRetyped, Remembered, IInv, AskersFit, RearmersFit, CountsFit
<1> QED BY <1>2, <1>3, <1>4, <1>5 DEF RetypeIfIdle

LEMMA BeatKeeps ==
  ASSUME IInv, NEW p \in Pump, PumpNotices(p) \/ DeferralEnds(p) \/ Interrupted(p)
  PROVE  IInv'
<1>1. RowFits /\ PumpFits
  BY DEF IInv
<1>2. CASE ListDue(p)
  <2>1. PumpFits'
    BY <1>1, <1>2, Going DEF ListDue
  <2> QED BY <1>1, <1>2, <2>1, RowRests DEF ListDue, IInv, AskersFit, RearmersFit, CountsFit
<1>6. CASE ReadDue(p)
  <2>1. PumpFits'
    <3>1. CASE Reads(p, "attempt") /\ Unread(row)
      BY <1>1, <3>1, Reading DEF RowFits, Closed, Unread
    <3>2. CASE Rest(p)
      BY <1>1, <3>2, Rests
    <3> QED BY <1>6, <3>1, <3>2 DEF ReadDue
  <2> QED BY <1>1, <1>6, <2>1, RowRests DEF ReadDue, IInv, AskersFit, RearmersFit, CountsFit
<1>3. CASE ListDeadLetter(p)
  <2>1. PumpFits'
    BY <1>1, <1>3, Going DEF ListDeadLetter
  <2> QED BY <1>1, <1>3, <2>1, RowRests DEF ListDeadLetter, IInv, AskersFit, RearmersFit, CountsFit
<1>4. CASE DeferralEnds(p)
  BY <1>1, <1>4, RowRests DEF DeferralEnds, IInv, PumpFits, AskersFit, RearmersFit, CountsFit
<1>5. CASE Interrupted(p)
  <2>1. PumpFits'
    BY <1>1, <1>5, Rests DEF Interrupted
  <2> QED BY <1>1, <1>5, <2>1, RowRests
          DEF Interrupted, Trouble, IInv, AskersFit, RearmersFit, CountsFit
<1> QED BY <1>2, <1>3, <1>4, <1>5, <1>6, AttemptKeeps, RetypeKeeps DEF PumpNotices

-----------------------------------------------------------------------------
(* The requests, and time. *)

LEMMA AskKeeps ==
  ASSUME IInv, NEW a \in Asker, ReadForAsk(a) \/ Acknowledge(a) \/ AskAgain(a)
  PROVE  IInv'
<1>1. RowFits /\ AskersFit /\ asking[a].seen \in Notice /\ asking[a].tries + 1 \in Nat
  BY DEF IInv, AskersFit
<1>2. CASE ReadForAsk(a)
  <2>1. AskersFit'
    BY <1>1, <1>2 DEF ReadForAsk, AskersFit, RowFits
  <2>2. AckIsKept'
    BY <1>1, <1>2 DEF ReadForAsk, RowFits, AckIsKept, AskersFit
  <2>3. RowFits'
    BY <1>1, <1>2, <2>2 DEF ReadForAsk, RowFits, Closed
  <2> QED BY <1>2, <2>1, <2>3 DEF ReadForAsk, IInv, PumpFits, RearmersFit, CountsFit
<1>3. CASE Acknowledge(a)
  <2> DEFINE next == Acknowledged(asking[a].seen)
  <2>1. next \in Notice /\ next.state = "acknowledged" /\ next.observed
    BY <1>1, WritesAcknowledged
  <2>2. row' = next /\ pushes' = pushes
    BY <1>3, <2>1 DEF Acknowledge, Move, OwesPush
  <2> HIDE DEF next
  <2>3. RowFits'
    BY <1>1, <1>3, <2>1, <2>2 DEF Acknowledge, RowFits, Closed, AckIsKept, OpenState
  <2>4. AskersFit'
    BY <1>1, <1>3, OpenedFits DEF Acknowledge, AskersFit
  <2> QED BY <1>3, <2>3, <2>4 DEF Acknowledge, ForgetNotice, IInv, PumpFits, RearmersFit, CountsFit
<1>4. CASE AskAgain(a)
  <2>1. AskersFit'
    BY <1>1, <1>4, OpenedFits DEF AskAgain, AskersFit
  <2>2. AckIsKept'
    BY <1>1, <1>4 DEF AskAgain, RowFits, AckIsKept, AskersFit
  <2>3. RowFits'
    BY <1>1, <1>4, <2>2 DEF AskAgain, RowFits, Closed
  <2> QED BY <1>4, <2>1, <2>3 DEF AskAgain, Trouble, IInv, PumpFits, RearmersFit, CountsFit
<1> QED BY <1>2, <1>3, <1>4

LEMMA RearmKeeps ==
  ASSUME IInv, NEW r \in Rearmer, ReadForRearm(r) \/ Rearm(r)
  PROVE  IInv'
<1> DEFINE seen == rearming[r].seen
<1>1. RowFits /\ RearmersFit /\ seen \in Notice
  BY DEF IInv, RearmersFit
<1>2. CASE ReadForRearm(r)
  <2>1. RearmersFit'
    BY <1>1, <1>2 DEF ReadForRearm, RearmersFit, RowFits
  <2> QED BY <1>1, <1>2, <2>1, RowRests DEF ReadForRearm, IInv, PumpFits, AskersFit, CountsFit
<1>3. CASE Rearm(r)
  <2>1. RearmersFit'
    BY <1>1, <1>3, OpenedFits DEF Rearm, RearmersFit, Idle
  <2>2. CountsFit'
    <3>1. Typing \subseteq Pump
      BY DEF Typing
    <3>2. IsFiniteSet(Typing)
      BY <3>1, NoticesAssumption, FS_Subset
    <3>3. Cardinality(Typing) \in Int
      BY <3>2, FS_CardinalityType
    <3> QED BY <1>3, <3>3 DEF Rearm, ForgetNotice, IInv, CountsFit
  <2>3. CASE Unmoved(seen)
    <3> DEFINE next == Rearmed(seen)
    <3>1. next \in Notice /\ next.state = "pending"
      BY <1>1, WritesOpen
    <3>2. row' = next /\ pushes' = pushes /\ rearms' = rearms + 1 /\ asking' = asking
      BY <1>3, <2>3, <3>1 DEF Rearm, Move, OwesPush
    <3> HIDE DEF next
    <3>3. row.state # "acknowledged"
      BY <1>1, <1>3, <2>3 DEF Rearm, RearmersFit, Unmoved
    <3>4. AckIsKept'
      BY <1>1, <3>2, <3>3 DEF RowFits, AckIsKept
    <3>5. RowFits'
      BY <1>1, <3>1, <3>2, <3>4 DEF RowFits, Closed
    <3> QED BY <1>3, <2>1, <2>2, <3>5 DEF Rearm, IInv, PumpFits, AskersFit
  <2>4. CASE ~Unmoved(seen)
    <3>1. RowFits'
      BY <1>1, <1>3, <2>4, RowRests DEF Rearm, Move
    <3> QED BY <1>3, <2>1, <2>2, <3>1 DEF Rearm, IInv, PumpFits, AskersFit
  <2> QED BY <2>3, <2>4
<1> QED BY <1>2, <1>3

LEMMA TimeKeeps ==
  ASSUME IInv, ComesDue \/ Ages
  PROVE  IInv'
<1>1. row' \in Notice /\ row'.state = row.state /\ row'.observed = row.observed
  BY DEF ComesDue, Ages, IInv, RowFits, Notice
<1>2. UNCHANGED <<pump, deferred, asking, rearming, typed, pushes, rearms, troubles>>
  BY DEF ComesDue, Ages
<1>3. RowFits'
  BY <1>1, <1>2 DEF IInv, RowFits, Closed, AckIsKept
<1> QED BY <1>2, <1>3 DEF IInv, PumpFits, AskersFit, RearmersFit, CountsFit

-----------------------------------------------------------------------------
(* The theorems. *)

LEMMA Starts == Init => IInv
<1> SUFFICES ASSUME Init PROVE IInv
  OBVIOUS
<1>1. RowFits
  BY OpenedFits DEF Init, RowFits, AckIsKept, Opened
<1>2. PumpFits /\ RearmersFit
  BY OpenedFits DEF Init, PumpFits, RearmersFit, Idle
<1>3. AskersFit /\ CountsFit
  BY OpenedFits DEF Init, AskersFit, CountsFit
<1> QED BY <1>1, <1>2, <1>3 DEF IInv

LEMMA Keeps == IInv /\ [Next]_vars => IInv'
<1> SUFFICES ASSUME IInv, [Next]_vars PROVE IInv'
  OBVIOUS
<1>1. CASE UNCHANGED vars
  BY <1>1, RowRests DEF vars, IInv, PumpFits, AskersFit, RearmersFit, CountsFit
<1>2. CASE Next
  BY <1>2, BeatKeeps, AskKeeps, RearmKeeps, TimeKeeps DEF Next
<1> QED BY <1>1, <1>2

LEMMA Inductive == Spec => []IInv
BY Starts, Keeps, PTL DEF Spec

\* The variables of the ladder keep their types; a closed notice is marked read.
THEOREM TypeCorrect == Spec => []TypeOK
<1>1. IInv => TypeOK
  BY DEF IInv, RowFits, Closed, PumpFits, AskersFit, RearmersFit, CountsFit, TypeOK
<1> QED BY <1>1, Inductive, PTL

\* A granted acknowledgement is not lost to a beat that was typing, to a
\* retyping, or to a person (Acknowledge, moveNotice, Rearm).
THEOREM AckStays == Spec => []AckIsKept
<1>1. IInv => AckIsKept
  BY DEF IInv, RowFits
<1> QED BY <1>1, Inductive, PTL

-----------------------------------------------------------------------------
(* One daemon: one push a ladder.                                          *)
(* A notice that is open has not used the push of its ladder.  Between the *)
(* list and the second read only the requests can move it, and none of     *)
(* them makes a dead letter; so what the one beat attempts is open.        *)

OneDaemon == \A p, q \in Pump : p = q

PushesOwed == pushes <= rearms + (IF row.state \in OpenState THEN 0 ELSE 1)

PassesOpen ==
  \A p \in Pump :
    /\ pump[p].pc = "due" => row.state # "dead_letter"
    /\ pump[p].pc \in {"attempt", "typed", "unsure"} => pump[p].seen.state \in OpenState

LEMMA OwedMoves ==
  ASSUME IInv, PushesOwed, NEW seen \in Notice, NEW next \in Notice,
         Move(seen, next), rearms' = rearms,
         \/ next.state = seen.state
         \/ seen.state \in OpenState /\ next.state \in OpenState \cup {"dead_letter"}
  PROVE  PushesOwed'
<1>1. pushes \in Nat /\ rearms \in Nat
  BY DEF IInv, RowFits
<1>2. CASE Unmoved(seen)
  BY <1>1, <1>2 DEF Move, Unmoved, OwesPush, PushesOwed, OpenState
<1>3. CASE ~Unmoved(seen)
  BY <1>3 DEF Move, PushesOwed
<1> QED BY <1>2, <1>3

LEMMA OwedRests ==
  ASSUME PushesOwed, UNCHANGED <<row, pushes, rearms>>
  PROVE  PushesOwed'
BY DEF PushesOwed

LEMMA PassOver ==
  ASSUME OneDaemon, IInv, NEW p \in Pump, Rest(p)
  PROVE  PassesOpen'
<1>1. \A q \in Pump : pump'[q].pc = "idle"
  BY DEF OneDaemon, Rest, Idle, IInv, PumpFits
<1> QED BY <1>1 DEF PassesOpen

LEMMA AttemptOwes ==
  ASSUME OneDaemon, IInv, PushesOwed, PassesOpen, NEW p \in Pump, Attempt(p)
  PROVE  PushesOwed' /\ PassesOpen'
<1> DEFINE seen == pump[p].seen
<1>1. seen \in Notice /\ {"none", "failed"} \cup Hold \subseteq Code
  BY DEF IInv, PumpFits, Code
<1>2. pump[p].pc \in {"attempt", "typed", "unsure"} => seen.state \in OpenState
  BY DEF PassesOpen
<1>3. CASE TypeNotice(p) \/ TypeUnsure(p)
  <2>1. PICK pc \in {"typed", "unsure"} : Goes(p, pc)
    BY <1>3 DEF TypeNotice, TypeUnsure
  <2>2. UNCHANGED <<row, pushes, rearms>> /\ pump[p].pc = "attempt"
    BY <1>3 DEF TypeNotice, TypeUnsure, Trying
  <2>3. pump'[p].pc = pc /\ pump'[p].seen = seen
    BY <2>1 DEF Goes, IInv, PumpFits
  <2> QED BY <1>2, <2>2, <2>3, OwedRests DEF PassesOpen, OneDaemon
<1>4. CASE ~(TypeNotice(p) \/ TypeUnsure(p))
  <2>1. /\ Rest(p) /\ rearms' = rearms /\ seen.state \in OpenState
    BY <1>2, <1>4
       DEF Attempt, GiveUp, SpendAttempt, NoticeInConversation, HoldEnds, HoldNotice, RecordTyped, Trying
  <2>2. PushesOwed'
    <3>1. CASE UNCHANGED <<row, pushes>>
      BY <2>1, <3>1, OwedRests
    <3>2. ASSUME NEW next \in Notice, Move(seen, next), next.state \in OpenState \cup {"dead_letter"}
          PROVE  PushesOwed'
      BY <1>1, <2>1, <3>2, OwedMoves
    <3>3. CASE GiveUp(p)
      BY <1>1, <3>2, <3>3, WritesDead DEF GiveUp
    <3>4. CASE SpendAttempt(p)
      BY <1>1, <2>1, <3>2, <3>4, WritesSpent DEF SpendAttempt
    <3>5. CASE NoticeInConversation(p)
      BY <1>1, <2>1, <3>2, <3>5, WritesOpen DEF NoticeInConversation
    <3>6. ASSUME NEW h \in Hold, HoldEnds(p, h) PROVE PushesOwed'
      <4> DEFINE next == IF h = "root_choosing" THEN DeadLetter(seen, h) ELSE Spent(seen, h)
      <4>1. next \in Notice /\ next.state \in OpenState \cup {"dead_letter"}
        BY <1>1, <2>1, WritesDead, WritesSpent
      <4>2. Move(seen, next)
        BY <3>6 DEF HoldEnds
      <4> HIDE DEF next
      <4> QED BY <3>2, <4>1, <4>2
    <3>7. ASSUME NEW h \in Hold, HoldNotice(p, h) PROVE PushesOwed'
      BY <1>1, <2>1, <3>1, <3>2, <3>7, WritesOpen DEF HoldNotice
    <3>8. CASE RecordTyped(p)
      BY <1>1, <3>2, <3>8, WritesOpen DEF RecordTyped, OpenState
    <3> QED BY <1>4, <3>3, <3>4, <3>5, <3>6, <3>7, <3>8 DEF Attempt
  <2> QED BY <2>1, <2>2, PassOver
<1> QED BY <1>3, <1>4

LEMMA RetypeOwes ==
  ASSUME OneDaemon, IInv, PushesOwed, PassesOpen, NEW p \in Pump, RetypeIfIdle(p)
  PROVE  PushesOwed' /\ PassesOpen'
<1> DEFINE seen == pump[p].seen
<1>1. seen \in Notice
  BY DEF IInv, PumpFits
<1>2. CASE ReadListed(p) \/ Retype(p)
  <2>1. UNCHANGED <<row, pushes, rearms>>
    BY <1>2 DEF ReadListed, Retype
  <2>2. pump'[p].pc \in {"retype", "retyped", "misfired"}
    BY <1>2 DEF ReadListed, Retype, Reads, Goes, IInv, PumpFits
  <2> QED BY <2>1, <2>2, OwedRests DEF PassesOpen, OneDaemon
<1>3. CASE NotIdle(p)
  BY <1>3, OwedRests, PassOver DEF NotIdle
<1>4. CASE RecordRetyped(p)
  <2>1. PICK next : /\ next = [RetypeMark(seen) EXCEPT !.delivered = TRUE]
                       \/ \E c \in {"failed", "native_delivery_uncertain"} :
                            next = [RetypeMark(seen) EXCEPT !.code = c]
                    /\ Move(seen, next)
    BY <1>4 DEF RecordRetyped
  <2>2. next \in Notice /\ next.state = seen.state
    <3>1. CASE next = [RetypeMark(seen) EXCEPT !.delivered = TRUE]
      BY ONLY <1>1, <3>1, WritesRetyped
    <3>2. ASSUME NEW c \in {"failed", "native_delivery_uncertain"}, next = [RetypeMark(seen) EXCEPT !.code = c]
          PROVE  next \in Notice /\ next.state = seen.state
      BY ONLY <1>1, <3>2, WritesRetyped
    <3> QED BY <2>1, <3>1, <3>2
  <2>3. Rest(p) /\ rearms' = rearms
    BY <1>4 DEF RecordRetyped
  <2> QED BY <1>1, <2>1, <2>2, <2>3, OwedMoves, PassOver
<1> QED BY <1>2, <1>3, <1>4 DEF RetypeIfIdle

LEMMA BeatOwes ==
  ASSUME OneDaemon, IInv, PushesOwed, PassesOpen,
         NEW p \in Pump, PumpNotices(p) \/ DeferralEnds(p) \/ Interrupted(p)
  PROVE  PushesOwed' /\ PassesOpen'
<1>1. CASE ListDue(p)
  <2>1. UNCHANGED <<row, pushes, rearms>> /\ row.state \in OpenState
    BY <1>1 DEF ListDue, Open, OpenState
  <2>2. pump'[p].pc = "due"
    BY <1>1 DEF ListDue, Goes, IInv, PumpFits
  <2> QED BY <2>1, <2>2, OwedRests DEF PassesOpen, OneDaemon, OpenState
<1>2. CASE ReadDue(p)
  <2>1. UNCHANGED <<row, pushes, rearms>> /\ row.state # "dead_letter"
    BY <1>2 DEF ReadDue, PassesOpen
  <2>2. CASE Reads(p, "attempt") /\ Unread(row)
    <3>1. pump'[p].pc = "attempt" /\ pump'[p].seen = row
      BY <2>2 DEF Reads, IInv, PumpFits
    <3>2. row.state \in OpenState
      BY <2>1, <2>2 DEF IInv, RowFits, Closed, Unread, Notice, NoticeState, OpenState
    <3> QED BY <2>1, <3>1, <3>2, OwedRests DEF PassesOpen, OneDaemon
  <2>3. CASE Rest(p)
    BY <2>1, <2>3, OwedRests, PassOver
  <2> QED BY <1>2, <2>2, <2>3 DEF ReadDue
<1>3. CASE ListDeadLetter(p)
  <2>1. UNCHANGED <<row, pushes, rearms>>
    BY <1>3 DEF ListDeadLetter
  <2>2. pump'[p].pc = "listed"
    BY <1>3 DEF ListDeadLetter, Goes, IInv, PumpFits
  <2> QED BY <2>1, <2>2, OwedRests DEF PassesOpen, OneDaemon
<1>4. CASE DeferralEnds(p)
  BY <1>4, OwedRests DEF DeferralEnds, PassesOpen
<1>5. CASE Interrupted(p)
  BY <1>5, OwedRests, PassOver DEF Interrupted
<1> QED BY <1>1, <1>2, <1>3, <1>4, <1>5, AttemptOwes, RetypeOwes DEF PumpNotices

LEMMA RequestsOwe ==
  ASSUME IInv, PushesOwed, PassesOpen,
         \/ \E a \in Asker : ReadForAsk(a) \/ Acknowledge(a) \/ AskAgain(a)
         \/ \E r \in Rearmer : ReadForRearm(r) \/ Rearm(r)
         \/ ComesDue \/ Ages
  PROVE  PushesOwed' /\ PassesOpen'
<1>1. pushes \in Nat /\ rearms \in Nat /\ row \in Notice
  BY DEF IInv, RowFits
<1>2. ASSUME NEW a \in Asker, ReadForAsk(a) \/ AskAgain(a) PROVE PushesOwed' /\ PassesOpen'
  <2>1. UNCHANGED <<row, pump, pushes, rearms>>
    BY <1>2 DEF ReadForAsk, AskAgain
  <2> QED BY <2>1, OwedRests DEF PassesOpen
<1>3. ASSUME NEW a \in Asker, Acknowledge(a) PROVE PushesOwed' /\ PassesOpen'
  <2>1. Acknowledged(asking[a].seen).state = "acknowledged"
    BY WritesAcknowledged DEF IInv, AskersFit
  <2>2. /\ row' = Acknowledged(asking[a].seen) /\ pushes' = pushes
        /\ UNCHANGED <<pump, rearms>>
    BY <1>3, <2>1 DEF Acknowledge, Move, OwesPush
  <2> QED BY <1>1, <2>1, <2>2 DEF PushesOwed, PassesOpen, OpenState
<1>4. ASSUME NEW r \in Rearmer, ReadForRearm(r) PROVE PushesOwed' /\ PassesOpen'
  BY <1>4, OwedRests DEF ReadForRearm, PassesOpen
<1>5. ASSUME NEW r \in Rearmer, Rearm(r) PROVE PushesOwed' /\ PassesOpen'
  <2>1. Rearmed(rearming[r].seen).state = "pending"
    BY WritesOpen DEF IInv, RearmersFit
  <2>2. CASE Unmoved(rearming[r].seen)
    <3>1. /\ row' = Rearmed(rearming[r].seen) /\ pushes' = pushes
          /\ rearms' = rearms + 1 /\ UNCHANGED pump
      BY <1>5, <2>1, <2>2 DEF Rearm, Move, OwesPush
    <3> QED BY <1>1, <2>1, <3>1 DEF PushesOwed, PassesOpen, OpenState
  <2>3. CASE ~Unmoved(rearming[r].seen)
    BY <1>5, <2>3, OwedRests DEF Rearm, Move, PassesOpen
  <2> QED BY <2>2, <2>3
<1>6. CASE ComesDue \/ Ages
  <2>1. row'.state = row.state /\ UNCHANGED <<pump, pushes, rearms>>
    BY <1>1, <1>6 DEF ComesDue, Ages, Notice
  <2> QED BY <2>1 DEF PushesOwed, PassesOpen
<1> QED BY <1>2, <1>3, <1>4, <1>5, <1>6

LEMMA OwedKept ==
  ASSUME OneDaemon, IInv, PushesOwed, PassesOpen, [Next]_vars
  PROVE  PushesOwed' /\ PassesOpen'
<1>1. CASE UNCHANGED vars
  BY <1>1 DEF vars, PushesOwed, PassesOpen
<1> QED BY <1>1, BeatOwes, RequestsOwe DEF Next

LEMMA OwedStart == Init => PushesOwed /\ PassesOpen
BY DEF Init, Opened, Idle, PushesOwed, PassesOpen

\* With one daemon, one ladder owes the person at most one push, whatever
\* acknowledgements, people who start it again and failing writes do to its dead
\* letter (moveNoticeWith).
THEOREM PushOnce == ASSUME OneDaemon PROVE Spec => []OnePushPerLadder
<1>1. IInv /\ PushesOwed /\ PassesOpen /\ [Next]_vars => PushesOwed' /\ PassesOpen'
  BY OwedKept
<1>2. IInv /\ PushesOwed => OnePushPerLadder
  BY DEF IInv, RowFits, PushesOwed, OnePushPerLadder
<1> QED BY <1>1, <1>2, OwedStart, Inductive, PTL DEF Spec

-----------------------------------------------------------------------------
(* One daemon: the budget of a ladder.                                     *)
(* What the beat read is never behind the row, since only a beat adds to   *)
(* the attempts; so a line that is written down raises the count with it.  *)

AtWork == {"attempt", "retype"} \cup InFlight

Budget ==
  /\ row.attempts <= AttemptLimit + 1
  /\ typed <= row.attempts + Cardinality(Typing)
  /\ \A p \in Pump :
       /\ pump[p].pc \in AtWork => row.attempts <= pump[p].seen.attempts
       /\ pump[p].pc = "listed" => row.attempts <= AttemptLimit
       /\ pump[p].pc \in {"retype"} \cup InFlight => pump[p].seen.attempts <= AttemptLimit

LEMMA Counted ==
  ASSUME NEW n \in Notice, NEW c \in Code, NEW h \in Hold
  PROVE  /\ n.attempts \in Nat
         /\ DeadLetter(n, c).attempts = n.attempts
         /\ Spent(n, c).attempts = n.attempts + 1
         /\ Delivered(n).attempts = n.attempts + 1
         /\ Uncertain(n).attempts = n.attempts + 1
         /\ Observed(n).attempts = n.attempts
         /\ Acknowledged(n).attempts = n.attempts
         /\ Held(n, h).attempts = n.attempts
         /\ Rearmed(n).attempts = 0
BY DEF Notice, DeadLetter, Spent, Delivered, Uncertain, Observed, Acknowledged, Held, Rearmed

LEMMA Marked ==
  ASSUME NEW n \in Notice, n.attempts <= AttemptLimit
  PROVE  /\ [RetypeMark(n) EXCEPT !.delivered = TRUE].attempts = AttemptLimit + 1
         /\ \A c \in {"failed", "native_delivery_uncertain"} :
              [RetypeMark(n) EXCEPT !.code = c].attempts = AttemptLimit + 1
BY NoticesAssumption DEF Notice, RetypeMark

LEMMA OneLine ==
  ASSUME OneDaemon, NEW p \in Pump
  PROVE  Cardinality(Typing) = IF pump[p].pc \in InFlight THEN 1 ELSE 0
<1>1. Typing = IF pump[p].pc \in InFlight THEN {p} ELSE {}
  BY DEF OneDaemon, Typing
<1> QED BY <1>1, FS_EmptySet, FS_Singleton

LEMMA OneLineNext ==
  ASSUME OneDaemon, NEW p \in Pump
  PROVE  Cardinality(Typing') = IF pump'[p].pc \in InFlight THEN 1 ELSE 0
<1>1. Typing' = IF pump'[p].pc \in InFlight THEN {p} ELSE {}
  BY DEF OneDaemon, Typing
<1> QED BY <1>1, FS_EmptySet, FS_Singleton

(* A pass that ends with a write. *)
LEMMA PassEnds ==
  ASSUME OneDaemon, IInv, Budget, NEW p \in Pump, NEW next \in Notice,
         pump[p].pc \in AtWork, Rest(p), Move(pump[p].seen, next),
         next.attempts <= AttemptLimit + 1 \/ next.attempts = pump[p].seen.attempts,
         IF pump[p].pc \in InFlight THEN Remembered(p) /\ next.attempts >= pump[p].seen.attempts + 1
                                     ELSE typed' = typed /\ next.attempts >= pump[p].seen.attempts
  PROVE  Budget'
<1>1. /\ row \in Notice /\ pump[p].seen \in Notice /\ typed \in Int
      /\ row.attempts \in Nat /\ pump[p].seen.attempts \in Nat /\ next.attempts \in Nat
  BY DEF IInv, RowFits, PumpFits, CountsFit, Notice
<1>2. pump'[p].pc = "idle"
  BY DEF Rest, Idle, IInv, PumpFits
<1>3. \A q \in Pump : pump'[q].pc = "idle"
  BY <1>2 DEF OneDaemon
<1>4. Cardinality(Typing') = 0 /\ Cardinality(Typing) = IF pump[p].pc \in InFlight THEN 1 ELSE 0
  BY <1>2, OneLine, OneLineNext DEF InFlight
<1>5. CASE Unmoved(pump[p].seen)
  <2>1. row' = next /\ row.attempts = pump[p].seen.attempts
    BY <1>5 DEF Move, Unmoved
  <2>2. typed' = typed
    BY <1>5 DEF Remembered
  <2>3. row'.attempts <= AttemptLimit + 1 /\ typed' <= row'.attempts
    BY <1>1, <1>4, <2>1, <2>2, NoticesAssumption DEF Budget
  <2> QED BY <1>1, <1>3, <1>4, <2>1, <2>3 DEF Budget, AtWork, InFlight
<1>6. CASE ~Unmoved(pump[p].seen)
  <2>1. row' = row
    BY <1>6 DEF Move
  <2>2. typed' = IF pump[p].pc \in InFlight THEN typed - 1 ELSE typed
    BY <1>6 DEF Remembered
  <2> QED BY <1>1, <1>3, <1>4, <2>1, <2>2 DEF Budget, AtWork, InFlight
<1> QED BY <1>5, <1>6

(* A step that changes the row only by lowering its count. *)
LEMMA BeatRests ==
  ASSUME OneDaemon, IInv, Budget, row' \in Notice, UNCHANGED pump,
         row'.attempts <= row.attempts,
         (typed' = typed /\ row'.attempts = row.attempts) \/ typed' = Cardinality(Typing)
  PROVE  Budget'
<1>1. /\ row.attempts \in Nat /\ row'.attempts \in Nat /\ typed \in Int
      /\ \A p \in Pump : pump[p].seen.attempts \in Nat
  BY DEF IInv, RowFits, PumpFits, CountsFit, Notice
<1>2. Typing' = Typing
  BY DEF Typing
<1>3. Cardinality(Typing) \in Nat
  <2>1. Typing \subseteq Pump
    BY DEF Typing
  <2> QED BY <2>1, NoticesAssumption, FS_Subset, FS_CardinalityType
<1>4. typed' <= row'.attempts + Cardinality(Typing')
  BY <1>1, <1>2, <1>3 DEF Budget
<1> QED BY <1>1, <1>4, NoticesAssumption DEF Budget

LEMMA BudgetAttempt ==
  ASSUME OneDaemon, IInv, Budget, NEW p \in Pump, Attempt(p)
  PROVE  Budget'
<1> DEFINE seen == pump[p].seen
<1>1. /\ seen \in Notice /\ seen.attempts \in Nat /\ row.attempts \in Nat /\ typed \in Int
  BY DEF IInv, RowFits, PumpFits, CountsFit, Notice
<1>2. {"none", "failed"} \cup Hold \subseteq Code
  BY DEF Code
<1>3. pump[p].pc = "attempt" => pump[p].pc \in AtWork \ InFlight
  BY DEF AtWork, InFlight
<1>4. Trying(p) => pump[p].pc = "attempt" /\ seen.attempts < AttemptLimit /\ seen.attempts + 1 <= AttemptLimit + 1
  BY <1>1, NoticesAssumption DEF Trying, Exhausted
<1>5. \A n \in Notice : n.attempts \in Nat
  BY DEF Notice
<1>6. CASE GiveUp(p)
  <2> DEFINE next == DeadLetter(seen, "failed")
  <2>1. next \in Notice /\ next.attempts = seen.attempts
    BY <1>1, <1>2, WritesDead DEF DeadLetter, Notice
  <2>2. Move(seen, next) /\ Rest(p) /\ typed' = typed /\ pump[p].pc = "attempt"
    BY <1>6 DEF GiveUp
  <2> HIDE DEF next
  <2> QED BY <1>1, <1>3, <2>1, <2>2, PassEnds
<1>7. CASE SpendAttempt(p)
  <2> DEFINE next == Spent(seen, "failed")
  <2>1. next \in Notice /\ next.attempts = seen.attempts + 1
    BY <1>1, <1>2, WritesSpent DEF Spent, DeadLetter, Notice
  <2>2. Move(seen, next) /\ Rest(p) /\ typed' = typed /\ Trying(p)
    BY <1>7 DEF SpendAttempt
  <2> HIDE DEF next
  <2> QED BY <1>1, <1>3, <1>4, <2>1, <2>2, PassEnds
<1>8. CASE NoticeInConversation(p)
  <2> DEFINE next == Observed(seen)
  <2>1. next \in Notice /\ next.attempts = seen.attempts
    BY <1>1, WritesOpen DEF Observed, Notice
  <2>2. Move(seen, next) /\ Rest(p) /\ typed' = typed /\ Trying(p)
    BY <1>8 DEF NoticeInConversation
  <2> HIDE DEF next
  <2> QED BY <1>1, <1>3, <1>4, <2>1, <2>2, PassEnds
<1>9. ASSUME NEW h \in Hold, HoldEnds(p, h) PROVE Budget'
  <2> DEFINE next == IF h = "root_choosing" THEN DeadLetter(seen, h) ELSE Spent(seen, h)
  <2>1. next \in Notice /\ next.attempts \in {seen.attempts, seen.attempts + 1}
    BY <1>1, <1>2, WritesDead, WritesSpent, Counted
  <2>2. Move(seen, next) /\ Rest(p) /\ typed' = typed /\ Trying(p)
    BY <1>9 DEF HoldEnds
  <2> HIDE DEF next
  <2> QED BY <1>1, <1>3, <1>4, <2>1, <2>2, PassEnds
<1>10. ASSUME NEW h \in Hold, HoldNotice(p, h) PROVE Budget'
  <2>0. Rest(p) /\ typed' = typed /\ Trying(p)
    BY <1>10 DEF HoldNotice
  <2>1. CASE Move(seen, Held(seen, h))
    <3> DEFINE next == Held(seen, h)
    <3>1. next \in Notice /\ next.attempts = seen.attempts
      BY <1>1, WritesOpen DEF Held, Notice
    <3>2. Move(seen, next)
      BY <2>1
    <3> HIDE DEF next
    <3> QED BY <1>1, <1>3, <1>4, <2>0, <3>1, <3>2, PassEnds
  <2>2. CASE UNCHANGED <<row, pushes>>
    <3>1. pump'[p].pc = "idle"
      BY <2>0 DEF Rest, Idle, IInv, PumpFits
    <3>2. Cardinality(Typing') = 0 /\ Cardinality(Typing) = 0
      BY <3>1, <1>3, <1>4, <2>0, OneLine, OneLineNext DEF InFlight
    <3>3. \A q \in Pump : pump'[q].pc = "idle"
      BY <3>1 DEF OneDaemon
    <3> QED BY <2>0, <2>2, <3>2, <3>3 DEF Budget, AtWork, InFlight
  <2> QED BY <1>10, <2>1, <2>2 DEF HoldNotice
<1>11. CASE TypeNotice(p) \/ TypeUnsure(p)
  <2>1. PICK pc \in {"typed", "unsure"} : Goes(p, pc)
    BY <1>11 DEF TypeNotice, TypeUnsure
  <2>2. typed' = typed + 1 /\ row' = row /\ Trying(p)
    BY <1>11 DEF TypeNotice, TypeUnsure
  <2>3. pump'[p].pc = pc /\ pump'[p].seen = seen
    BY <2>1 DEF Goes, IInv, PumpFits
  <2>4. Cardinality(Typing') = 1 /\ Cardinality(Typing) = 0
    BY <2>2, <2>3, <1>3, <1>4, OneLine, OneLineNext DEF InFlight
  <2>5. row.attempts <= seen.attempts /\ seen.attempts <= AttemptLimit
    BY <1>1, <1>3, <1>4, <2>2, NoticesAssumption DEF Budget
  <2>6. typed' <= row'.attempts + Cardinality(Typing')
    BY <1>1, <2>2, <2>4 DEF Budget
  <2> QED BY <1>1, <2>2, <2>3, <2>5, <2>6 DEF Budget, OneDaemon
<1>12. CASE RecordTyped(p)
  <2>1. PICK next \in {Delivered(seen), Uncertain(seen)} : Move(seen, next)
    BY <1>12 DEF RecordTyped
  <2>2. next \in Notice /\ next.attempts = seen.attempts + 1
    <3>1. Delivered(seen).attempts = seen.attempts + 1 /\ Uncertain(seen).attempts = seen.attempts + 1
      BY <1>1 DEF Delivered, Uncertain, DeadLetter, Notice
    <3> QED BY <1>1, <2>1, <3>1, WritesOpen
  <2>3. Rest(p) /\ Remembered(p) /\ pump[p].pc \in InFlight
    BY <1>12 DEF RecordTyped, InFlight
  <2>4. seen.attempts <= AttemptLimit /\ pump[p].pc \in AtWork
    BY <2>3 DEF Budget, AtWork
  <2>5. next.attempts <= AttemptLimit + 1 /\ next.attempts >= seen.attempts + 1
    BY <1>1, <2>2, <2>4, NoticesAssumption
  <2> QED BY <2>1, <2>2, <2>3, <2>4, <2>5, PassEnds
<1> QED BY <1>6, <1>7, <1>8, <1>9, <1>10, <1>11, <1>12 DEF Attempt

LEMMA BudgetRetype ==
  ASSUME OneDaemon, IInv, Budget, NEW p \in Pump, RetypeIfIdle(p)
  PROVE  Budget'
<1> DEFINE seen == pump[p].seen
<1>1. seen \in Notice /\ seen.attempts \in Nat /\ row.attempts \in Nat /\ typed \in Int
  BY DEF IInv, RowFits, PumpFits, CountsFit, Notice
<1>2. CASE ReadListed(p)
  <2>1. pump'[p].pc = "retype" /\ pump'[p].seen = row /\ UNCHANGED <<row, typed>>
    BY <1>2 DEF ReadListed, Reads, IInv, PumpFits
  <2>2. row.attempts <= AttemptLimit
    BY <1>2 DEF ReadListed, Budget
  <2>3. Cardinality(Typing') = 0 /\ Cardinality(Typing) = 0
    BY <1>2, <2>1, OneLine, OneLineNext DEF ReadListed, InFlight
  <2> QED BY <1>1, <2>1, <2>2, <2>3 DEF Budget, OneDaemon, InFlight
<1>3. CASE NotIdle(p)
  <2>1. pump'[p].pc = "idle" /\ UNCHANGED <<row, typed>>
    BY <1>3 DEF NotIdle, Rest, Idle, IInv, PumpFits
  <2>2. Cardinality(Typing') = 0 /\ Cardinality(Typing) = 0
    BY <1>3, <2>1, OneLine, OneLineNext DEF NotIdle, InFlight
  <2> QED BY <2>1, <2>2 DEF Budget, OneDaemon, AtWork, InFlight
<1>4. CASE Retype(p)
  <2>1. PICK pc \in {"retyped", "misfired"} : Goes(p, pc)
    BY <1>4 DEF Retype
  <2>2. typed' = typed + 1 /\ row' = row /\ pump[p].pc = "retype"
    BY <1>4 DEF Retype
  <2>3. pump'[p].pc = pc /\ pump'[p].seen = seen
    BY <2>1 DEF Goes, IInv, PumpFits
  <2>4. Cardinality(Typing') = 1 /\ Cardinality(Typing) = 0
    BY <2>2, <2>3, OneLine, OneLineNext DEF InFlight
  <2>5. row.attempts <= seen.attempts /\ seen.attempts <= AttemptLimit
    BY <2>2 DEF Budget, AtWork
  <2>6. typed' <= row'.attempts + Cardinality(Typing')
    BY <1>1, <2>2, <2>4 DEF Budget
  <2> QED BY <1>1, <2>2, <2>3, <2>5, <2>6 DEF Budget, OneDaemon
<1>5. CASE RecordRetyped(p)
  <2>1. seen.attempts <= AttemptLimit /\ pump[p].pc \in AtWork /\ pump[p].pc \in InFlight
    BY <1>5 DEF RecordRetyped, Budget, AtWork, InFlight
  <2>2. PICK next : /\ next = [RetypeMark(seen) EXCEPT !.delivered = TRUE]
                       \/ \E c \in {"failed", "native_delivery_uncertain"} :
                            next = [RetypeMark(seen) EXCEPT !.code = c]
                    /\ Move(seen, next)
    BY <1>5 DEF RecordRetyped
  <2>3. next \in Notice /\ next.attempts = AttemptLimit + 1
    <3>1. CASE next = [RetypeMark(seen) EXCEPT !.delivered = TRUE]
      BY ONLY <1>1, <2>1, <3>1, WritesRetyped, Marked
    <3>2. ASSUME NEW c \in {"failed", "native_delivery_uncertain"}, next = [RetypeMark(seen) EXCEPT !.code = c]
          PROVE  next \in Notice /\ next.attempts = AttemptLimit + 1
      BY ONLY <1>1, <2>1, <3>2, WritesRetyped, Marked
    <3> QED BY <2>2, <3>1, <3>2
  <2>4. Rest(p) /\ Remembered(p)
    BY <1>5 DEF RecordRetyped
  <2>5. next.attempts <= AttemptLimit + 1 /\ next.attempts >= seen.attempts + 1
    BY <1>1, <2>1, <2>3, NoticesAssumption
  <2> QED BY <2>1, <2>2, <2>3, <2>4, <2>5, PassEnds
<1> QED BY <1>2, <1>3, <1>4, <1>5 DEF RetypeIfIdle

LEMMA BudgetBeat ==
  ASSUME OneDaemon, IInv, Budget, NEW p \in Pump, PumpNotices(p) \/ DeferralEnds(p) \/ Interrupted(p)
  PROVE  Budget'
<1>1. row \in Notice /\ row.attempts \in Nat /\ typed \in Int
  BY DEF IInv, RowFits, CountsFit, Notice
<1>2. CASE ListDue(p)
  <2>1. pump'[p].pc = "due" /\ UNCHANGED <<row, typed>>
    BY <1>2 DEF ListDue, Goes, IInv, PumpFits
  <2>2. Cardinality(Typing') = 0 /\ Cardinality(Typing) = 0
    BY <1>2, <2>1, OneLine, OneLineNext DEF ListDue, InFlight
  <2> QED BY <1>1, <2>1, <2>2 DEF Budget, OneDaemon, AtWork, InFlight
<1>6. CASE ReadDue(p)
  <2>1. pump[p].pc = "due" /\ UNCHANGED <<row, typed>>
    BY <1>6 DEF ReadDue
  <2>2. pump'[p].pc = "idle" \/ (pump'[p].pc = "attempt" /\ pump'[p].seen = row)
    BY <1>6 DEF ReadDue, Reads, Rest, Idle, IInv, PumpFits
  <2>3. Cardinality(Typing') = 0 /\ Cardinality(Typing) = 0
    BY <2>1, <2>2, OneLine, OneLineNext DEF InFlight
  <2> QED BY <1>1, <2>1, <2>2, <2>3 DEF Budget, OneDaemon, AtWork, InFlight
<1>3. CASE ListDeadLetter(p)
  <2>1. pump'[p].pc = "listed" /\ UNCHANGED <<row, typed>> /\ row.attempts <= AttemptLimit
    BY <1>3 DEF ListDeadLetter, Goes, IInv, PumpFits
  <2>2. Cardinality(Typing') = 0 /\ Cardinality(Typing) = 0
    BY <1>3, <2>1, OneLine, OneLineNext DEF ListDeadLetter, InFlight
  <2> QED BY <1>1, <2>1, <2>2 DEF Budget, OneDaemon, AtWork, InFlight
<1>4. CASE DeferralEnds(p)
  BY <1>1, <1>4, BeatRests DEF DeferralEnds
<1>5. CASE Interrupted(p)
  <2>1. pump'[p].pc = "idle" /\ row' = row /\ typed' = (IF pump[p].pc \in InFlight THEN typed - 1 ELSE typed)
    BY <1>5 DEF Interrupted, Rest, Idle, IInv, PumpFits
  <2>2. Cardinality(Typing') = 0 /\ Cardinality(Typing) = IF pump[p].pc \in InFlight THEN 1 ELSE 0
    BY <2>1, OneLine, OneLineNext DEF InFlight
  <2> QED BY <1>1, <2>1, <2>2 DEF Budget, OneDaemon, AtWork, InFlight
<1> QED BY <1>2, <1>3, <1>4, <1>5, <1>6, BudgetAttempt, BudgetRetype DEF PumpNotices

LEMMA BudgetElse ==
  ASSUME OneDaemon, IInv, Budget,
         \/ \E a \in Asker : ReadForAsk(a) \/ Acknowledge(a) \/ AskAgain(a)
         \/ \E r \in Rearmer : ReadForRearm(r) \/ Rearm(r)
         \/ ComesDue \/ Ages
  PROVE  Budget'
<1>1. row \in Notice /\ row.attempts \in Nat
  BY DEF IInv, RowFits, Notice
<1>2. ASSUME NEW a \in Asker, ReadForAsk(a) \/ AskAgain(a) PROVE Budget'
  <2>1. UNCHANGED <<row, pump, typed>>
    BY <1>2 DEF ReadForAsk, AskAgain
  <2> QED BY <1>1, <2>1, BeatRests
<1>3. ASSUME NEW a \in Asker, Acknowledge(a) PROVE Budget'
  <2>1. asking[a].seen \in Notice
    BY DEF IInv, AskersFit
  <2>2. Acknowledged(asking[a].seen) \in Notice
        /\ Acknowledged(asking[a].seen).attempts = asking[a].seen.attempts
    BY <2>1, WritesAcknowledged DEF Acknowledged, Observed, Notice
  <2>3. row' = Acknowledged(asking[a].seen) /\ row.attempts = asking[a].seen.attempts
    BY <1>3 DEF Acknowledge, Move, Unmoved
  <2>4. UNCHANGED <<pump, typed>>
    BY <1>3 DEF Acknowledge
  <2> QED BY <1>1, <2>2, <2>3, <2>4, BeatRests
<1>4. ASSUME NEW r \in Rearmer, ReadForRearm(r) PROVE Budget'
  BY <1>1, <1>4, BeatRests DEF ReadForRearm
<1>5. ASSUME NEW r \in Rearmer, Rearm(r) PROVE Budget'
  <2>1. rearming[r].seen \in Notice
    BY DEF IInv, RearmersFit
  <2>2. Rearmed(rearming[r].seen) \in Notice /\ Rearmed(rearming[r].seen).attempts = 0
    BY <2>1, WritesOpen DEF Rearmed, Notice
  <2>3. CASE Unmoved(rearming[r].seen)
    <3>1. row' = Rearmed(rearming[r].seen) /\ typed' = Cardinality(Typing) /\ UNCHANGED pump
      BY <1>5, <2>3 DEF Rearm, Move
    <3> QED BY <1>1, <2>2, <3>1, BeatRests
  <2>4. CASE ~Unmoved(rearming[r].seen)
    BY <1>1, <1>5, <2>4, BeatRests DEF Rearm, Move
  <2> QED BY <2>3, <2>4
<1>6. CASE ComesDue \/ Ages
  <2>1. row' \in Notice /\ row'.attempts = row.attempts /\ UNCHANGED <<pump, typed>>
    BY <1>1, <1>6 DEF ComesDue, Ages, Notice
  <2> QED BY <1>1, <2>1, BeatRests
<1> QED BY <1>2, <1>3, <1>4, <1>5, <1>6

LEMMA BudgetKept == ASSUME OneDaemon, IInv, Budget, [Next]_vars PROVE Budget'
<1>1. CASE UNCHANGED vars
  BY <1>1, BeatRests DEF vars, IInv, RowFits, Notice
<1> QED BY <1>1, BudgetBeat, BudgetElse DEF Next

LEMMA BudgetStart == Init => Budget
<1> SUFFICES ASSUME Init PROVE Budget
  OBVIOUS
<1>1. Typing = {}
  BY DEF Init, Typing, Idle, InFlight
<1> QED BY <1>1, FS_EmptySet, NoticesAssumption DEF Init, Budget, Opened, Idle, AtWork, InFlight

LEMMA WithinOne == ASSUME OneDaemon, IInv, Budget PROVE TypedWithinBudget
<1>1. row.attempts \in Nat /\ typed \in Int
  BY DEF IInv, RowFits, CountsFit, Notice
<1>2. CASE Typing = {}
  BY <1>1, <1>2, FS_EmptySet, NoticesAssumption DEF Budget, TypedWithinBudget
<1>3. ASSUME NEW p \in Typing PROVE TypedWithinBudget
  <2>1. p \in Pump /\ pump[p].pc \in InFlight /\ pump[p].seen.attempts \in Nat
    BY DEF Typing, IInv, PumpFits, Notice
  <2>2. Cardinality(Typing) = 1
    BY <2>1, OneLine
  <2>3. row.attempts <= AttemptLimit
    BY <1>1, <2>1, NoticesAssumption DEF Budget, AtWork
  <2> QED BY <1>1, <2>2, <2>3, NoticesAssumption DEF Budget, TypedWithinBudget
<1> QED BY <1>2, <1>3

\* With one daemon a root is told the same thing at most once more often than
\* a ladder has attempts, however acknowledgements, people who start it again
\* and failing writes fall between (AttemptLimit, the retype mark).
THEOREM BudgetHolds == ASSUME OneDaemon PROVE Spec => []TypedWithinBudget
<1>1. IInv /\ Budget /\ [Next]_vars => Budget'
  BY BudgetKept
<1>2. IInv /\ Budget => TypedWithinBudget
  BY WithinOne
<1> QED BY <1>1, <1>2, BudgetStart, Inductive, PTL DEF Spec

-----------------------------------------------------------------------------
(* One daemon, one person at a time: a notice that is read stays read.     *)
(* A ladder started again takes along whether the notice was read when the *)
(* request read it, and the compare-and-set does not compare that.         *)

OnePerson == \A q, r \in Rearmer : q = r

ReadStays ==
  /\ \A p \in Pump : pump[p].pc # "idle" /\ row.observed => row.state = "acknowledged"
  /\ \A r \in Rearmer : rearming[r].pc = "read" /\ rearming[r].seen.observed => row.observed

\* What a pass writes: an open notice it read cannot be one that is read by now,
\* and a retyping leaves the mark of what it read.
LEMMA PassKeepsRead ==
  ASSUME OneDaemon, IInv, ReadStays, NEW p \in Pump, Rest(p),
         row' = row \/ row'.observed \/ (row.observed => row.state # "acknowledged"),
         pump[p].pc # "idle", UNCHANGED rearming
  PROVE  ReadStays'
<1>1. \A q \in Pump : pump'[q].pc = "idle"
  BY DEF OneDaemon, Rest, Idle, IInv, PumpFits
<1>2. row.observed => row'.observed
  BY DEF ReadStays
<1> QED BY <1>1, <1>2 DEF ReadStays

LEMMA AttemptKeepsRead ==
  ASSUME OneDaemon, IInv, ReadStays, NEW p \in Pump, Attempt(p)
  PROVE  ReadStays'
<1> DEFINE seen == pump[p].seen
<1>1. CASE TypeNotice(p) \/ TypeUnsure(p)
  <2>1. row' = row /\ UNCHANGED rearming /\ pump[p].pc = "attempt"
    BY <1>1 DEF TypeNotice, TypeUnsure, Trying
  <2> QED BY <2>1 DEF ReadStays, OneDaemon
<1>2. CASE ~(TypeNotice(p) \/ TypeUnsure(p))
  <2>1. Rest(p) /\ UNCHANGED rearming /\ pump[p].pc \in {"attempt", "typed", "unsure"}
    BY <1>2 DEF Attempt, GiveUp, SpendAttempt, NoticeInConversation, HoldEnds, HoldNotice, RecordTyped, Trying
  <2>2. seen.state # "acknowledged"
    BY <2>1 DEF IInv, PumpFits
  <2>3. row' = row \/ Unmoved(seen)
    BY <1>2 DEF Attempt, GiveUp, SpendAttempt, NoticeInConversation, HoldEnds, HoldNotice, RecordTyped, Move
  <2>4. Unmoved(seen) => row.state # "acknowledged"
    BY <2>2 DEF Unmoved
  <2> QED BY <2>1, <2>3, <2>4, PassKeepsRead
<1> QED BY <1>1, <1>2

LEMMA RetypeKeepsRead ==
  ASSUME OneDaemon, IInv, ReadStays, NEW p \in Pump, RetypeIfIdle(p)
  PROVE  ReadStays'
<1> DEFINE seen == pump[p].seen
<1>1. CASE ReadListed(p) \/ Retype(p)
  <2>1. row' = row /\ UNCHANGED rearming /\ pump[p].pc # "idle"
    BY <1>1 DEF ReadListed, Retype
  <2> QED BY <2>1 DEF ReadStays, OneDaemon
<1>2. CASE NotIdle(p)
  BY <1>2, PassKeepsRead DEF NotIdle
<1>3. CASE RecordRetyped(p)
  <2>1. Rest(p) /\ UNCHANGED rearming /\ pump[p].pc # "idle"
    BY <1>3 DEF RecordRetyped
  <2>2. seen \in Notice /\ Closed(seen)
    BY DEF IInv, PumpFits
  <2>3. PICK next : /\ next = [RetypeMark(seen) EXCEPT !.delivered = TRUE]
                       \/ \E c \in {"failed", "native_delivery_uncertain"} :
                            next = [RetypeMark(seen) EXCEPT !.code = c]
                    /\ Move(seen, next)
    BY <1>3 DEF RecordRetyped
  <2>4. next.observed = seen.observed
    <3>1. CASE next = [RetypeMark(seen) EXCEPT !.delivered = TRUE]
      BY ONLY <2>2, <3>1, WritesRetyped
    <3>2. ASSUME NEW c \in {"failed", "native_delivery_uncertain"}, next = [RetypeMark(seen) EXCEPT !.code = c]
          PROVE  next.observed = seen.observed
      BY ONLY <2>2, <3>2, WritesRetyped
    <3> QED BY <2>3, <3>1, <3>2
  <2>5. CASE Unmoved(seen)
    <3>1. row' = next /\ row.state = seen.state
      BY <2>3, <2>5 DEF Move, Unmoved
    <3>2. row.state = "acknowledged" => row'.observed
      BY <2>2, <2>4, <3>1 DEF Closed
    <3> QED BY <2>1, <3>2, PassKeepsRead
  <2>6. CASE ~Unmoved(seen)
    BY <2>1, <2>3, <2>6, PassKeepsRead DEF Move
  <2> QED BY <2>5, <2>6
<1> QED BY <1>1, <1>2, <1>3 DEF RetypeIfIdle

LEMMA BeatKeepsRead ==
  ASSUME OneDaemon, IInv, ReadStays, NEW p \in Pump, PumpNotices(p) \/ DeferralEnds(p) \/ Interrupted(p)
  PROVE  ReadStays'
<1>1. CASE ListDue(p) \/ ListDeadLetter(p)
  <2>1. row' = row /\ UNCHANGED rearming /\ ~row.observed
    BY <1>1 DEF ListDue, ListDeadLetter, Open, Unread
  <2>2. row.observed' = row.observed
    BY <2>1
  <2> QED BY <2>1, <2>2 DEF ReadStays
<1>2. CASE DeferralEnds(p)
  BY <1>2 DEF DeferralEnds, ReadStays
<1>3. CASE Interrupted(p)
  BY <1>3, PassKeepsRead DEF Interrupted
<1>4. CASE ReadDue(p)
  <2>1. row' = row /\ UNCHANGED rearming /\ pump[p].pc # "idle"
    BY <1>4 DEF ReadDue
  <2> QED BY <2>1 DEF ReadStays, OneDaemon
<1> QED BY <1>1, <1>2, <1>3, <1>4, AttemptKeepsRead, RetypeKeepsRead DEF PumpNotices

LEMMA RearmKeepsRead ==
  ASSUME OnePerson, IInv, ReadStays, NEW r \in Rearmer, Rearm(r)
  PROVE  ReadStays'
<1>1. rearming[r].pc = "read" /\ rearming[r].seen.state # "acknowledged" /\ rearming[r].seen \in Notice
  BY DEF Rearm, IInv, RearmersFit
<1>2. \A q \in Rearmer : rearming'[q].pc = "idle"
  BY DEF OnePerson, Rearm, Idle, IInv, RearmersFit
<1>3. CASE Unmoved(rearming[r].seen)
  <2>1. row' = Rearmed(rearming[r].seen) /\ UNCHANGED pump /\ row.state # "acknowledged"
    BY <1>1, <1>3 DEF Rearm, Move, Unmoved
  <2>2. row'.observed => row.observed
    BY <1>1, <2>1 DEF Rearmed, Notice, ReadStays
  <2> QED BY <1>2, <2>1, <2>2 DEF ReadStays
<1>4. CASE ~Unmoved(rearming[r].seen)
  BY <1>2, <1>4 DEF Rearm, Move, ReadStays
<1> QED BY <1>3, <1>4

LEMMA RequestsKeepRead ==
  ASSUME OnePerson, IInv, ReadStays,
         \/ \E a \in Asker : ReadForAsk(a) \/ Acknowledge(a) \/ AskAgain(a)
         \/ \E r \in Rearmer : ReadForRearm(r) \/ Rearm(r)
         \/ ComesDue \/ Ages
  PROVE  ReadStays'
<1>1. ASSUME NEW a \in Asker, ReadForAsk(a) \/ AskAgain(a) PROVE ReadStays'
  <2>1. UNCHANGED <<row, pump, rearming>>
    BY <1>1 DEF ReadForAsk, AskAgain
  <2> QED BY <2>1 DEF ReadStays
<1>2. ASSUME NEW a \in Asker, Acknowledge(a) PROVE ReadStays'
  <2>1. asking[a].seen \in Notice
    BY DEF IInv, AskersFit
  <2>2. row'.observed /\ row'.state = "acknowledged" /\ UNCHANGED <<pump, rearming>>
    BY <1>2, <2>1, WritesAcknowledged DEF Acknowledge, Move
  <2> QED BY <2>2 DEF ReadStays
<1>3. ASSUME NEW r \in Rearmer, ReadForRearm(r) PROVE ReadStays'
  <2>1. UNCHANGED <<row, pump>> /\ rearming' = [rearming EXCEPT ![r] = [pc |-> "read", seen |-> row]]
    BY <1>3 DEF ReadForRearm
  <2> QED BY <2>1 DEF ReadStays, IInv, RearmersFit
<1>4. CASE ComesDue \/ Ages
  <2>1. row'.observed = row.observed /\ row'.state = row.state /\ UNCHANGED <<pump, rearming>>
    BY <1>4 DEF ComesDue, Ages, IInv, RowFits, Notice
  <2> QED BY <2>1 DEF ReadStays
<1> QED BY <1>1, <1>2, <1>3, <1>4, RearmKeepsRead

LEMMA ReadKept == ASSUME OneDaemon, OnePerson, IInv, ReadStays, [Next]_vars PROVE ReadStays'
<1>1. CASE UNCHANGED vars
  BY <1>1 DEF vars, ReadStays
<1> QED BY <1>1, BeatKeepsRead, RequestsKeepRead DEF Next

LEMMA ReadStart == Init => ReadStays
BY DEF Init, ReadStays, Idle

\* A beat that begins to type was at work when it did.
LEMMA TypersWork ==
  ASSUME IInv, [Next]_vars, ~(Typing' \subseteq Typing)
  PROVE  \E p \in Pump : pump[p].pc # "idle"
<1>1. PICK p \in Pump : pump'[p].pc \in InFlight /\ pump[p].pc \notin InFlight
  BY DEF Typing
<1>2. pump'[p].pc # pump[p].pc
  BY <1>1
<1>3. pump[p].pc # "idle"
  <2> SUFFICES ASSUME pump[p].pc = "idle" PROVE FALSE
    OBVIOUS
  <2>0. pump \in [Pump -> [pc : {"idle", "due", "attempt", "listed", "retype"} \cup InFlight, seen : Notice]]
    BY DEF IInv, PumpFits
  <2>1. ASSUME NEW q \in Pump, PumpNotices(q) \/ DeferralEnds(q) \/ Interrupted(q) PROVE FALSE
    <3>1. CASE q = p
      BY <1>1, <2>0, <2>1, <3>1
         DEF PumpNotices, ListDue, ReadDue, ListDeadLetter, Attempt, GiveUp, SpendAttempt, NoticeInConversation,
             HoldEnds, HoldNotice, TypeNotice, TypeUnsure, RecordTyped, Trying, RetypeIfIdle, ReadListed,
             NotIdle, Retype, RecordRetyped, DeferralEnds, Interrupted, Reads, Goes, InFlight
    <3>2. CASE q # p
      <4>1. pump'[p] = pump[p]
        BY <2>0, <2>1, <3>2
           DEF PumpNotices, ListDue, ReadDue, ListDeadLetter, Attempt, GiveUp, SpendAttempt, NoticeInConversation,
               HoldEnds, HoldNotice, TypeNotice, TypeUnsure, RecordTyped, RetypeIfIdle, ReadListed,
               NotIdle, Retype, RecordRetyped, DeferralEnds, Interrupted, Reads, Goes, Rest
      <4> QED BY <1>2, <4>1
    <3> QED BY <3>1, <3>2
  <2>2. ASSUME UNCHANGED pump PROVE FALSE
    BY <1>2, <2>2
  <2> QED BY <2>1, <2>2 DEF Next, vars, ReadForAsk, Acknowledge, AskAgain, ReadForRearm, Rearm, ComesDue, Ages
<1> QED BY <1>3

\* With one daemon and one person who starts ladders again at a time, a root
\* that has read a notice is not typed to any more (noticeInConversation).
THEOREM ReadNotTyped == ASSUME OneDaemon, OnePerson PROVE Spec => ReadIsNotTyped
<1>1. IInv /\ ReadStays /\ [Next]_vars => ReadStays'
  BY ReadKept
<1>2. IInv /\ ReadStays /\ [Next]_vars =>
        [Typing' \subseteq Typing \/ ~row.observed \/ row.state = "acknowledged"]_vars
  BY TypersWork DEF ReadStays
<1> QED BY <1>1, <1>2, ReadStart, Inductive, PTL DEF Spec, ReadIsNotTyped
=============================================================================

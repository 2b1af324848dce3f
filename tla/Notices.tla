------------------------------ MODULE Notices ------------------------------
(***************************************************************************)
(* The completion notice of one task: the line that tells a root session   *)
(* that its child is done, typed again on a ladder until somebody says it  *)
(* was read (app/orchestrator/notice.go, Acknowledge and NoticeSeen in     *)
(* lifecycle.go, Rearm in completions.go, the ledger in                    *)
(* adapters/store/broker_notices.go).                                      *)
(*                                                                         *)
(* Nobody holds a lock while a line is typed.  Every change is a           *)
(* compare-and-set of the whole row against the state and the attempt      *)
(* count its writer read, so what a writer read may be old when it writes. *)
(* Times are kept as what the code asks of them: whether the next attempt  *)
(* is due, and whether the present reason has lasted as long as it may.    *)
(***************************************************************************)
EXTENDS Integers, FiniteSets

CONSTANTS
  Pump,          \* beats that run PumpNotices, one for each running daemon
  Asker,         \* requests that acknowledge the notice
  Tries,         \* [Asker -> Nat]: how often each one retries its write
  Rearmer,       \* requests of a person that start the ladder again
  Hold,          \* the reasons to type nothing that occur
  AttemptLimit,  \* attempts of one ladder
  MaxRearms,     \* bound: ladders started again
  MaxTroubles    \* bound: crashes and failed store writes

HoldCode == {"root_choosing", "native_not_idle", "composer_occupied", "notice_queued", "terminal_busy"}

ASSUME NoticesAssumption ==
  /\ IsFiniteSet(Pump)
  /\ Tries \in [Asker -> Nat]
  /\ Hold \subseteq HoldCode
  /\ AttemptLimit \in Nat \ {0}
  /\ MaxRearms \in Nat
  /\ MaxTroubles \in Nat

VARIABLES
  row,       \* the notice in the ledger
  pump,      \* what each beat does with it
  deferred,  \* the beats whose memory says: not before the hold step is over
  asking,    \* the acknowledgements under way
  rearming,  \* the requests to start again under way
  typed,     \* history: lines typed on this ladder whose record is not lost
  pushes,    \* history: pushes owed to the person
  rearms,    \* ladders started again
  troubles   \* crashes and failed writes so far

vars == <<row, pump, deferred, asking, rearming, typed, pushes, rearms, troubles>>

NoticeState == {"pending", "delivered", "acknowledged", "dead_letter"}

\* `due': next_retry_at has come; `long': the present hold has lasted as long
\* as it may; `old': too old a dead letter to be typed once more.
Code == Hold \cup {"none", "failed", "native_delivery_uncertain"}

Notice == [state : NoticeState, attempts : Nat, delivered : BOOLEAN, observed : BOOLEAN,
           code : Code,
           due : BOOLEAN, long : BOOLEAN, old : BOOLEAN]

Opened == [state |-> "pending", attempts |-> 0, delivered |-> FALSE, observed |-> FALSE,
           code |-> "none", due |-> TRUE, long |-> FALSE, old |-> FALSE]

Idle == [pc |-> "idle", seen |-> Opened]

Init ==
  /\ row = Opened
  /\ pump = [p \in Pump |-> Idle]
  /\ deferred = {}
  /\ asking = [a \in Asker |-> [pc |-> "idle", seen |-> Opened, tries |-> 0]]
  /\ rearming = [r \in Rearmer |-> Idle]
  /\ typed = 0 /\ pushes = 0 /\ rearms = 0 /\ troubles = 0

-----------------------------------------------------------------------------
(* The one way a notice changes. *)

(* Mutant: compares the attempt count alone. *)
SameCount(seen) == row.attempts = seen.attempts

\* The expectation of the UPDATE: nobody moved the notice since it was read.
Unmoved(seen) == row.state = seen.state /\ row.attempts = seen.attempts

(* Mutant: every write of a dead letter pushes. *)
PushesAgain(seen, next) == next.state = "dead_letter"

\* Entering dead letter owes the person a push, recorded with the move.
OwesPush(seen, next) == next.state = "dead_letter" /\ seen.state # "dead_letter"

Move(seen, next) ==
  IF Unmoved(seen)
  THEN /\ row' = next
       /\ pushes' = IF OwesPush(seen, next) THEN pushes + 1 ELSE pushes
  ELSE UNCHANGED <<row, pushes>>

(* What the moves write. *)

\* A hold that ends the ladder keeps the hour it began.
DeadLetter(n, code) ==
  [n EXCEPT !.state = "dead_letter", !.code = code, !.due = TRUE,
            !.long = @ /\ n.code = code, !.old = FALSE]

\* An attempt that put nothing on the screen; the one that uses the last of the
\* budget ends the ladder.
Spent(n, code) ==
  LET tried == [n EXCEPT !.attempts = @ + 1, !.code = code, !.due = FALSE, !.long = FALSE]
  IN  IF tried.attempts >= AttemptLimit THEN DeadLetter(tried, code) ELSE tried

Delivered(n) ==
  [n EXCEPT !.state = "delivered", !.attempts = @ + 1, !.delivered = TRUE,
            !.code = "none", !.due = FALSE, !.long = FALSE]

\* A native prompt that may have been written is never repeated.
Uncertain(n) == [DeadLetter(n, "native_delivery_uncertain") EXCEPT !.attempts = @ + 1]

Held(n, h) == [n EXCEPT !.code = h, !.due = FALSE, !.long = FALSE]

Observed(n) == [n EXCEPT !.observed = TRUE, !.code = "none", !.due = TRUE, !.long = FALSE]

(* Mutant: does not mark the notice read. *)
AcknowledgedUnread(n) == [n EXCEPT !.state = "acknowledged", !.code = "none", !.due = TRUE, !.long = FALSE]

Acknowledged(n) == [Observed(n) EXCEPT !.state = "acknowledged"]

Rearmed(n) ==
  [n EXCEPT !.state = "pending", !.attempts = 0, !.code = "none", !.due = TRUE,
            !.long = FALSE, !.old = FALSE]

(* Mutant: leaves no mark. *)
RetypeUnmarked(n) == n

\* Past the limit: the mark that the last typing of a dead letter was spent.
RetypeMark(n) == [n EXCEPT !.attempts = (IF n.attempts > AttemptLimit THEN n.attempts ELSE AttemptLimit) + 1]

-----------------------------------------------------------------------------
(* PumpNotices: the open notice that is due. *)

\* The beats that have typed, or may have, and not written it down yet.
InFlight == {"typed", "unsure", "retyped", "misfired"}

Typing == {p \in Pump : pump[p].pc \in InFlight}

Rest(p) == pump' = [pump EXCEPT ![p] = Idle]

Goes(p, pc) == pump' = [pump EXCEPT ![p].pc = pc]

Reads(p, pc) == pump' = [pump EXCEPT ![p] = [pc |-> pc, seen |-> row]]

(* Mutant: nobody asks whether the root has read it. *)
UnreadOrRead(n) == TRUE

Unread(n) == ~n.observed

\* One the root has read is not open, whatever its state says.
Open(n) == n.state \in {"pending", "delivered"} /\ Unread(n)

\* A deferral is looked at after the listing; no one but the beat itself adds
\* one, so none can come up in between.
ListDue(p) ==
  /\ pump[p].pc = "idle" /\ p \notin deferred
  /\ Open(row) /\ row.due
  /\ Goes(p, "due")
  /\ UNCHANGED <<row, deferred, asking, rearming, typed, pushes, rearms, troubles>>

\* Others of the list may have been typed since.  What is attempted is the
\* notice as it is now, of which only the id and the mark of having been read
\* are looked at: not the state, and not whether it is still due.
ReadDue(p) ==
  /\ pump[p].pc = "due"
  /\ IF Unread(row) THEN Reads(p, "attempt") ELSE Rest(p)
  /\ UNCHANGED <<row, deferred, asking, rearming, typed, pushes, rearms, troubles>>

Exhausted(n) == n.attempts >= AttemptLimit

Trying(p) == pump[p].pc = "attempt" /\ ~Exhausted(pump[p].seen)

GiveUp(p) ==
  /\ pump[p].pc = "attempt" /\ Exhausted(pump[p].seen)
  /\ Move(pump[p].seen, DeadLetter(pump[p].seen, "failed"))
  /\ Rest(p)
  /\ UNCHANGED <<deferred, asking, rearming, typed, rearms, troubles>>

\* No root, no terminal, no way to write the line, or a typing that failed with
\* nothing typed.
SpendAttempt(p) ==
  /\ Trying(p)
  /\ Move(pump[p].seen, Spent(pump[p].seen, "failed"))
  /\ Rest(p)
  /\ UNCHANGED <<deferred, asking, rearming, typed, rearms, troubles>>

\* The root's own record shows the line.
NoticeInConversation(p) ==
  /\ Trying(p) /\ pump[p].seen.state = "delivered" /\ pump[p].seen.delivered
  /\ Move(pump[p].seen, Observed(pump[p].seen))
  /\ deferred' = deferred \ {p}
  /\ Rest(p)
  /\ UNCHANGED <<asking, rearming, typed, rearms, troubles>>

\* A copy in the queue matters only when a copy was typed before.
MayHold(n, h) == h = "notice_queued" => n.delivered

(* Mutant: every look starts the hold again. *)
HeldAnew(n, h) == FALSE

IsHeld(n, h) == n.code = h

\* Held as long as a reason may hold.  A menu ends the ladder in one step; any
\* other reason spends an attempt.
HoldEnds(p, h) ==
  /\ Trying(p) /\ MayHold(pump[p].seen, h)
  /\ IsHeld(pump[p].seen, h) /\ pump[p].seen.long
  /\ Move(pump[p].seen, IF h = "root_choosing" THEN DeadLetter(pump[p].seen, h)
                                               ELSE Spent(pump[p].seen, h))
  /\ Rest(p)
  /\ UNCHANGED <<deferred, asking, rearming, typed, rearms, troubles>>

\* The row says so once per hold; the deferral is in memory.
HoldNotice(p, h) ==
  /\ Trying(p) /\ MayHold(pump[p].seen, h)
  /\ ~(IsHeld(pump[p].seen, h) /\ pump[p].seen.long)
  /\ IF IsHeld(pump[p].seen, h) THEN UNCHANGED <<row, pushes>>
                                ELSE Move(pump[p].seen, Held(pump[p].seen, h))
  /\ deferred' = deferred \cup {p}
  /\ Rest(p)
  /\ UNCHANGED <<asking, rearming, typed, rearms, troubles>>

TypeNotice(p) ==
  /\ Trying(p)
  /\ typed' = typed + 1
  /\ Goes(p, "typed")
  /\ UNCHANGED <<row, deferred, asking, rearming, pushes, rearms, troubles>>

\* A native turn that failed and may have been written; it counts as typed.
TypeUnsure(p) ==
  /\ Trying(p)
  /\ typed' = typed + 1
  /\ Goes(p, "unsure")
  /\ UNCHANGED <<row, deferred, asking, rearming, pushes, rearms, troubles>>

\* A line is remembered by the attempt count only if the row is where it was.
Remembered(p) == typed' = IF Unmoved(pump[p].seen) THEN typed ELSE typed - 1

RecordTyped(p) ==
  /\ \/ pump[p].pc = "typed" /\ Move(pump[p].seen, Delivered(pump[p].seen))
     \/ pump[p].pc = "unsure" /\ Move(pump[p].seen, Uncertain(pump[p].seen))
  /\ Remembered(p)
  /\ Rest(p)
  /\ UNCHANGED <<deferred, asking, rearming, rearms, troubles>>

-----------------------------------------------------------------------------
(* retypeDeadLetters: once more, when the root reads idle. *)

ListDeadLetter(p) ==
  /\ pump[p].pc = "idle" /\ p \notin deferred
  /\ row.state = "dead_letter" /\ row.attempts <= AttemptLimit /\ ~row.old /\ Unread(row)
  /\ Goes(p, "listed")
  /\ UNCHANGED <<row, deferred, asking, rearming, typed, pushes, rearms, troubles>>

\* Read again as in ReadDue, but only the notice's id is compared with what was
\* listed.
ReadListed(p) ==
  /\ pump[p].pc = "listed"
  /\ Reads(p, "retype")
  /\ UNCHANGED <<row, deferred, asking, rearming, typed, pushes, rearms, troubles>>

\* Not idle, not one session, a draft, or a lane somebody else holds.
NotIdle(p) ==
  /\ pump[p].pc = "retype"
  /\ deferred' = deferred \cup {p}
  /\ Rest(p)
  /\ UNCHANGED <<row, asking, rearming, typed, pushes, rearms, troubles>>

\* A typing that fails spends the one try all the same; a native one may have
\* been written.
Retype(p) ==
  /\ pump[p].pc = "retype" /\ pump[p].seen.code # "native_delivery_uncertain"
  /\ typed' = typed + 1
  /\ Goes(p, "retyped") \/ Goes(p, "misfired")
  /\ UNCHANGED <<row, deferred, asking, rearming, pushes, rearms, troubles>>

\* The state stays what it was when the notice was read.
RecordRetyped(p) ==
  /\ \/ /\ pump[p].pc = "retyped"
        /\ Move(pump[p].seen, [RetypeMark(pump[p].seen) EXCEPT !.delivered = TRUE])
        /\ UNCHANGED deferred
     \/ /\ pump[p].pc = "misfired"
        /\ \E code \in {"failed", "native_delivery_uncertain"} :
             Move(pump[p].seen, [RetypeMark(pump[p].seen) EXCEPT !.code = code])
        /\ deferred' = deferred \cup {p}
  /\ Remembered(p)
  /\ Rest(p)
  /\ UNCHANGED <<asking, rearming, rearms, troubles>>

-----------------------------------------------------------------------------
(* Acknowledge and NoticeSeen: the same write, retried against the pump. *)

ReadForAsk(a) ==
  /\ asking[a].pc = "idle"
  /\ asking' = IF row.state = "acknowledged"
               THEN [asking EXCEPT ![a].pc = "done"]
               ELSE [asking EXCEPT ![a].pc = "read", ![a].seen = row]
  /\ UNCHANGED <<row, pump, deferred, rearming, typed, pushes, rearms, troubles>>

\* The daemon that served the request forgets its deferral.
ForgetNotice == \E P \in {{}} \cup {{p} : p \in Pump} : deferred' = deferred \ P

Acknowledge(a) ==
  /\ asking[a].pc = "read" /\ Unmoved(asking[a].seen)
  /\ Move(asking[a].seen, Acknowledged(asking[a].seen))
  /\ asking' = [asking EXCEPT ![a].pc = "done", ![a].seen = Opened]
  /\ ForgetNotice
  /\ UNCHANGED <<pump, rearming, typed, rearms, troubles>>

Trouble == troubles < MaxTroubles /\ troubles' = troubles + 1

\* The pump, or a failing write, was first; after the last try the request is
\* refused, or left to the pump.
AskAgain(a) ==
  /\ asking[a].pc = "read"
  /\ \/ ~Unmoved(asking[a].seen) /\ UNCHANGED troubles
     \/ Trouble
  /\ asking' = [asking EXCEPT ![a].tries = @ + 1, ![a].seen = Opened,
                              ![a].pc = IF asking[a].tries + 1 >= Tries[a] THEN "refused" ELSE "idle"]
  /\ UNCHANGED <<row, pump, deferred, rearming, typed, pushes, rearms>>

(* Rearm: a person starts the ladder again; a dead letter only if it is named. *)

ReadForRearm(r) ==
  /\ rearming[r].pc = "idle" /\ rearms < MaxRearms
  /\ row.state # "acknowledged"
  /\ rearming' = [rearming EXCEPT ![r] = [pc |-> "read", seen |-> row]]
  /\ UNCHANGED <<row, pump, deferred, asking, typed, pushes, rearms, troubles>>

Rearm(r) ==
  /\ rearming[r].pc = "read"
  /\ Move(rearming[r].seen, Rearmed(rearming[r].seen))
  /\ IF Unmoved(rearming[r].seen)
     THEN rearms' = rearms + 1 /\ typed' = Cardinality(Typing) /\ ForgetNotice
     ELSE UNCHANGED <<rearms, typed, deferred>>
  /\ rearming' = [rearming EXCEPT ![r] = Idle]
  /\ UNCHANGED <<pump, asking, troubles>>

-----------------------------------------------------------------------------
(* Time and trouble. *)

ComesDue ==
  /\ ~row.due
  /\ row' = [row EXCEPT !.due = TRUE]
  /\ UNCHANGED <<pump, deferred, asking, rearming, typed, pushes, rearms, troubles>>

\* The present hold, or the dead letter, gets as old as it may.
Ages ==
  /\ \/ row.code \in Hold /\ ~row.long /\ row' = [row EXCEPT !.long = TRUE]
     \/ row.state = "dead_letter" /\ ~row.old /\ row' = [row EXCEPT !.old = TRUE]
  /\ UNCHANGED <<pump, deferred, asking, rearming, typed, pushes, rearms, troubles>>

DeferralEnds(p) ==
  /\ p \in deferred
  /\ deferred' = deferred \ {p}
  /\ UNCHANGED <<row, pump, asking, rearming, typed, pushes, rearms, troubles>>

\* A failed store write drops what the pass learned; a crash also forgets the
\* deferral.
Interrupted(p) ==
  /\ pump[p].pc # "idle" /\ Trouble
  /\ typed' = IF pump[p].pc \in InFlight THEN typed - 1 ELSE typed
  /\ deferred' \in {deferred, deferred \ {p}}
  /\ Rest(p)
  /\ UNCHANGED <<row, asking, rearming, pushes, rearms>>

-----------------------------------------------------------------------------
Attempt(p) ==
  \/ GiveUp(p) \/ SpendAttempt(p) \/ NoticeInConversation(p)
  \/ \E h \in Hold : HoldEnds(p, h) \/ HoldNotice(p, h)
  \/ TypeNotice(p) \/ TypeUnsure(p) \/ RecordTyped(p)

RetypeIfIdle(p) == ReadListed(p) \/ NotIdle(p) \/ Retype(p) \/ RecordRetyped(p)

PumpNotices(p) == ListDue(p) \/ ReadDue(p) \/ Attempt(p) \/ ListDeadLetter(p) \/ RetypeIfIdle(p)

Next ==
  \/ \E p \in Pump : PumpNotices(p) \/ DeferralEnds(p) \/ Interrupted(p)
  \/ \E a \in Asker : ReadForAsk(a) \/ Acknowledge(a) \/ AskAgain(a)
  \/ \E r \in Rearmer : ReadForRearm(r) \/ Rearm(r)
  \/ ComesDue \/ Ages

Spec == Init /\ [][Next]_vars

\* The beat comes again and its calls have deadlines; time passes.  Nobody has
\* to acknowledge, and a root may look any way it likes for ever.
Fairness ==
  /\ \A p \in Pump : WF_vars(PumpNotices(p)) /\ WF_vars(DeferralEnds(p))
  /\ WF_vars(ComesDue)
  /\ WF_vars(Ages)

FairSpec == Spec /\ Fairness

-----------------------------------------------------------------------------
(* Properties. *)

\* The variables keep their types, and a closed notice is marked read, which is
\* what keeps it off the list of due ones (DueBrokerNotices).
TypeOK ==
  /\ row \in Notice
  /\ row.state = "acknowledged" => row.observed
  /\ pump \in [Pump -> [pc : {"idle", "due", "attempt", "listed", "retype"} \cup InFlight, seen : Notice]]
  /\ deferred \subseteq Pump
  /\ asking \in [Asker -> [pc : {"idle", "read", "done", "refused"}, seen : Notice, tries : Nat]]
  /\ rearming \in [Rearmer -> [pc : {"idle", "read"}, seen : Notice]]
  /\ typed \in Int /\ {pushes, rearms, troubles} \subseteq Nat

\* An acknowledgement that was answered with success is never lost: not to an
\* attempt that was typing meanwhile, not to a retyping, not to a person who
\* starts the ladder again (moveNotice and its callers).
AckIsKept == \A a \in Asker : asking[a].pc = "done" => row.state = "acknowledged"

\* With one daemon, a ladder that runs out tells the person once, whatever
\* happens to its dead letter afterwards (moveNoticeWith, retypeDeadLetters: no
\* second push).  With two, one of them may end the ladder of a notice the other
\* has listed and not read again; that one types the dead letter, makes it
\* delivered, and the same ladder runs out a second time (ReadDue).
OnePushPerLadder == pushes <= rearms + 1

\* With one daemon, a root is told the same thing at most eight times in one
\* ladder and once more when it goes idle, but for lines whose record a crash, a
\* failed write or a race took away (AttemptLimit, the retype mark).
TypedWithinBudget == typed <= AttemptLimit + 1

\* With one daemon and one person at a time who starts ladders again: a notice
\* whose root has read it wakes the root no more (noticeInConversation), unless
\* a later acknowledgement races a retyping.
ReadIsNotTyped ==
  [][Typing' \subseteq Typing \/ ~row.observed \/ row.state = "acknowledged"]_vars

\* One of the reasons may come and go for ever, but not two in turn.
OneReason == \E h \in Hold : <>[](row.code \notin Hold \ {h})

\* A ladder ends: the notice is acknowledged, read or a dead letter, even when
\* its root never answers and always gives the same reason to type nothing
\* (maxNoticeHold, maxChoosingHold).
LadderEnds == OneReason => (Open(row) ~> ~Open(row))

\* What the code does not keep: a notice acknowledged by the time the pass read
\* it is not typed (Acknowledge is what ends the resend).
AckEndsTyping == \A p \in Pump : pump[p].pc \in InFlight => pump[p].seen.state # "acknowledged"
=============================================================================

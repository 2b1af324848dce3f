---------------------------- MODULE EffectOutbox ----------------------------
(***************************************************************************)
(* The outbox and the request receipts of the daemon's store, and the      *)
(* broker that runs what they record.                                      *)
(*                                                                         *)
(* A side effect (a line typed into somebody's terminal, a checkout) is    *)
(* recorded in the transaction that owes it and attempted after the        *)
(* commit.  A request under an Idempotency-Key is a receipt; the effect it *)
(* owes carries the receipt, and finishing the effect files the answer.    *)
(* Rows and receipts are owned by a store handle, one per run of the       *)
(* daemon, and move to a later handle only when the first is provably      *)
(* gone.                                                                   *)
(*                                                                         *)
(* One action is one store transaction, one change of the in-memory hold,  *)
(* or one attempt at the effect: those are the points at which other       *)
(* goroutines, another daemon or a crash can come in between.  Clocks are  *)
(* left out: a limit on age is a nondeterministic choice, restricted only  *)
(* where effects.go names the delay it relies on (OldEnough).              *)
(***************************************************************************)
EXTENDS Naturals, FiniteSets

CONSTANTS
  Handle,        \* store handles: one run of the daemon each
  Caller,        \* goroutines serving requests
  Key,           \* Idempotency-Keys of the session-message route
  Digest,        \* what a request asks for, as its receipt tells it apart
  Kind,          \* kinds of effect
  Message,       \* the kind that types a session message
  Idempotent,    \* the kinds that can find out whether they already happened
  BatchSizes,    \* how many effects one commit without a receipt may owe
  ReceiptLimit,  \* live receipts one scope admits
  MaxRows,       \* bound: rows the outbox takes
  MaxFaults,     \* bound: store writes that fail
  CallersLeave,  \* whether a caller's context may be cancelled
  None           \* no handle, no key, no digest

ASSUME OutboxAssumption ==
  /\ IsFiniteSet(Handle) /\ Handle \cap Caller = {}
  /\ None \notin Handle \cup Key \cup Digest
  /\ Idempotent \subseteq Kind
  /\ Message \in Kind \ Idempotent
  /\ BatchSizes \subseteq Nat \ {0}
  /\ ReceiptLimit \in Nat /\ MaxRows \in Nat /\ MaxFaults \in Nat
  /\ CallersLeave \in BOOLEAN

VARIABLES
  life,      \* what each handle is: not started, running, stopped, provably gone
  receipts,  \* request_receipts, one row per key
  aged,      \* the keys whose receipt is past its window
  outbox,    \* the outbox table
  lastId,    \* its last row id
  held,      \* Broker.held of each running handle
  thread,    \* where each goroutine is
  typed,     \* history: how often each row's effect took place
  told,      \* history: the final answers callers were given under each key
  faults     \* store writes that failed so far

vars == <<life, receipts, aged, outbox, lastId, held, thread, typed, told, faults>>

RowId  == 1 .. MaxRows
Thread == Caller \cup Handle      \* the goroutine of handle h's beat is h itself
Open   == {"pending", "started"}
Answer == {"delivered", "failed", "unknown"}

Receipt == [state  : {"none", "pending", "complete", "expired"},
            digest : Digest \cup {None},
            owner  : Handle \cup {None},
            answer : Answer \cup {None}]

Row == [state   : {"none", "pending", "started", "done", "failed", "unknown"},
        kind    : Kind \cup {None},
        owner   : Handle \cup {None},
        receipt : Key \cup {None},
        digest  : Digest \cup {None}]

(***************************************************************************)
(* A goroutine.  `todo` are the rows it has still to run, taken oldest     *)
(* first; `begun` are those its snapshot of the table said were started;   *)
(* `cur` is the row it holds and `res` how the attempt ended.              *)
(***************************************************************************)
Goroutine ==
  [pc     : {"idle", "reserved", "refusing", "orphaned",
             "next", "holds", "started", "ended", "releasing"},
   at     : Handle \cup {None},
   key    : Key \cup {None},
   digest : Digest \cup {None},
   todo   : SUBSET RowId,
   begun  : SUBSET RowId,
   cur    : RowId \cup {0},
   res    : {"typed", "refused", "error", "none"}]

NoReceipt == [state |-> "none", digest |-> None, owner |-> None, answer |-> None]
NoRow     == [state |-> "none", kind |-> None, owner |-> None,
              receipt |-> None, digest |-> None]
Idle      == [pc |-> "idle", at |-> None, key |-> None, digest |-> None,
              todo |-> {}, begun |-> {}, cur |-> 0, res |-> "none"]

TypeOK ==
  /\ life \in [Handle -> {"unborn", "up", "dead", "gone"}]
  /\ receipts \in [Key -> Receipt]
  /\ aged \subseteq Key
  /\ outbox \in [RowId -> Row]
  /\ lastId \in 0 .. MaxRows
  /\ held \in [Handle -> SUBSET RowId]
  /\ thread \in [Thread -> Goroutine]
  /\ typed \in [RowId -> 0 .. 2]
  /\ told \in [Key -> SUBSET ((Digest \cup {None}) \X (Answer \cup {None}))]
  /\ faults \in 0 .. MaxFaults

Init ==
  /\ life = [h \in Handle |-> "unborn"]
  /\ receipts = [k \in Key |-> NoReceipt]
  /\ aged = {}
  /\ outbox = [i \in RowId |-> NoRow]
  /\ lastId = 0
  /\ held = [h \in Handle |-> {}]
  /\ thread = [t \in Thread |-> Idle]
  /\ typed = [i \in RowId |-> 0]
  /\ told = [k \in Key |-> {}]
  /\ faults = 0

-----------------------------------------------------------------------------
(* What the transactions read.                                             *)

OpenRow(i)    == outbox[i].state \in Open
OpenRowsOf(k) == {i \in RowId : OpenRow(i) /\ outbox[i].receipt = k}

(* A handle never takes itself for gone; another is gone only when its     *)
(* process provably is.                                                    *)
OwnerGone(h, o) == o # h /\ o \in Handle /\ life[o] = "gone"

LiveReceipts == {k \in Key : receipts[k].state \in {"pending", "complete"} /\ k \notin aged}

(* Mutants of ClaimOutcome: the open rows are not looked at; the digest is *)
(* not compared.                                                           *)
ClaimOutcomeIgnoringOutbox(h, k, d) ==
  LET r == receipts[k] IN
  CASE r.state = "none" ->
         IF Cardinality(LiveReceipts) < ReceiptLimit THEN "new" ELSE "full"
    [] r.state # "none" /\ r.digest # d                              -> "mismatch"
    [] r.digest = d /\ r.state = "expired"                           -> "expired"
    [] r.digest = d /\ r.state = "complete" /\ k \in aged            -> "expires"
    [] r.digest = d /\ r.state = "complete" /\ k \notin aged         -> "replay"
    [] r.digest = d /\ r.state = "pending" /\ ~OwnerGone(h, r.owner)  -> "pending"
    [] OTHER                                                         -> "orphaned"

ClaimOutcomeAnyDigest(h, k, d) ==
  IF receipts[k].state = "complete" /\ k \notin aged THEN "replay"
  ELSE IF receipts[k].state = "none" /\ Cardinality(LiveReceipts) < ReceiptLimit THEN "new"
  ELSE "pending"

(* ClaimReceipt's answer, in the order its transaction decides it.         *)
ClaimOutcome(h, k, d) ==
  LET r == receipts[k] IN
  CASE r.state = "none" ->
         IF Cardinality(LiveReceipts) < ReceiptLimit THEN "new" ELSE "full"
    [] r.state # "none" /\ r.digest # d                              -> "mismatch"
    [] r.digest = d /\ r.state = "expired"                           -> "expired"
    [] r.digest = d /\ r.state = "complete" /\ k \in aged            -> "expires"
    [] r.digest = d /\ r.state = "complete" /\ k \notin aged         -> "replay"
    [] r.digest = d /\ r.state = "pending" /\
         (OpenRowsOf(k) # {} \/ ~OwnerGone(h, r.owner))              -> "pending"
    [] OTHER                                                         -> "orphaned"

(* completeReceipt changes one row or refuses with ErrConflict.            *)
Completable(h, k) == receipts[k].state = "pending" /\ receipts[k].owner = h

Completed(k, a) == [receipts[k] EXCEPT !.state = "complete", !.answer = a]

-----------------------------------------------------------------------------
(* Goroutines.                                                             *)

Fault == faults < MaxFaults /\ faults' = faults + 1

Runs(t) == thread[t].pc # "idle" /\ life[thread[t].at] = "up"
At(t)   == thread[t].at
Cur(t)  == outbox[thread[t].cur]

Goto(t, pc) == thread' = [thread EXCEPT ![t].pc = pc]
Leave(t)    == thread' = [thread EXCEPT ![t] = Idle]

(* runEffect returns: its deferred release, and the caller's loop goes on.  *)
Unhold(t) ==
  /\ held' = [held EXCEPT ![At(t)] = @ \ {thread[t].cur}]
  /\ thread' = [thread EXCEPT ![t].pc = "next", ![t].cur = 0, ![t].res = "none"]

IsFirst(i, S) == i \in S /\ \A j \in S : i <= j

-----------------------------------------------------------------------------
(* Broker.relay: a request under a key.                                    *)

ClaimNew(c, h, k, d) ==
  /\ thread[c].pc = "idle" /\ life[h] = "up"
  /\ ClaimOutcome(h, k, d) = "new"
  /\ receipts' = [receipts EXCEPT ![k] =
                    [state |-> "pending", digest |-> d, owner |-> h, answer |-> None]]
  /\ aged' = aged \ {k}
  /\ thread' = [thread EXCEPT ![c] =
                  [Idle EXCEPT !.pc = "reserved", !.at = h, !.key = k, !.digest = d]]
  /\ UNCHANGED <<life, outbox, lastId, held, typed, told, faults>>

(* The first answer again. *)
ClaimReplay(c, h, k, d) ==
  /\ thread[c].pc = "idle" /\ life[h] = "up"
  /\ ClaimOutcome(h, k, d) = "replay"
  /\ told' = [told EXCEPT ![k] = @ \cup {<<d, receipts[k].answer>>}]
  /\ UNCHANGED <<life, receipts, aged, outbox, lastId, held, thread, typed, faults>>

(* A complete receipt met past its window becomes a tombstone. *)
ClaimExpires(c, h, k, d) ==
  /\ thread[c].pc = "idle" /\ life[h] = "up"
  /\ ClaimOutcome(h, k, d) = "expires"
  /\ receipts' = [receipts EXCEPT ![k].state = "expired", ![k].answer = None]
  /\ UNCHANGED <<life, aged, outbox, lastId, held, thread, typed, told, faults>>

(* Its holder is gone and owes no effect: this handle takes the receipt,   *)
(* and must file that the outcome is unknown.                              *)
ClaimOrphaned(c, h, k, d) ==
  /\ thread[c].pc = "idle" /\ life[h] = "up"
  /\ ClaimOutcome(h, k, d) = "orphaned"
  /\ receipts' = [receipts EXCEPT ![k].owner = h]
  /\ thread' = [thread EXCEPT ![c] =
                  [Idle EXCEPT !.pc = "orphaned", !.at = h, !.key = k, !.digest = d]]
  /\ UNCHANGED <<life, aged, outbox, lastId, held, typed, told, faults>>

CompleteOrphan(c) ==
  LET k == thread[c].key IN
  /\ Runs(c) /\ thread[c].pc = "orphaned"
  /\ Completable(At(c), k)
  /\ receipts' = [receipts EXCEPT ![k] = Completed(k, "unknown")]
  /\ told' = [told EXCEPT ![k] = @ \cup {<<thread[c].digest, "unknown">>}]
  /\ Leave(c)
  /\ UNCHANGED <<life, aged, outbox, lastId, held, typed, faults>>

(* The completion is made on the caller's own context: it also fails when  *)
(* the caller has left.                                                    *)
CompleteOrphanFails(c) ==
  /\ Runs(c) /\ thread[c].pc = "orphaned"
  /\ \/ CallersLeave /\ UNCHANGED faults
     \/ Fault
     \/ ~Completable(At(c), thread[c].key) /\ UNCHANGED faults
  /\ Leave(c)
  /\ UNCHANGED <<life, receipts, aged, outbox, lastId, held, typed, told>>

(* A check refuses (no such source or target, a menu on screen), or the    *)
(* intent could not be committed: the reservation is to be given back.     *)
Refuse(c) ==
  /\ Runs(c) /\ thread[c].pc = "reserved"
  /\ Goto(c, "refusing")
  /\ UNCHANGED <<life, receipts, aged, outbox, lastId, held, typed, told, faults>>

(* ReleaseReceipt deletes what this handle still reserves, if anything.    *)
Released(h, k) == IF Completable(h, k) THEN [receipts EXCEPT ![k] = NoReceipt] ELSE receipts

(* Mutant: the refusal's release is forgotten. *)
GiveBackForgotten(c) ==
  /\ Runs(c) /\ thread[c].pc = "refusing"
  /\ Leave(c)
  /\ UNCHANGED <<life, receipts, aged, outbox, lastId, held, typed, told, faults>>

GiveBack(c) ==
  /\ Runs(c) /\ thread[c].pc = "refusing"
  /\ receipts' = Released(At(c), thread[c].key)
  /\ Leave(c)
  /\ UNCHANGED <<life, aged, outbox, lastId, held, typed, told, faults>>

GiveBackFails(c) ==
  /\ Runs(c) /\ thread[c].pc = "refusing"
  /\ Fault
  /\ Leave(c)
  /\ UNCHANGED <<life, receipts, aged, outbox, lastId, held, typed, told>>

(* RecordIntent, and the loop of runRecorded over what it recorded.        *)
RecordMessage(c) ==
  LET i == lastId + 1 IN
  /\ Runs(c) /\ thread[c].pc = "reserved"
  /\ i <= MaxRows
  /\ lastId' = i
  /\ outbox' = [outbox EXCEPT ![i] =
                  [state |-> "pending", kind |-> Message, owner |-> At(c),
                   receipt |-> thread[c].key, digest |-> thread[c].digest]]
  /\ thread' = [thread EXCEPT ![c].pc = "next", ![c].todo = {i}]
  /\ UNCHANGED <<life, receipts, aged, held, typed, told, faults>>

(* A commit that owes several effects and answers no receipt: releasing a  *)
(* file wait tells every waiter, dispatching a task makes its checkout.    *)
RecordBatch(c, h, kind, n) ==
  LET ids == (lastId + 1) .. (lastId + n) IN
  /\ thread[c].pc = "idle" /\ life[h] = "up"
  /\ kind # Message
  /\ lastId + n <= MaxRows
  /\ lastId' = lastId + n
  /\ outbox' = [i \in RowId |->
                  IF i \in ids
                  THEN [state |-> "pending", kind |-> kind, owner |-> h,
                        receipt |-> None, digest |-> None]
                  ELSE outbox[i]]
  /\ thread' = [thread EXCEPT ![c] =
                  [Idle EXCEPT !.pc = "next", !.at = h, !.todo = ids]]
  /\ UNCHANGED <<life, receipts, aged, held, typed, told, faults>>

-----------------------------------------------------------------------------
(* The beat: RecoverEffects.                                               *)

Adoptable(h) == {i \in RowId : OpenRow(i) /\ OwnerGone(h, outbox[i].owner)}

(* One transaction; an adopted row's pending receipt moves with it.        *)
AdoptEffects(h) ==
  LET S  == Adoptable(h)
      ks == {outbox[i].receipt : i \in S} IN
  /\ thread[h].pc = "idle" /\ life[h] = "up"
  /\ S # {}
  /\ outbox' = [i \in RowId |-> IF i \in S THEN [outbox[i] EXCEPT !.owner = h] ELSE outbox[i]]
  /\ receipts' = [k \in Key |-> IF k \in ks /\ receipts[k].state = "pending"
                                THEN [receipts[k] EXCEPT !.owner = h] ELSE receipts[k]]
  /\ thread' = [thread EXCEPT ![h] =
                  [Idle EXCEPT !.pc = "next", !.at = h, !.todo = S,
                               !.begun = {i \in S : outbox[i].state = "started"}]]
  /\ UNCHANGED <<life, aged, lastId, held, typed, told, faults>>

(* A pending row's own goroutine holds it by the very next statement, long *)
(* before unattendedPending has passed.                                    *)
OldEnough(i) ==
  outbox[i].state = "pending" =>
    ~ \E c \in Caller : thread[c].pc = "next" /\ IsFirst(i, thread[c].todo)

(* Mutant: a daemon does not look at its own unfinished rows. *)
UnattendedNever(h) == {}

Unattended(h) ==
  {i \in RowId : OpenRow(i) /\ outbox[i].owner = h /\ i \notin held[h] /\ OldEnough(i)}

(* OwnOpenEffects is a read: what it answers may be stale when it is used. *)
(* The rows past their age limit are the oldest ones.                      *)
ReadUnattended(h, oldest) ==
  LET S == {i \in Unattended(h) : i <= oldest} IN
  /\ thread[h].pc = "idle" /\ life[h] = "up"
  /\ S # {}
  /\ thread' = [thread EXCEPT ![h] =
                  [Idle EXCEPT !.pc = "next", !.at = h, !.todo = S,
                               !.begun = {i \in S : outbox[i].state = "started"}]]
  /\ UNCHANGED <<life, receipts, aged, outbox, lastId, held, typed, told, faults>>

-----------------------------------------------------------------------------
(* Running rows: runRecorded for a request, settleEffect for the beat.     *)

(* Mutant: relay returns as if nothing had been recorded. *)
ReturnUnrecorded(t) ==
  /\ Runs(t) /\ thread[t].pc = "next" /\ thread[t].todo = {}
  /\ receipts' = IF thread[t].key # None THEN Released(At(t), thread[t].key) ELSE receipts
  /\ Leave(t)
  /\ UNCHANGED <<life, aged, outbox, lastId, held, typed, told, faults>>

(* The goroutine has no row left. *)
Return(t) ==
  /\ Runs(t) /\ thread[t].pc = "next" /\ thread[t].todo = {}
  /\ Leave(t)
  /\ UNCHANGED <<life, receipts, aged, outbox, lastId, held, typed, told, faults>>

(* Row i is the one it turns to next. *)
TurnsTo(t, i) == Runs(t) /\ thread[t].pc = "next" /\ IsFirst(i, thread[t].todo)

Drop(t, i) == thread' = [thread EXCEPT ![t].todo = @ \ {i}]

(* Mutant: a begun row is run again whatever its kind. *)
MustNotRepeatNothing(t, i) == FALSE

(* A row the snapshot says was begun, of a kind that cannot find out.      *)
MustNotRepeat(t, i) == i \in thread[t].begun /\ outbox[i].kind \notin Idempotent

(* FinishEffect's guards when it ends row i of handle h in a given state,  *)
(* filing an answer or none.                                               *)
Finishable(h, i, state, answer) ==
  /\ outbox[i].owner = h
  /\ outbox[i].state = "started" \/ (state = "unknown" /\ outbox[i].state = "pending")
  /\ outbox[i].receipt # None /\ answer # None => Completable(h, outbox[i].receipt)

FinishEffect(h, i, state, answer) ==
  /\ Finishable(h, i, state, answer)
  /\ outbox' = [outbox EXCEPT ![i].state = state]
  /\ receipts' = IF outbox[i].receipt # None /\ answer # None
                 THEN [receipts EXCEPT ![outbox[i].receipt] = Completed(outbox[i].receipt, answer)]
                 ELSE receipts

(* settleEffect closes it without a hold; a failure is left for a later    *)
(* beat.                                                                   *)
SettleUnknown(t, i) ==
  /\ TurnsTo(t, i) /\ MustNotRepeat(t, i)
  /\ \/ FinishEffect(At(t), i, "unknown", "unknown") /\ UNCHANGED faults
     \/ /\ ~Finishable(At(t), i, "unknown", "unknown")
        /\ UNCHANGED <<outbox, receipts, faults>>
     \/ Fault /\ UNCHANGED <<outbox, receipts>>
  /\ Drop(t, i)
  /\ UNCHANGED <<life, aged, lastId, held, typed, told>>

(* Mutant: a row somebody holds is held again. *)
HoldAgain(t, i) ==
  /\ TurnsTo(t, i) /\ ~MustNotRepeat(t, i)
  /\ held' = [held EXCEPT ![At(t)] = @ \cup {i}]
  /\ thread' = [thread EXCEPT ![t].pc = "holds", ![t].cur = i,
                              ![t].todo = @ \ {i}]
  /\ UNCHANGED <<life, receipts, aged, outbox, lastId, typed, told, faults>>

Hold(t, i) ==
  /\ TurnsTo(t, i) /\ ~MustNotRepeat(t, i)
  /\ i \notin held[At(t)]
  /\ held' = [held EXCEPT ![At(t)] = @ \cup {i}]
  /\ thread' = [thread EXCEPT ![t].pc = "holds", ![t].cur = i,
                              ![t].todo = @ \ {i}]
  /\ UNCHANGED <<life, receipts, aged, outbox, lastId, typed, told, faults>>

(* Somebody in this process has the row: ErrEffectTaken. *)
HoldRefused(t, i) ==
  /\ TurnsTo(t, i) /\ ~MustNotRepeat(t, i)
  /\ i \in held[At(t)]
  /\ Drop(t, i)
  /\ UNCHANGED <<life, receipts, aged, outbox, lastId, held, typed, told, faults>>

(* A row already started may be started again: the caller is trusted.      *)
StartEffect(t) ==
  /\ Runs(t) /\ thread[t].pc = "holds"
  /\ OpenRow(thread[t].cur) /\ Cur(t).owner = At(t)
  /\ outbox' = [outbox EXCEPT ![thread[t].cur].state = "started"]
  /\ Goto(t, "started")
  /\ UNCHANGED <<life, receipts, aged, lastId, held, typed, told, faults>>

StartFails(t) ==
  /\ Runs(t) /\ thread[t].pc = "holds"
  /\ \/ ~(OpenRow(thread[t].cur) /\ Cur(t).owner = At(t)) /\ UNCHANGED faults
     \/ Fault
  /\ Unhold(t)
  /\ UNCHANGED <<life, receipts, aged, outbox, lastId, typed, told>>

(* The handler.  A line is typed, refused before a byte of it (no session, *)
(* a menu, a busy lane), or fails somewhere in the middle.  An idempotent  *)
(* handler first finds out whether it already happened.                    *)
Took(t, res) ==
  thread' = [thread EXCEPT ![t].pc = "ended", ![t].res = res]

Attempt(t) ==
  LET i == thread[t].cur IN
  /\ Runs(t) /\ thread[t].pc = "started"
  /\ IF Cur(t).kind \in Idempotent /\ typed[i] > 0
     THEN Took(t, "typed") /\ UNCHANGED typed
     ELSE /\ typed[i] < 2
          /\ \/ Took(t, "typed") /\ typed' = [typed EXCEPT ![i] = @ + 1]
             \/ Took(t, "refused") /\ UNCHANGED typed
             \/ Took(t, "error") /\ UNCHANGED typed
             \/ Took(t, "error") /\ typed' = [typed EXCEPT ![i] = @ + 1]
  /\ UNCHANGED <<life, receipts, aged, outbox, lastId, held, told, faults>>

EndState(res) == IF res = "typed" THEN "done" ELSE "failed"

(* Mutant: an answer about this moment only is filed for good. *)
EndAnswerFilesRefusal(t) ==
  IF Cur(t).receipt = None THEN None
  ELSE CASE thread[t].res = "typed"    -> "delivered"
         [] thread[t].res = "error"    -> "failed"
         [] thread[t].res = "refused"  -> "target_busy"
         [] OTHER                      -> None

(* The answer the receipt is completed with; a refusal files none and      *)
(* gives the reservation back afterwards, in a transaction of its own.     *)
EndAnswer(t) ==
  IF Cur(t).receipt = None THEN None
  ELSE CASE thread[t].res = "typed"  -> "delivered"
         [] thread[t].res = "error"  -> "failed"
         [] OTHER                    -> None

(* The caller of Relay is told the answer its own run filed. *)
Tell(t, a) ==
  told' = IF t \in Caller /\ a # None
          THEN [told EXCEPT ![Cur(t).receipt] = @ \cup {<<Cur(t).digest, a>>}]
          ELSE told

Finish(t) ==
  LET a == EndAnswer(t) IN
  /\ Runs(t) /\ thread[t].pc = "ended"
  /\ FinishEffect(At(t), thread[t].cur, EndState(thread[t].res), a)
  /\ Tell(t, a)
  /\ IF thread[t].res = "refused" /\ Cur(t).receipt # None
     THEN Goto(t, "releasing") /\ UNCHANGED held
     ELSE Unhold(t)
  /\ UNCHANGED <<life, aged, lastId, typed, faults>>

(* "ran and could not be recorded": logged, and the row stays started.     *)
FinishFails(t) ==
  /\ Runs(t) /\ thread[t].pc = "ended"
  /\ \/ /\ ~Finishable(At(t), thread[t].cur, EndState(thread[t].res), EndAnswer(t))
        /\ UNCHANGED faults
     \/ Fault
  /\ Unhold(t)
  /\ UNCHANGED <<life, receipts, aged, outbox, lastId, typed, told>>

ReleaseAfter(t) ==
  /\ Runs(t) /\ thread[t].pc = "releasing"
  /\ \/ receipts' = Released(At(t), Cur(t).receipt) /\ UNCHANGED faults
     \/ Fault /\ UNCHANGED receipts
  /\ Unhold(t)
  /\ UNCHANGED <<life, aged, outbox, lastId, typed, told>>

-----------------------------------------------------------------------------
(* Time, and the daemon's own comings and goings.                          *)

WindowPasses(k) ==
  /\ k \notin aged /\ receipts[k].state \in {"pending", "complete"}
  /\ aged' = aged \cup {k}
  /\ UNCHANGED <<life, receipts, outbox, lastId, held, thread, typed, told, faults>>

(* The sweep of every sixtieth beat. *)
ExpireReceipts(h) ==
  LET S == {k \in aged : receipts[k].state = "complete"} IN
  /\ thread[h].pc = "idle" /\ life[h] = "up"
  /\ S # {}
  /\ receipts' = [k \in Key |-> IF k \in S
                    THEN [receipts[k] EXCEPT !.state = "expired", !.answer = None]
                    ELSE receipts[k]]
  /\ UNCHANGED <<life, aged, outbox, lastId, held, thread, typed, told, faults>>

(* Nothing keeps two daemons off one store: a new handle may open while an *)
(* old one still runs.                                                     *)
Boot(h) ==
  /\ life[h] = "unborn"
  /\ life' = [life EXCEPT ![h] = "up"]
  /\ UNCHANGED <<receipts, aged, outbox, lastId, held, thread, typed, told, faults>>

(* The process dies; its goroutines and its holds with it.  One handle is  *)
(* always left to start or to run on: the bound on restarts.               *)
Crash(h) ==
  /\ life[h] = "up"
  /\ \E g \in Handle \ {h} : life[g] \in {"unborn", "up"}
  /\ life' = [life EXCEPT ![h] = "dead"]
  /\ held' = [held EXCEPT ![h] = {}]
  /\ thread' = [t \in Thread |-> IF thread[t].at = h THEN Idle ELSE thread[t]]
  /\ UNCHANGED <<receipts, aged, outbox, lastId, typed, told, faults>>

(* The pid answers to nobody any more: ownerGone can be proved.            *)
PidFreed(h) ==
  /\ life[h] = "dead"
  /\ life' = [life EXCEPT ![h] = "gone"]
  /\ UNCHANGED <<receipts, aged, outbox, lastId, held, thread, typed, told, faults>>

-----------------------------------------------------------------------------
Claim(c) ==
  \E h \in Handle, k \in Key, d \in Digest :
    \/ ClaimNew(c, h, k, d)
    \/ ClaimReplay(c, h, k, d)
    \/ ClaimExpires(c, h, k, d)
    \/ ClaimOrphaned(c, h, k, d)

(* A request goroutine between its claim and its commit. *)
Decide(c) ==
  \/ CompleteOrphan(c) \/ CompleteOrphanFails(c)
  \/ Refuse(c) \/ GiveBack(c) \/ GiveBackFails(c)
  \/ RecordMessage(c)

(* A goroutine running the rows it has. *)
Run(t) ==
  \/ Return(t)
  \/ \E i \in RowId : SettleUnknown(t, i) \/ Hold(t, i) \/ HoldRefused(t, i)
  \/ StartEffect(t) \/ StartFails(t) \/ Attempt(t)
  \/ Finish(t) \/ FinishFails(t) \/ ReleaseAfter(t)

Batch(c) == \E h \in Handle, kind \in Kind, n \in BatchSizes : RecordBatch(c, h, kind, n)

Beat(h) == AdoptEffects(h) \/ \E i \in RowId : ReadUnattended(h, i)

Next ==
  \/ \E c \in Caller : Claim(c) \/ Decide(c) \/ Batch(c)
  \/ \E t \in Thread : Run(t)
  \/ \E h \in Handle : Beat(h) \/ ExpireReceipts(h) \/ Boot(h) \/ Crash(h) \/ PidFreed(h)
  \/ \E k \in Key : WindowPasses(k)

Spec == Init /\ [][Next]_vars

(* The Go scheduler runs every goroutine, the beat ticks while its daemon  *)
(* runs, a daemon is started again, and a dead process's pid is freed.     *)
Fairness ==
  /\ \A c \in Caller : WF_vars(Decide(c))
  /\ \A t \in Thread : WF_vars(Run(t))
  /\ \A h \in Handle : WF_vars(Beat(h)) /\ WF_vars(Boot(h)) /\ WF_vars(PidFreed(h))

FairSpec == Spec /\ Fairness

-----------------------------------------------------------------------------
(* What the design promises.                                               *)

RowsOf(k) == {i \in RowId : outbox[i].receipt = k}

(* Whatever crashes, overlapping daemons, failing writes and resends come  *)
(* together, the message of one Idempotency-Key is typed at most once      *)
(* (messages.go: "types it after the restart, once").                      *)
MessageTypedOnce ==
  \A k \in Key, i \in RowId, j \in RowId :
    {i, j} \subseteq RowsOf(k) /\ typed[i] > 0 /\ typed[j] > 0 => i = j /\ typed[i] = 1

(* An effect whose kind cannot find out whether it happened takes place at *)
(* most once, in a commit that owes several as well (effects.go: settled   *)
(* "exactly once", never "done twice").                                    *)
EffectAtMostOnce ==
  \A i \in RowId : outbox[i].kind \notin Idempotent => typed[i] <= 1

(* As long as every write succeeds, that holds for commits that owe several *)
(* effects, run by their request and the beat of every daemon (effects.go,   *)
(* unattended and runRecorded).                                              *)
OnceUntilFault == faults = 0 => EffectAtMostOnce

(* An effect still owed has its request's receipt: reserved, by the handle *)
(* that owns the row, for the same request.  FinishEffect's completion can *)
(* then never meet ErrConflict, and ClaimReceipt can never admit the       *)
(* request a second time.                                                  *)
OpenEffectOwnsReceipt ==
  \A i \in RowId : OpenRow(i) /\ outbox[i].receipt # None =>
    LET r == receipts[outbox[i].receipt] IN
    r.state = "pending" /\ r.owner = outbox[i].owner /\ r.digest = outbox[i].digest

(* A key is given back for a fresh attempt only when nothing was typed     *)
(* under it (receipts.go: "the request did nothing").                      *)
GivenBackUntyped ==
  \A k \in Key : receipts[k].state = "none" => \A i \in RowsOf(k) : typed[i] = 0

(* Every caller that is ever told a final answer under a key is told the   *)
(* same one, about the same request, and the receipt keeps no other; the   *)
(* answer "delivered" is given only for a line that was typed.             *)
FinalAnswersAgree ==
  \A k \in Key :
    LET r == receipts[k] IN
    /\ \A x, y \in told[k] : x = y
    /\ r.state = "complete" => told[k] \subseteq {<<r.digest, r.answer>>}
    /\ \A x \in told[k] : x[2] = "delivered" =>
         \E i \in RowsOf(k) : outbox[i].digest = x[1] /\ typed[i] = 1

(* An effect that is owed is settled in the end, whichever daemon owed it. *)
OwedIsSettled == \A i \in RowId : OpenRow(i) ~> ~OpenRow(i)

(* As long as no caller leaves and no write has failed, a daemon that keeps *)
(* running does not sit on a reserved key for ever: a resend gets an answer *)
(* instead of request_in_progress (messages.go: relay).  Both premises are  *)
(* needed.  An orphan's answer is filed on the context of the caller that   *)
(* claimed it (CompleteOrphanFails): with CallersLeave a caller that goes   *)
(* then leaves the key reserved under a running daemon, for good.           *)
ReservationEnds ==
  \A k \in Key, h \in Handle :
    (receipts[k].state = "pending" /\ receipts[k].owner = h)
      ~> (receipts[k].state # "pending" \/ life[h] # "up" \/ faults > 0)

=============================================================================

---------------------------- MODULE Deliveries ----------------------------
(***************************************************************************)
(* One webhook delivery: what Cloud offers, the journal that remembers it  *)
(* (store/schedule_webhook_deliveries.go), the poller that carries it from *)
(* receipt to receipt (app/schedule_webhooks.go), and the schedule it runs *)
(* (Schedules).  Each step of the poller begins at the journal and ends    *)
(* there; a daemon that dies, or a write that fails, leaves what was saved *)
(* last.                                                                   *)
(***************************************************************************)
EXTENDS Schedules, Sequences

CONSTANTS
  Poller,       \* the daemon that polls Cloud
  MaxLapses,    \* bound: leases that run out before they are used
  MaxReceipts   \* bound: receipts after which the machine is not full again

ASSUME DeliveriesAssumption ==
  /\ Poller \in Daemon
  /\ HookRun # {}
  /\ MaxLapses \in Nat /\ MaxReceipts \in Nat

VARIABLES
  slip,     \* the journal's row
  asking,   \* what the poller waits for, and the book's answer
  cloud     \* the relay's side: what it said, what it heard

hookVars == <<slip, asking, cloud>>
vars == <<bookVars, hookVars>>

Receipt == {"durable", "deferred", "accepted", "refused", "terminal"}

\* `ended': Cloud said that it expired or was cancelled.
Slip == [state : Receipt \cup {"none", "prepared", "ended"}, bound : BOOLEAN, run : HookRun,
         lease : Nat, sent : Nat, acked : Nat, pending : Receipt \cup {"nothing"}]

\* `full' is backpressure, `no' any other refusal.
Answer == {"nothing", "waiting", "run", "full", "unknown", "no"}

Cloud == [ended : BOOLEAN, lease : Nat, heard : Seq(Receipt)]

Init ==
  /\ BookInit
  /\ slip = [state |-> "none", bound |-> FALSE, run |-> CHOOSE r \in HookRun : TRUE,
             lease |-> 0, sent |-> 0, acked |-> 0, pending |-> "nothing"]
  /\ asking = "nothing"
  /\ cloud = [ended |-> FALSE, lease |-> 1, heard |-> <<>>]

-----------------------------------------------------------------------------
(* The journal. *)

\* The task's id is written down before anything is answered or asked; the same
\* delivery again finds the same row, and brings the lease for receipt 1.
Offer ==
  /\ asking = "nothing" /\ cloud.heard = <<>>
  /\ \E bound \in {row.here, FALSE} :
       slip' = IF slip.state = "none"
               THEN [slip EXCEPT !.state = "prepared", !.bound = bound, !.lease = cloud.lease]
               ELSE IF slip.acked = 0 THEN [slip EXCEPT !.lease = cloud.lease] ELSE slip
  /\ UNCHANGED <<bookVars, asking, cloud>>

Resting == slip.pending = "nothing" /\ slip.state \notin {"none", "ended"}

\* A receipt is saved before it leaves the machine.
Queued(kind) == [slip EXCEPT !.state = kind, !.pending = kind, !.sent = @ + 1]

QueueDurable ==
  /\ Resting /\ slip.acked = 0 /\ asking = "nothing"
  /\ slip' = Queued("durable")
  /\ UNCHANGED <<bookVars, asking, cloud>>

(* Mutant: a deferred delivery is not asked again. *)
UndecidedOnce == Resting /\ slip.acked > 0 /\ slip.state = "durable"

Undecided == Resting /\ slip.acked > 0 /\ slip.state \in {"durable", "deferred"}

QueueUnbound ==
  /\ Undecided /\ ~slip.bound /\ asking = "nothing"
  /\ slip' = Queued("refused")
  /\ UNCHANGED <<bookVars, asking, cloud>>

AskBook ==
  /\ Undecided /\ slip.bound /\ asking = "nothing"
  /\ asking' = "waiting"
  /\ UNCHANGED <<bookVars, slip, cloud>>

(* Mutant: a run whose tab never opened is told as accepted. *)
KindOfHopeful(answer) == CASE answer \in {"run", "no"} -> "accepted" [] OTHER -> "deferred"

(* Mutant: the book's answer itself is queued. *)
KindOfRaw(answer) == answer

KindOf(answer) == CASE answer = "run" -> "accepted" [] answer = "full" -> "deferred" [] answer = "no" -> "refused"

\* What the book could not say is asked again, under the same id.
QueueAnswer ==
  /\ asking \in {"run", "full", "no"}
  /\ asking' = "nothing"
  /\ \/ slip' = Queued(KindOf(asking)) /\ UNCHANGED troubles
     \/ UNCHANGED slip /\ Trouble
  /\ UNCHANGED <<clock, row, runs, beat, work, wishes, cloud>>

AnswerUnknown ==
  /\ asking = "unknown"
  /\ asking' = "nothing"
  /\ UNCHANGED <<bookVars, slip, cloud>>

QueueTerminal ==
  /\ Resting /\ slip.state = "accepted" /\ asking = "nothing"
  /\ slip.run \in Linked /\ runs[slip.run].state = "finished"
  /\ slip' = Queued("terminal")
  /\ UNCHANGED <<bookVars, asking, cloud>>

-----------------------------------------------------------------------------
(* Cloud takes a receipt, refuses it, or does not answer. *)

NewToCloud == slip.sent = Len(cloud.heard) + 1
LeaseHolds == slip.sent = 1 => slip.lease = cloud.lease

Acknowledged == [slip EXCEPT !.acked = slip.sent, !.pending = "nothing"]

SendReceipt ==
  /\ slip.pending # "nothing" /\ asking = "nothing" /\ ~cloud.ended
  /\ NewToCloud => LeaseHolds
  /\ cloud' = IF NewToCloud THEN [cloud EXCEPT !.heard = Append(@, slip.pending)] ELSE cloud
  /\ \/ slip' = Acknowledged /\ UNCHANGED troubles
     \/ UNCHANGED slip /\ Trouble
  /\ UNCHANGED <<clock, row, runs, beat, work, wishes, asking>>

(* Mutant: a receipt that came too late counts as taken. *)
TakenAnyway == [slip EXCEPT !.acked = slip.sent, !.pending = "nothing"]

EndedAway == [slip EXCEPT !.state = "ended", !.pending = "nothing"]

\* Cloud ended it: nothing of it is sent or run any more.
ReceiptRefused ==
  /\ slip.pending # "nothing" /\ asking = "nothing" /\ cloud.ended
  /\ slip' = EndedAway
  /\ UNCHANGED <<bookVars, asking, cloud>>

CloudEnds ==
  /\ ~cloud.ended
  /\ cloud' = [cloud EXCEPT !.ended = TRUE]
  /\ UNCHANGED <<bookVars, slip, asking>>

LeaseLapses ==
  /\ cloud.heard = <<>> /\ cloud.lease <= MaxLapses
  /\ cloud' = [cloud EXCEPT !.lease = @ + 1]
  /\ UNCHANGED <<bookVars, slip, asking>>

-----------------------------------------------------------------------------
(* The schedule's steps, and what the poller hears of its own. *)

ForHook(d) == d = Poller /\ work[d].how = "webhook" /\ work[d].pc # "idle"

Hears(d, answer) == asking' = IF ForHook(d) /\ work'[d].pc = "idle" THEN answer ELSE asking

PollerReads ==
  /\ asking = "waiting" /\ ~ForHook(Poller)
  /\ \/ HookReads(Poller, slip.run) /\ UNCHANGED <<wishes, asking>>
     \/ work[Poller].pc = "idle" /\ ~row.here /\ asking' = "no" /\ UNCHANGED bookVars
  /\ UNCHANGED <<slip, cloud>>

\* Steps that answer nobody.  A machine is not full for ever.
OwnStep(d) ==
  \/ BeatWakes(d) \/ BeatLoads(d) \/ BeatDecides(d) \/ Marks(d) \/ LooksAgain(d) \/ Claims(d)
  \/ Links(d) \/ Absent(d, FALSE)
  \/ Absent(d, TRUE) /\ (work[d].how = "webhook" => slip.sent < MaxReceipts)
  \/ Restores(d) \/ ReadsToStamp(d) \/ Stamps(d)
  \/ PressReads(d, FALSE) \/ PressReads(d, TRUE) \/ PressDecides(d)
  \/ SaveReads(d) \/ SaveWrites(d) \/ SaveEnds(d) \/ Deletes(d)

BookStep(d) ==
  /\ \/ (HookDecides(d) \/ LinkFails(d) \/ Unopened(d) \/ Fails(d)) /\ Hears(d, "no")
     \/ Accepted(d) /\ Hears(d, "run")
     \/ Replayed(d) /\ Hears(d, IF runs[work[d].run].state = "unopened" THEN "no" ELSE "run")
     \/ Unknown(d) /\ Hears(d, "unknown")
     \/ (Forgets(d) \/ Skips(d)) /\ Hears(d, IF work[d].full THEN "full" ELSE "no")
     \/ OwnStep(d) /\ UNCHANGED asking
  /\ UNCHANGED <<slip, cloud>>

Crash(d) ==
  /\ BookCrash(d)
  /\ asking' = IF d = Poller THEN "nothing" ELSE asking
  /\ UNCHANGED <<slip, cloud>>

World == (Tick \/ \E r \in Run : TaskEnds(r)) /\ UNCHANGED hookVars

Next ==
  \/ \E d \in Daemon : BookStep(d) \/ Crash(d)
  \/ PollerReads \/ World
  \/ Offer \/ QueueDurable \/ QueueUnbound \/ AskBook \/ QueueAnswer \/ AnswerUnknown \/ QueueTerminal
  \/ SendReceipt \/ ReceiptRefused \/ CloudEnds \/ LeaseLapses

LaneMoves(d) == work[d].pc # "idle" /\ BookStep(d)
PassComes(d) == BeatWakes(d) /\ UNCHANGED hookVars
PassEnters(d) == BeatLoads(d) /\ UNCHANGED hookVars

PollerMoves ==
  \/ Offer \/ QueueDurable \/ QueueUnbound \/ AskBook \/ QueueAnswer \/ AnswerUnknown \/ QueueTerminal
  \/ SendReceipt \/ ReceiptRefused

\* As for the book; and the poller runs on, Cloud offers again and answers.
Fairness ==
  /\ \A d \in Daemon : WF_vars(LaneMoves(d)) /\ WF_vars(PassComes(d)) /\ SF_vars(PassEnters(d))
  /\ SF_vars(PollerReads) /\ WF_vars(PollerMoves)
  /\ \A r \in Run : WF_vars(TaskEnds(r) /\ UNCHANGED hookVars)
  /\ WF_vars(Tick /\ UNCHANGED hookVars)

Spec == Init /\ [][Next]_vars
FairSpec == Spec /\ Fairness

-----------------------------------------------------------------------------
(* Properties. *)

TypeOK ==
  /\ BookTypeOK
  /\ slip \in Slip /\ asking \in Answer /\ cloud \in Cloud

\* What Cloud ended before it had receipt 1 is never run (advance).
EndedNeverRuns == cloud.ended /\ cloud.heard = <<>> => runs[slip.run].state = "none"

\* Cloud hears one story, each receipt once and in order, and of an acceptance
\* only when the task is there (queueAndAdvance, advance).
OneStory ==
  /\ \A i \in DOMAIN cloud.heard :
       /\ i = 1 <=> cloud.heard[i] = "durable"
       /\ cloud.heard[i] \in {"refused", "terminal"} => i = Len(cloud.heard)
       /\ cloud.heard[i] = "accepted" => i >= Len(cloud.heard) - 1
       /\ cloud.heard[i] = "terminal" => cloud.heard[i - 1] = "accepted"
  /\ \A i \in DOMAIN cloud.heard : cloud.heard[i] = "accepted" => runs[slip.run].state \in {"working", "finished"}

Told(kind) == \E i \in DOMAIN cloud.heard : cloud.heard[i] = kind

\* A delivery Cloud knows to be held here is answered to its end, past crashes
\* and lost answers (Run, PollOnce).
DeliveryAnswered == cloud.heard # <<>> ~> (cloud.ended \/ Told("refused") \/ Told("terminal"))
=============================================================================

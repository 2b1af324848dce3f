----------------------------- MODULE Schedules -----------------------------
(***************************************************************************)
(* One schedule and the runs it makes: the minute timer (app/scheduler.go, *)
(* domain/schedule), a person's press, a webhook, a save and a removal     *)
(* (app/schedules.go), over the store's row and links                      *)
(* (adapters/store/schedules.go) and the broker's answer                   *)
(* (app/orchestrator/scheduled.go).                                        *)
(*                                                                         *)
(* ScheduleBook.mu is one lane in a daemon: a pass, a press, a save or a   *)
(* hook has it from its first read to its last write, and between two of   *)
(* these the daemon may end, a write may fail and the child goes on.       *)
(* Nothing keeps a second daemon out.  Instants are whole minutes; clock   *)
(* = t stands for a moment in [t, t + 1).                                  *)
(***************************************************************************)
EXTENDS Integers, FiniteSets

CONSTANTS
  Daemon,
  Plan, Fires,   \* what `when' may say, and the instants each names
  OncePlan,      \* the plans that name one date
  Window,        \* catch-up window, in minutes
  MaxClock,      \* bound: the last instant
  Run,           \* task ids
  HookRun,       \* those chosen for a webhook delivery
  MaxWishes,     \* bound: presses, saves and removals
  MaxTroubles    \* bound: crashes and failed reads and writes

ASSUME SchedulesAssumption ==
  /\ Fires \in [Plan -> SUBSET (Nat \ {0})]
  /\ OncePlan \subseteq Plan
  /\ \A p \in Plan : IsFiniteSet(Fires[p])
  /\ \A p \in OncePlan : Cardinality(Fires[p]) = 1
  /\ Window \in Nat /\ MaxClock \in Nat \ {0}
  /\ Plan # {} /\ Run # {} /\ HookRun \subseteq Run
  /\ MaxWishes \in Nat /\ MaxTroubles \in Nat

VARIABLES
  clock,
  row,      \* the row of schedule_files, its body included
  runs,     \* schedule_runs and the broker's record, for each task id
  beat,     \* the instant a pass of each daemon read before it had the lane
  work,     \* who has the lane of each daemon, and what it holds
  wishes, troubles

bookVars == <<clock, row, runs, beat, work, wishes, troubles>>

\* 0 stands for none.
Instant == Nat
Occurrence == {0} \cup UNION {Fires[p] : p \in Plan}

Schedule == [here : BOOLEAN, plan : Plan, on : BOOLEAN, changed : Instant, fired : Occurrence,
             seen : Instant, last : Occurrence]

\* `state' is what the broker's record says; "none" where it has no record.
RunState == {"none", "working", "finished", "unopened"}

RunRow == [linked : BOOLEAN, at : Instant, fire : Occurrence, how : {"timer", "manual", "webhook"},
           forced : BOOLEAN, state : RunState]

Unrun == [linked |-> FALSE, at |-> 0, fire |-> 0, how |-> "timer", forced |-> FALSE, state |-> "none"]

Step == {"idle", "loaded", "mark", "look", "claim", "link", "ask", "forget", "restore", "read", "stamp",
         "pressed", "hooked", "save", "saved"}

Holder == [pc : Step, how : {"timer", "manual", "webhook", "save"}, now : Instant, copy : Schedule,
           fire : Occurrence, before : Occurrence, claimed : BOOLEAN, forced : BOOLEAN, full : BOOLEAN, run : Run]

NoSchedule == [here |-> FALSE, plan |-> CHOOSE p \in Plan : TRUE, on |-> FALSE, changed |-> 0, fired |-> 0,
               seen |-> 0, last |-> 0]

Free == [pc |-> "idle", how |-> "timer", now |-> 0, copy |-> NoSchedule, fire |-> 0, before |-> 0,
         claimed |-> FALSE, forced |-> FALSE, full |-> FALSE, run |-> CHOOSE r \in Run : TRUE]

Becomes(d, w) == work' = [work EXCEPT ![d] = IF w.pc = "idle" THEN Free ELSE w]
Leaves(d) == Becomes(d, Free)
Goes(d, pc) == Becomes(d, [work[d] EXCEPT !.pc = pc])

Trouble == troubles < MaxTroubles /\ troubles' = troubles + 1
Wish == wishes < MaxWishes /\ wishes' = wishes + 1

\* A row made by a save is seen when it is made; one that was copied or
\* restored into the table has not been seen.
BookInit ==
  /\ clock = 1
  /\ row \in [here : {TRUE}, plan : Plan, on : {TRUE}, changed : {0}, fired : {0},
              seen : {0, 1}, last : {0}]
  /\ runs = [r \in Run |-> Unrun]
  /\ beat = [d \in Daemon |-> 0]
  /\ work = [d \in Daemon |-> Free]
  /\ wishes = 0 /\ troubles = 0

-----------------------------------------------------------------------------
(* What the schedule says. *)

Once(s) == s.plan \in OncePlan
TriggerOnly(s) == Fires[s.plan] = {}

IsLatest(s, t, f) == f <= t /\ \A g \in Fires[s.plan] : g <= t => g <= f

LatestFire(s, t) ==
  IF \E f \in Fires[s.plan] : IsLatest(s, t, f) THEN CHOOSE f \in Fires[s.plan] : IsLatest(s, t, f) ELSE 0

Linked == {r \in Run : runs[r].linked}
Active == {r \in Linked : runs[r].state = "working"}

(* Mutant: a run that stands for the occurrence is not looked at. *)
HandledOnly(s, fire) == s.last >= fire

\* A run at or after an occurrence, of any kind, stands for it.
AlreadyHandled(s, fire) == s.last >= fire \/ \E r \in Linked : runs[r].at >= fire

\* The gates before it: spent, before its creation or its retiming, before this
\* daemon saw the row.
Eligible(s, fire) == s.fired = 0 /\ fire >= s.changed /\ fire >= s.seen

(* Mutant: what the window has passed over is left as it is. *)
InWindowOnly(now, fire) == IF now - fire <= Window THEN {"run"} ELSE {"nothing"}

InWindow(now, fire) == (IF now - fire <= Window THEN {"run"} ELSE {}) \cup (IF now - fire >= Window THEN {"missed"} ELSE {})

\* What a pass may decide; at the edge of the window the seconds decide.
Decisions(s, now, fire) ==
  IF ~s.on \/ fire = 0 \/ ~Eligible(s, fire) \/ AlreadyHandled(s, fire) THEN {"nothing"}
  ELSE IF Active # {} THEN {"active"}
  ELSE InWindow(now, fire)

Stale(s, fire) == s.fired # 0 \/ fire < s.changed

-----------------------------------------------------------------------------
(* Reading the row stamps its first sighting, rounded up; the stamp may      *)
(* fail and the read has seen it all the same.                               *)

Sighted(s, t) == IF s.seen = 0 THEN [s EXCEPT !.seen = t] ELSE s

Sightings == {copy \in {Sighted(row, clock), Sighted(row, clock + 1)} : row.here}

Stamped(copy) == row' = copy /\ UNCHANGED troubles
Unstamped == row.seen = 0 /\ UNCHANGED row /\ Trouble

-----------------------------------------------------------------------------
(* A pass of the timer. *)

\* The clock is read before the lane is entered, and a pass waits for it.
BeatWakes(d) ==
  /\ beat[d] = 0
  /\ beat' = [beat EXCEPT ![d] = clock]
  /\ UNCHANGED <<clock, row, runs, work, wishes, troubles>>

BeatLoads(d) ==
  /\ work[d].pc = "idle" /\ beat[d] # 0
  /\ beat' = [beat EXCEPT ![d] = 0]
  /\ \/ \E copy \in Sightings :
          /\ Stamped(copy) \/ Unstamped
          /\ work' = [work EXCEPT ![d] = [Free EXCEPT !.copy = copy, !.pc = "loaded", !.now = beat[d],
                                                            !.fire = LatestFire(copy, beat[d]), !.before = copy.last]]
     \/ ~row.here /\ UNCHANGED <<row, work, troubles>>
  /\ UNCHANGED <<clock, runs, wishes>>

BeatDecides(d) ==
  /\ work[d].pc = "loaded"
  /\ \E what \in Decisions(work[d].copy, work[d].now, work[d].fire) :
       Goes(d, CASE what = "run" -> "look" [] what \in {"active", "missed"} -> "mark" [] OTHER -> "idle")
  /\ UNCHANGED <<clock, row, runs, beat, wishes, troubles>>

(* Mutant: the time of the pass is written down. *)
MarkedNow(w) == IF w.now > row.last THEN w.now ELSE row.last

\* Skipped as active, or missed: written down, forward only.
Marked(w) == IF w.fire > row.last THEN w.fire ELSE row.last

Marks(d) ==
  /\ work[d].pc = "mark"
  /\ row' = IF row.here THEN [row EXCEPT !.last = Marked(work[d])] ELSE row
  /\ Leaves(d)
  /\ UNCHANGED <<clock, runs, beat, wishes, troubles>>

LooksAgain(d) ==
  /\ work[d].pc = "look"
  /\ \/ \E copy \in Sightings :
          /\ Stamped(copy) \/ Unstamped
          /\ Becomes(d, [work[d] EXCEPT !.copy = copy, !.pc = IF Stale(copy, work[d].fire) THEN "idle" ELSE "claim"])
     \/ ~row.here /\ Leaves(d) /\ UNCHANGED <<row, troubles>>
  /\ UNCHANGED <<clock, runs, beat, wishes>>

Unclaimed(fire) == row.here /\ row.last < fire

\* The timer goes on only with the claim; a press goes on without it.
Claims(d) ==
  /\ work[d].pc = "claim"
  /\ LET won == Unclaimed(work[d].fire)
     IN  /\ row' = IF won THEN [row EXCEPT !.last = work[d].fire] ELSE row
         /\ Becomes(d, [work[d] EXCEPT !.claimed = won,
                                       !.pc = IF won \/ work[d].how = "manual" THEN "link" ELSE "idle"])
  /\ UNCHANGED <<clock, runs, beat, wishes, troubles>>

-----------------------------------------------------------------------------
(* Handing the run to the broker: linked before it is asked. *)

Fresh(r) == r \notin HookRun /\ runs[r] = Unrun

Linking(d, r) ==
  [runs EXCEPT ![r].linked = TRUE, ![r].at = clock, ![r].fire = work[d].fire,
               ![r].how = work[d].how, ![r].forced = work[d].forced]

Links(d) ==
  /\ work[d].pc = "link"
  /\ work[d].how # "webhook" => \E r \in Run : Fresh(r)
  /\ LET r == IF work[d].how = "webhook" THEN work[d].run ELSE CHOOSE r \in Run : Fresh(r)
     IN  /\ runs' = Linking(d, r)
         /\ work' = [work EXCEPT ![d].pc = "ask", ![d].run = r]
  /\ UNCHANGED <<clock, row, beat, wishes, troubles>>

\* What a dispatch that was refused does with the claim: the timer gives it
\* back when the machine was full, a press always.
GivesBack(w) == w.claimed /\ (w.how = "manual" \/ w.full)

Refused(d) == Goes(d, IF GivesBack(work[d]) THEN "restore" ELSE "idle")

\* A link that cannot be written is a refusal before the broker was asked.
LinkFails(d) ==
  /\ work[d].pc = "link"
  /\ Refused(d) /\ Trouble
  /\ UNCHANGED <<clock, row, runs, beat, wishes>>

\* A run that was opened spends a one-shot whose occurrence it stands for.
Opened(d) == Goes(d, IF Once(work[d].copy) /\ work[d].fire # 0 THEN "read" ELSE "idle")

\* An id the broker holds is answered from its record.
Replayed(d) ==
  /\ work[d].pc = "ask" /\ runs[work[d].run].state # "none"
  /\ IF runs[work[d].run].state = "unopened" THEN Refused(d) ELSE Opened(d)
  /\ UNCHANGED <<clock, row, runs, beat, wishes, troubles>>

Admitted(d, state) ==
  /\ work[d].pc = "ask" /\ runs[work[d].run].state = "none"
  /\ runs' = [runs EXCEPT ![work[d].run].state = state]

Accepted(d) ==
  /\ Admitted(d, "working") /\ Opened(d)
  /\ UNCHANGED <<clock, row, beat, wishes, troubles>>

\* A tab that never opened is a run, over, and a refusal.
Unopened(d) ==
  /\ Admitted(d, "unopened") /\ Refused(d)
  /\ UNCHANGED <<clock, row, beat, wishes, troubles>>

\* Refused before anything was recorded; `full' is backpressure.
Absent(d, full) ==
  /\ work[d].pc = "ask" /\ runs[work[d].run].state = "none"
  /\ work' = [work EXCEPT ![d].pc = "forget", ![d].full = full]
  /\ UNCHANGED <<clock, row, runs, beat, wishes, troubles>>

(* Mutant: every error takes the link back. *)
LinkLost(d) == runs' = [runs EXCEPT ![work[d].run].linked = FALSE, ![work[d].run].state = "working"]

\* The broker could not say: it may hold the task or not, and the link stays.
RecordUnknown(d) == UNCHANGED runs \/ Admitted(d, "working")

Unknown(d) ==
  /\ work[d].pc = "ask"
  /\ RecordUnknown(d)
  /\ Refused(d) /\ Trouble
  /\ UNCHANGED <<clock, row, beat, wishes>>

Forgets(d) ==
  /\ work[d].pc = "forget"
  /\ runs' = [runs EXCEPT ![work[d].run] = Unrun]
  /\ Refused(d)
  /\ UNCHANGED <<clock, row, beat, wishes, troubles>>

\* Only if the occurrence is still the one recorded.
Restores(d) ==
  /\ work[d].pc = "restore"
  /\ row' = IF row.here /\ row.last = work[d].fire THEN [row EXCEPT !.last = work[d].before] ELSE row
  /\ Leaves(d)
  /\ UNCHANGED <<clock, runs, beat, wishes, troubles>>

\* markFired reads the file it stamps; a save may have moved the date.
StillNames(s, fire) == Once(s) /\ s.fired = 0 /\ ~Stale(s, fire) /\ LatestFire(s, fire) = fire

ReadsToStamp(d) ==
  /\ work[d].pc = "read"
  /\ \/ \E copy \in Sightings :
          /\ Stamped(copy) \/ Unstamped
          /\ Becomes(d, [work[d] EXCEPT !.copy = copy,
                                        !.pc = IF StillNames(copy, work[d].fire) THEN "stamp" ELSE "idle"])
     \/ ~row.here /\ Leaves(d) /\ UNCHANGED <<row, troubles>>
  /\ UNCHANGED <<clock, runs, beat, wishes>>

\* A write replaces the whole body and leaves the row's own columns.
Replaced(s) == IF row.here THEN [s EXCEPT !.seen = row.seen, !.last = row.last] ELSE row

Stamps(d) ==
  /\ work[d].pc = "stamp"
  /\ row' = Replaced([work[d].copy EXCEPT !.fired = work[d].fire])
  /\ Leaves(d)
  /\ UNCHANGED <<clock, runs, beat, wishes, troubles>>

-----------------------------------------------------------------------------
(* A person presses Run, or Run anyway. *)

PressReads(d, force) ==
  /\ work[d].pc = "idle" /\ Wish
  /\ \E copy \in Sightings :
       /\ Stamped(copy) \/ Unstamped
       /\ ~(TriggerOnly(copy) /\ ~copy.on)
       /\ work' = [work EXCEPT ![d] = [Free EXCEPT !.copy = copy, !.pc = "pressed", !.how = "manual", !.forced = force]]
  /\ UNCHANGED <<clock, runs, beat>>

\* A press at or after an occurrence claims it.
PressDecides(d) ==
  /\ work[d].pc = "pressed"
  /\ LET fire == LatestFire(work[d].copy, clock)
         free == work[d].forced \/ Active = {}
     IN  Becomes(d, [work[d] EXCEPT !.fire = fire, !.before = work[d].copy.last,
                                    !.pc = IF ~free THEN "idle" ELSE IF fire = 0 THEN "link" ELSE "claim"])
  /\ UNCHANGED <<clock, row, runs, beat, wishes, troubles>>

(* A webhook delivery asks under the id its journal chose. *)

HookReads(d, r) ==
  /\ work[d].pc = "idle"
  /\ \E copy \in Sightings :
       /\ Stamped(copy) \/ Unstamped
       /\ work' = [work EXCEPT ![d] = [Free EXCEPT !.copy = copy, !.pc = "hooked", !.how = "webhook", !.run = r]]
  /\ UNCHANGED <<clock, runs, beat>>

\* Only the first asking is somebody's wish; a delivery is asked again until it
\* has its answer.
HookAgain(r) == IF r \in Linked THEN UNCHANGED wishes ELSE Wish

\* Its own task, from before a crash, does not count as an earlier one, and a
\* pause since then does not stop it.
HookMay(d) ==
  /\ Active \subseteq {work[d].run}
  /\ work[d].run \in Linked \/ work[d].copy.on

HookDecides(d) ==
  /\ work[d].pc = "hooked"
  /\ Goes(d, IF HookMay(d) THEN "link" ELSE "idle")
  /\ UNCHANGED <<clock, row, runs, beat, wishes, troubles>>

(* A save, and a removal. *)

SaveReads(d) ==
  /\ work[d].pc = "idle" /\ Wish
  /\ \E copy \in Sightings :
       /\ Stamped(copy) \/ Unstamped
       /\ work' = [work EXCEPT ![d] = [Free EXCEPT !.copy = copy, !.pc = "save", !.how = "save"]]
  /\ UNCHANGED <<clock, runs, beat>>

(* Mutant: the stamp is carried to the new date. *)
MovedWithStamp(s, p, on, at) == [s EXCEPT !.plan = p, !.on = on, !.changed = at]

\* A save that moves the times leaves the stamp behind with the old ones.
Saved(s, p, on, at) ==
  IF p = s.plan THEN [s EXCEPT !.on = on]
  ELSE [s EXCEPT !.plan = p, !.on = on, !.changed = at, !.fired = 0]

SaveWrites(d) ==
  /\ work[d].pc = "save"
  /\ \E p \in Plan, on \in BOOLEAN, at \in {clock, clock + 1} :
       /\ p \in OncePlan <=> Once(work[d].copy)
       /\ row' = Replaced(Saved(work[d].copy, p, on, at))
  /\ Goes(d, "saved")
  /\ UNCHANGED <<clock, runs, beat, wishes, troubles>>

\* Written and read back; what cannot be read back is put back as it was.
SaveEnds(d) ==
  /\ work[d].pc = "saved"
  /\ Leaves(d)
  /\ \/ UNCHANGED <<row, troubles>>
     \/ row' = Replaced(work[d].copy) /\ Trouble
  /\ UNCHANGED <<clock, runs, beat, wishes>>

Deletes(d) ==
  /\ work[d].pc = "idle" /\ row.here /\ Wish
  /\ row' = [row EXCEPT !.here = FALSE]
  /\ UNCHANGED <<clock, runs, beat, work, troubles>>

-----------------------------------------------------------------------------
(* The children, the clock and what goes wrong. *)

TaskEnds(r) ==
  /\ runs[r].state = "working"
  /\ runs' = [runs EXCEPT ![r].state = "finished"]
  /\ UNCHANGED <<clock, row, beat, work, wishes, troubles>>

Tick ==
  /\ clock < MaxClock
  /\ clock' = clock + 1
  /\ UNCHANGED <<row, runs, beat, work, wishes, troubles>>

\* A write whose failure nobody looks at.
Skips(d) ==
  /\ \/ work[d].pc = "forget" /\ Refused(d)
     \/ work[d].pc = "claim" /\ work[d].how = "manual" /\ Goes(d, "link")
     \/ work[d].pc \in {"mark", "restore", "stamp"} /\ Leaves(d)
  /\ Trouble
  /\ UNCHANGED <<clock, row, runs, beat, wishes>>

\* A read or a claim that fails ends the pass or the request.
Fails(d) ==
  /\ work[d].pc \in {"loaded", "look", "claim", "read", "pressed", "hooked", "save"}
  /\ work[d].pc = "claim" => work[d].how = "timer"
  /\ Leaves(d) /\ Trouble
  /\ UNCHANGED <<clock, row, runs, beat, wishes>>

BookCrash(d) ==
  /\ Leaves(d) /\ Trouble
  /\ beat' = [beat EXCEPT ![d] = 0]
  /\ UNCHANGED <<clock, row, runs, wishes>>

-----------------------------------------------------------------------------
(* What the lane's holder does next, and who comes to the lane. *)

Moves(d) ==
  \/ BeatDecides(d) \/ Marks(d) \/ LooksAgain(d) \/ Claims(d)
  \/ Links(d) \/ Replayed(d) \/ Accepted(d) \/ Unopened(d) \/ Absent(d, TRUE) \/ Absent(d, FALSE)
  \/ Forgets(d) \/ Restores(d) \/ ReadsToStamp(d) \/ Stamps(d)
  \/ PressDecides(d) \/ HookDecides(d) \/ SaveWrites(d) \/ SaveEnds(d)
  \/ LinkFails(d) \/ Unknown(d) \/ Skips(d) \/ Fails(d)

Asks(d) ==
  \/ PressReads(d, FALSE) \/ PressReads(d, TRUE) \/ SaveReads(d) \/ Deletes(d)
  \/ \E r \in HookRun : HookAgain(r) /\ HookReads(d, r)

BookNext ==
  \/ \E d \in Daemon : BeatWakes(d) \/ BeatLoads(d) \/ Moves(d) \/ Asks(d) \/ BookCrash(d)
  \/ \E r \in Run : TaskEnds(r)
  \/ Tick

\* Goroutines run, the timer ticks, Go's mutex passes no pass over for ever,
\* tasks end by their timeout, time passes.  Nobody has to press or save.
BookFairness ==
  /\ \A d \in Daemon : WF_bookVars(Moves(d)) /\ WF_bookVars(BeatWakes(d)) /\ SF_bookVars(BeatLoads(d))
  /\ \A r \in Run : WF_bookVars(TaskEnds(r))
  /\ WF_bookVars(Tick)

BookSpec == BookInit /\ [][BookNext]_bookVars
FairBookSpec == BookSpec /\ BookFairness

-----------------------------------------------------------------------------
(* Properties. *)

BookTypeOK ==
  /\ clock \in Instant /\ row \in Schedule
  /\ runs \in [Run -> RunRow] /\ beat \in [Daemon -> Instant] /\ work \in [Daemon -> Holder]
  /\ wishes \in Nat /\ troubles \in Nat

Starts(r) == runs[r].state = "none" /\ runs'[r].state # "none"
Ran == {r \in Run : runs[r].state # "none"}

\* The clock runs an occurrence at most once, and not at all once another run
\* at or after it stands for it: whatever fails, restarts or is handed back in
\* between (Beat, fireOne, run).
OccurrenceOnce ==
  [][\A r \in Run : Starts(r) /\ runs[r].how = "timer" => \A o \in Ran : runs[o].at < runs[r].fire]_bookVars

\* A schedule has one child at work at a time, unless a person pressed Run
\* anyway: a pass, a press and a webhook each look before they start one.
OneAtATime ==
  [][\A r \in Run : Starts(r) /\ ~runs[r].forced => \A o \in Run : runs[o].state # "working"]_bookVars

Stood(r, fire) == runs[r].fire = fire /\ runs[r].state \in {"working", "finished"}
Spent(s) == s.fired # 0 => s.fired \in Fires[s.plan] /\ \E r \in Run : Stood(r, s.fired)

\* A one-shot is spent only by a run that stands for the date it still names: a
\* save that moves the date, a crash before the stamp and a refused run leave
\* the date to be run (markFired, Update).
SpentIsRun == Spent(row)

\* An occurrence of a schedule that is on, seen and not moved since is decided
\* for good: run, skipped, missed, or stood for (Beat).
Owed(f) ==
  /\ row.here /\ row.on /\ f \in Fires[row.plan]
  /\ row.fired = 0 /\ row.changed <= f /\ row.seen # 0 /\ row.seen <= f
Decided(f) == row.last >= f \/ \E r \in Linked : runs[r].at >= f

OccurrenceDecided == \A f \in UNION {Fires[p] : p \in Plan} : <>[](clock >= f /\ Owed(f) => Decided(f))

-----------------------------------------------------------------------------
(* Why: the invariant of the proofs, for one daemon. *)

\* No run of any kind stands for the occurrence yet.
NobodyStands(fire) == \A o \in Ran : runs[o].at < fire

\* Nobody but the holder's own task, asked for again, is at work.
NobodyWorks(w) == \A o \in Run : runs[o].state = "working" => w.how = "webhook" /\ o = w.run

\* Which steps each kind of holder takes.
KindFits(w) ==
  /\ w.pc \in {"loaded", "mark", "look"} => w.how = "timer"
  /\ w.pc = "pressed" => w.how = "manual"
  /\ w.pc = "hooked" => w.how = "webhook"
  /\ w.pc = "claim" => w.how \in {"timer", "manual"}
  /\ w.pc \in {"link", "ask", "forget", "restore", "read", "stamp"} => w.how \in {"timer", "manual", "webhook"}
  /\ w.how = "webhook" => w.run \in HookRun /\ w.fire = 0 /\ ~w.forced /\ w.pc # "claim"
  /\ w.how = "timer" => ~w.forced

\* What it knows of the runs as long as it has the lane.
RunsFit(w) ==
  /\ w.how = "timer" /\ w.pc \in {"look", "claim", "link", "ask"} => NobodyStands(w.fire)
  /\ w.pc \in {"look", "claim", "link", "ask"} /\ ~w.forced => NobodyWorks(w)
  /\ w.pc = "ask" =>
       /\ runs[w.run].linked /\ runs[w.run].fire = w.fire
       /\ runs[w.run].how = w.how /\ runs[w.run].forced = w.forced
       /\ w.how # "webhook" => runs[w.run].state = "none"
  /\ w.pc = "forget" => runs[w.run].state = "none"
  /\ w.pc \in {"read", "stamp"} => w.fire # 0 /\ Stood(w.run, w.fire)

CopyFits(w) ==
  /\ w.pc = "stamp" => StillNames(w.copy, w.fire)
  /\ w.pc \in {"save", "saved"} => Spent(w.copy)

BookInv ==
  /\ BookTypeOK
  /\ Ran \subseteq Linked
  /\ \A r \in HookRun : runs[r].fire = 0
  /\ Spent(row)
  /\ \A d \in Daemon : KindFits(work[d]) /\ RunsFit(work[d]) /\ CopyFits(work[d])
=============================================================================

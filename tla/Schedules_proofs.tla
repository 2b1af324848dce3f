-------------------------- MODULE Schedules_proofs --------------------------
(***************************************************************************)
(* With one daemon on the store, whatever the plans, the window, the tasks *)
(* and the failures: the clock runs an occurrence once, one child works at *)
(* a time, and only a run spends a date.  All three rest on the lane: what *)
(* its holder found out about the runs stays true until it lets go, since  *)
(* the children only end meanwhile, and started runs stay linked.  Two     *)
(* daemons have two lanes, and the first two are false for them.           *)
(***************************************************************************)
EXTENDS Schedules, TLAPS

OneDaemon == \E d : Daemon = {d}

-----------------------------------------------------------------------------
(* Instants, rows and records. *)

LEMMA OccurrenceIs == \A f : f \in Occurrence <=> f = 0 \/ \E p \in Plan : f \in Fires[p]
BY Zenon DEF Occurrence

LEMMA OccurrenceNat == Occurrence \subseteq Nat /\ 0 \in Occurrence
BY OccurrenceIs, SchedulesAssumption

LEMMA LatestNamed ==
  ASSUME NEW s \in Schedule, NEW t \in Nat
  PROVE  /\ LatestFire(s, t) \in Occurrence
         /\ LatestFire(s, t) # 0 => LatestFire(s, t) \in Fires[s.plan]
<1>1. s.plan \in Plan
  BY DEF Schedule
<1>2. CASE \E f \in Fires[s.plan] : IsLatest(s, t, f)
  <2>1. LatestFire(s, t) \in Fires[s.plan]
    BY <1>2 DEF LatestFire
  <2> QED BY <1>1, <2>1, OccurrenceIs
<1>3. CASE ~\E f \in Fires[s.plan] : IsLatest(s, t, f)
  BY <1>3, OccurrenceNat DEF LatestFire
<1> QED BY <1>2, <1>3

LEMMA SightingFits ==
  ASSUME BookTypeOK, NEW copy \in Sightings
  PROVE  /\ copy \in Schedule
         /\ copy.fired = row.fired /\ copy.plan = row.plan /\ copy.last = row.last
<1>1. clock \in Nat /\ clock + 1 \in Nat /\ row \in Schedule
  BY DEF BookTypeOK, Instant
<1>2. ASSUME NEW t \in Nat
      PROVE  /\ Sighted(row, t) \in Schedule
             /\ Sighted(row, t).fired = row.fired /\ Sighted(row, t).plan = row.plan
             /\ Sighted(row, t).last = row.last
  BY <1>1 DEF Sighted, Schedule, Instant
<1> QED BY <1>1, <1>2 DEF Sightings

LEMMA FreeFits == Free \in Holder /\ Free.pc = "idle" /\ Free.how = "timer" /\ Free.fire = 0 /\ Free.forced = FALSE
<1>1. (CHOOSE p \in Plan : TRUE) \in Plan /\ (CHOOSE r \in Run : TRUE) \in Run
  BY SchedulesAssumption
<1>2. 0 \in Occurrence /\ 0 \in Instant
  BY OccurrenceNat DEF Instant
<1>3. NoSchedule \in Schedule
  BY <1>1, <1>2 DEF NoSchedule, Schedule
<1> QED BY <1>1, <1>2, <1>3 DEF Free, Holder, Step

LEMMA UnrunFits == Unrun \in RunRow /\ Unrun.state = "none" /\ Unrun.fire = 0
BY OccurrenceNat DEF Unrun, RunRow, RunState, Instant

\* What the lane's holder becomes.
LEMMA HolderMoves ==
  ASSUME BookTypeOK, NEW d \in Daemon, NEW w \in Holder, Becomes(d, w)
  PROVE  /\ work' \in [Daemon -> Holder]
         /\ w.pc = "idle" => work'[d] = Free
         /\ w.pc # "idle" => work'[d] = w
BY FreeFits DEF BookTypeOK, Becomes

LEMMA HolderGoes ==
  ASSUME BookTypeOK, NEW d \in Daemon, NEW pc \in Step, Goes(d, pc)
  PROVE  /\ work' \in [Daemon -> Holder]
         /\ pc = "idle" => work'[d] = Free
         /\ pc # "idle" => work'[d] = [work[d] EXCEPT !.pc = pc]
<1>1. work[d] \in Holder
  BY DEF BookTypeOK
<1>2. [work[d] EXCEPT !.pc = pc] \in Holder /\ [work[d] EXCEPT !.pc = pc].pc = pc
  BY <1>1 DEF Holder
<1> QED BY <1>2, HolderMoves DEF Goes

LEMMA HolderLeaves ==
  ASSUME BookTypeOK, NEW d \in Daemon, Leaves(d)
  PROVE  work' \in [Daemon -> Holder] /\ work'[d] = Free
BY FreeFits, HolderMoves DEF Leaves

\* With pc = restore or idle.
LEMMA HolderRefused ==
  ASSUME BookTypeOK, NEW d \in Daemon, Refused(d)
  PROVE  /\ work' \in [Daemon -> Holder]
         /\ work'[d] = Free \/ work'[d] = [work[d] EXCEPT !.pc = "restore"]
BY HolderGoes DEF Refused, Step

LEMMA HolderOpened ==
  ASSUME BookTypeOK, NEW d \in Daemon, Opened(d)
  PROVE  /\ work' \in [Daemon -> Holder]
         /\ \/ work'[d] = Free
            \/ work'[d] = [work[d] EXCEPT !.pc = "read"] /\ work[d].fire # 0
BY HolderGoes DEF Opened, Step

LEMMA BodyFits ==
  ASSUME BookTypeOK, NEW s \in Schedule
  PROVE  Replaced(s) \in Schedule /\ (Replaced(s) = row \/ (Replaced(s).fired = s.fired /\ Replaced(s).plan = s.plan))
BY DEF Replaced, BookTypeOK, Schedule

LEMMA LoadedFits ==
  ASSUME BookTypeOK, NEW d \in Daemon, NEW copy \in Sightings, NEW pc \in Step
  PROVE  /\ [work[d] EXCEPT !.copy = copy, !.pc = pc] \in Holder
         /\ [work[d] EXCEPT !.copy = copy, !.pc = pc].pc = pc
BY SightingFits DEF BookTypeOK, Holder

\* Who has just come to the lane.
LEMMA ComerFits ==
  ASSUME BookTypeOK, NEW copy \in Sightings, NEW pc \in Step, NEW how \in {"timer", "manual", "webhook", "save"},
         NEW forced \in BOOLEAN
  PROVE  /\ [Free EXCEPT !.copy = copy, !.pc = pc, !.how = how, !.forced = forced] \in Holder
         /\ \A r \in Run : [Free EXCEPT !.copy = copy, !.pc = pc, !.how = how, !.run = r] \in Holder
         /\ [Free EXCEPT !.copy = copy, !.pc = pc, !.how = how] \in Holder
<1>1. copy \in Schedule
  BY SightingFits
<1>2. \A h \in Holder : [h EXCEPT !.copy = copy, !.pc = pc, !.how = how, !.forced = forced] \in Holder
  BY <1>1 DEF Holder
<1>3. \A h \in Holder, r \in Run : [h EXCEPT !.copy = copy, !.pc = pc, !.how = how, !.run = r] \in Holder
  BY <1>1 DEF Holder
<1>4. \A h \in Holder : [h EXCEPT !.copy = copy, !.pc = pc, !.how = how] \in Holder
  BY <1>1 DEF Holder
<1> QED BY <1>2, <1>3, <1>4, FreeFits

LEMMA RecordFits ==
  ASSUME BookTypeOK, NEW r \in Run, NEW state \in RunState
  PROVE  [runs EXCEPT ![r].state = state] \in [Run -> RunRow]
<1>1. \A one \in RunRow : [one EXCEPT !.state = state] \in RunRow
  BY DEF RunRow
<1> QED BY <1>1 DEF BookTypeOK

LEMMA SavedFits ==
  ASSUME BookTypeOK, NEW s \in Schedule, NEW p \in Plan, NEW on \in BOOLEAN, NEW at \in {clock, clock + 1}
  PROVE  Saved(s, p, on, at) \in Schedule
<1>1. at \in Instant /\ 0 \in Occurrence
  BY OccurrenceNat DEF BookTypeOK, Instant
<1>2. CASE p = s.plan
  BY <1>2 DEF Saved, Schedule
<1>3. CASE p # s.plan
  BY <1>1, <1>3 DEF Saved, Schedule
<1> QED BY <1>2, <1>3

-----------------------------------------------------------------------------
(* Types. *)

LEMMA CountsFit ==
  ASSUME BookTypeOK, Trouble \/ UNCHANGED troubles, Wish \/ UNCHANGED wishes
  PROVE  wishes' \in Nat /\ troubles' \in Nat
BY DEF BookTypeOK, Trouble, Wish

LEMMA ReadFits ==
  ASSUME BookTypeOK, NEW copy \in Sightings, Stamped(copy) \/ Unstamped
  PROVE  row' \in Schedule /\ (Trouble \/ UNCHANGED troubles)
BY SightingFits DEF BookTypeOK, Stamped, Unstamped

\* The steps of a pass.
LEMMA PassTypes ==
  ASSUME BookTypeOK, NEW d \in Daemon,
         \/ BeatWakes(d) \/ BeatLoads(d) \/ BeatDecides(d) \/ Marks(d) \/ LooksAgain(d) \/ Claims(d)
         \/ Restores(d) \/ ReadsToStamp(d) \/ Stamps(d)
  PROVE  BookTypeOK'
<1> USE DEF BookTypeOK
<1>w. work[d] \in Holder /\ row \in Schedule /\ beat[d] \in Nat
  BY DEF Instant
<1>1. CASE BeatWakes(d)
  BY <1>1 DEF BeatWakes
<1>2. CASE BeatLoads(d)
  <2>1. beat' \in [Daemon -> Instant] /\ UNCHANGED <<clock, runs, wishes>>
    BY <1>2 DEF BeatLoads, Instant
  <2>2. CASE ~row.here /\ UNCHANGED <<row, work, troubles>>
    BY <2>1, <2>2
  <2>3. ASSUME NEW copy \in Sightings, Stamped(copy) \/ Unstamped,
               work' = [work EXCEPT ![d] = [Free EXCEPT !.copy = copy, !.pc = "loaded", !.now = beat[d],
                                                      !.fire = LatestFire(copy, beat[d]), !.before = copy.last]]
        PROVE  BookTypeOK'
    <3>1. copy \in Schedule /\ copy.last \in Occurrence /\ LatestFire(copy, beat[d]) \in Occurrence
      BY <1>w, SightingFits, LatestNamed DEF Schedule
    <3>2. [Free EXCEPT !.copy = copy, !.pc = "loaded", !.now = beat[d],
                       !.fire = LatestFire(copy, beat[d]), !.before = copy.last] \in Holder
      BY <3>1, <1>w, FreeFits DEF Holder, Step, Instant
    <3>3. work' \in [Daemon -> Holder]
      BY <3>2, <2>3
    <3>4. row' \in Schedule /\ (Trouble \/ UNCHANGED troubles)
      BY <2>3, ReadFits
    <3> QED BY <2>1, <3>3, <3>4, CountsFit
  <2> QED BY <1>2, <2>2, <2>3 DEF BeatLoads
<1>3. CASE BeatDecides(d)
  BY <1>3, HolderGoes DEF BeatDecides, Step
<1>4. CASE Marks(d)
  <2>1. Marked(work[d]) \in Occurrence
    BY <1>w DEF Marked, Holder, Schedule
  <2> QED BY <1>4, <2>1, HolderLeaves DEF Marks, Schedule
<1>5. CASE LooksAgain(d)
  <2>1. ASSUME NEW copy \in Sightings, Stamped(copy) \/ Unstamped,
               Becomes(d, [work[d] EXCEPT !.copy = copy, !.pc = IF Stale(copy, work[d].fire) THEN "idle" ELSE "claim"])
        PROVE  BookTypeOK'
    <3>1. work' \in [Daemon -> Holder]
      BY <2>1, LoadedFits, HolderMoves DEF Step
    <3> QED BY <2>1, <3>1, <1>5, ReadFits, CountsFit DEF LooksAgain
  <2> QED BY <1>5, <2>1, HolderLeaves DEF LooksAgain
<1>6. CASE Claims(d)
  <2>1. row' \in Schedule
    BY <1>6, <1>w DEF Claims, Schedule, Holder
  <2>2. \A pc \in Step, won \in BOOLEAN : [work[d] EXCEPT !.claimed = won, !.pc = pc] \in Holder
    BY <1>w DEF Holder
  <2>3. Unclaimed(work[d].fire) \in BOOLEAN
    BY <1>w DEF Unclaimed, Schedule
  <2>4. work' \in [Daemon -> Holder]
    BY <1>6, <2>2, <2>3, HolderMoves DEF Claims, Step
  <2> QED BY <1>6, <2>1, <2>4 DEF Claims
<1>7. CASE Restores(d)
  BY <1>7, <1>w, HolderLeaves DEF Restores, Schedule, Holder
<1>8. CASE ReadsToStamp(d)
  <2>1. ASSUME NEW copy \in Sightings, Stamped(copy) \/ Unstamped,
               Becomes(d, [work[d] EXCEPT !.copy = copy,
                                          !.pc = IF StillNames(copy, work[d].fire) THEN "stamp" ELSE "idle"])
        PROVE  BookTypeOK'
    <3>1. work' \in [Daemon -> Holder]
      BY <2>1, LoadedFits, HolderMoves DEF Step
    <3> QED BY <2>1, <3>1, <1>8, ReadFits, CountsFit DEF ReadsToStamp
  <2> QED BY <1>8, <2>1, HolderLeaves DEF ReadsToStamp
<1>9. CASE Stamps(d)
  <2>1. [work[d].copy EXCEPT !.fired = work[d].fire] \in Schedule
    BY <1>w DEF Holder, Schedule
  <2> QED BY <1>9, <2>1, BodyFits, HolderLeaves DEF Stamps
<1> QED BY <1>1, <1>2, <1>3, <1>4, <1>5, <1>6, <1>7, <1>8, <1>9

\* Handing a run to the broker.
LEMMA DispatchTypes ==
  ASSUME BookTypeOK, NEW d \in Daemon, KindFits(work[d]),
         \/ Links(d) \/ LinkFails(d) \/ Replayed(d) \/ Accepted(d) \/ Unopened(d)
         \/ Absent(d, TRUE) \/ Absent(d, FALSE) \/ Unknown(d) \/ Forgets(d) \/ Skips(d) \/ Fails(d)
  PROVE  BookTypeOK'
<1> USE DEF BookTypeOK
<1>w. work[d] \in Holder /\ work[d].run \in Run
  BY DEF Holder
<1>1. CASE Links(d)
  <2>1. \A r \in Run : [work[d] EXCEPT !.pc = "ask", !.run = r] \in Holder
    BY <1>w DEF Holder, Step
  <2>2. work[d].how \in {"timer", "manual", "webhook"} /\ work[d].fire \in Occurrence /\ work[d].forced \in BOOLEAN
    BY <1>1, <1>w DEF Links, KindFits, Holder
  <2>3. ASSUME NEW r \in Run PROVE Linking(d, r) \in [Run -> RunRow]
    <3>1. \A row1 \in RunRow : [row1 EXCEPT !.linked = TRUE, !.at = clock, !.fire = work[d].fire,
                                            !.how = work[d].how, !.forced = work[d].forced] \in RunRow
      BY <2>2 DEF RunRow, Instant
    <3> QED BY <3>1 DEF Linking
  <2>4. work[d].how # "webhook" => (CHOOSE r \in Run : Fresh(r)) \in Run
    BY <1>1 DEF Links
  <2> QED BY <1>1, <1>w, <2>1, <2>3, <2>4 DEF Links
<1>2. CASE Accepted(d)
  BY <1>2, <1>w, RecordFits, HolderOpened DEF Accepted, Admitted, RunState
<1>3. CASE Unopened(d)
  BY <1>3, <1>w, RecordFits, HolderRefused DEF Unopened, Admitted, RunState
<1>4. CASE Absent(d, TRUE) \/ Absent(d, FALSE)
  <2>1. \A full \in BOOLEAN : [work[d] EXCEPT !.pc = "forget", !.full = full] \in Holder
    BY <1>w DEF Holder, Step
  <2> QED BY <1>4, <2>1 DEF Absent
<1>5. CASE Unknown(d)
  <2>1. runs' \in [Run -> RunRow]
    BY <1>5, <1>w, RecordFits DEF Unknown, RecordUnknown, Admitted, RunState
  <2> QED BY <1>5, <2>1, HolderRefused, CountsFit DEF Unknown
<1>6. CASE Forgets(d)
  BY <1>6, <1>w, UnrunFits, HolderRefused DEF Forgets
<1>7. CASE LinkFails(d)
  BY <1>7, HolderRefused, CountsFit DEF LinkFails
<1>8. CASE Replayed(d)
  BY <1>8, HolderRefused, HolderOpened DEF Replayed
<1>9. CASE Skips(d)
  <2>1. work' \in [Daemon -> Holder]
    BY <1>9, HolderRefused, HolderGoes, HolderLeaves DEF Skips, Step
  <2> QED BY <1>9, <2>1, CountsFit DEF Skips
<1>10. CASE Fails(d)
  BY <1>10, HolderLeaves, CountsFit DEF Fails
<1> QED BY <1>1, <1>2, <1>3, <1>4, <1>5, <1>6, <1>7, <1>8, <1>9, <1>10

LEMMA HookTypes ==
  ASSUME BookTypeOK, NEW d \in Daemon, NEW r \in HookRun, HookReads(d, r), Wish \/ UNCHANGED wishes
  PROVE  BookTypeOK'
<1>1. PICK copy \in Sightings : (Stamped(copy) \/ Unstamped) /\ work' = [work EXCEPT ![d] = [Free EXCEPT !.copy = copy, !.pc = "hooked", !.how = "webhook", !.run = r]]
  BY DEF HookReads
<1>2. row' \in Schedule /\ (Trouble \/ UNCHANGED troubles)
  BY <1>1, ReadFits
<1>3. work' \in [Daemon -> Holder]
  BY <1>1, ComerFits, SchedulesAssumption DEF BookTypeOK, Step
<1> QED BY <1>2, <1>3, CountsFit DEF HookReads, BookTypeOK

\* Who comes to the lane.
LEMMA AskTypes ==
  ASSUME BookTypeOK, NEW d \in Daemon,
         \/ PressReads(d, TRUE) \/ PressReads(d, FALSE) \/ PressDecides(d)
         \/ \E r \in HookRun : HookAgain(r) /\ HookReads(d, r)
         \/ HookDecides(d) \/ SaveReads(d) \/ SaveWrites(d) \/ SaveEnds(d) \/ Deletes(d) \/ BookCrash(d)
  PROVE  BookTypeOK'
<1> USE DEF BookTypeOK
<1>w. work[d] \in Holder /\ row \in Schedule /\ clock \in Nat /\ work[d].copy \in Schedule
  BY DEF Instant, Holder
<1>1. ASSUME NEW forced \in BOOLEAN, PressReads(d, forced) PROVE BookTypeOK'
  <2>1. PICK copy \in Sightings : (Stamped(copy) \/ Unstamped) /\ work' = [work EXCEPT ![d] = [Free EXCEPT !.copy = copy, !.pc = "pressed", !.how = "manual", !.forced = forced]]
    BY <1>1 DEF PressReads
  <2>2. row' \in Schedule /\ (Trouble \/ UNCHANGED troubles) /\ work' \in [Daemon -> Holder]
    BY ComerFits, <2>1, ReadFits DEF Step
  <2> QED BY <1>1, <2>2, CountsFit DEF PressReads
<1>2. CASE PressDecides(d)
  <2>1. LatestFire(work[d].copy, clock) \in Occurrence /\ work[d].copy.last \in Occurrence
    BY <1>w, LatestNamed DEF Schedule
  <2>2. \A fire \in Occurrence, pc \in Step : [work[d] EXCEPT !.fire = fire, !.before = work[d].copy.last, !.pc = pc] \in Holder
    BY <1>w, <2>1 DEF Holder
  <2>3. work' \in [Daemon -> Holder]
    BY <1>2, <2>1, <2>2, HolderMoves DEF PressDecides, Step
  <2> QED BY <1>2, <2>3 DEF PressDecides
<1>3. ASSUME NEW r \in HookRun, HookReads(d, r), HookAgain(r) PROVE BookTypeOK'
  BY <1>3, HookTypes DEF HookAgain
<1>4. CASE HookDecides(d)
  BY <1>4, HolderGoes DEF HookDecides, Step
<1>5. CASE SaveReads(d)
  <2>1. PICK copy \in Sightings : (Stamped(copy) \/ Unstamped) /\ work' = [work EXCEPT ![d] = [Free EXCEPT !.copy = copy, !.pc = "save", !.how = "save"]]
    BY <1>5 DEF SaveReads
  <2>2. row' \in Schedule /\ (Trouble \/ UNCHANGED troubles) /\ work' \in [Daemon -> Holder]
    BY ComerFits, <2>1, ReadFits DEF Step
  <2> QED BY <1>5, <2>2, CountsFit DEF SaveReads
<1>6. CASE SaveWrites(d)
  <2>1. row' \in Schedule
    BY <1>6, <1>w, SavedFits, BodyFits DEF SaveWrites
  <2> QED BY <1>6, <2>1, HolderGoes DEF SaveWrites, Step
<1>7. CASE SaveEnds(d)
  BY <1>7, <1>w, BodyFits, HolderLeaves, CountsFit DEF SaveEnds
<1>8. CASE Deletes(d)
  BY <1>8, <1>w, CountsFit DEF Deletes, Schedule
<1>9. CASE BookCrash(d)
  BY <1>9, HolderLeaves, CountsFit DEF BookCrash, Instant
<1> QED BY <1>1, <1>2, <1>3, <1>4, <1>5, <1>6, <1>7, <1>8, <1>9

LEMMA TypesStart == BookInit => BookTypeOK
<1> SUFFICES ASSUME BookInit PROVE BookTypeOK
  OBVIOUS
<1>1. row \in Schedule
  <2>0. row \in [here : {TRUE}, plan : Plan, on : {TRUE}, changed : {0}, fired : {0}, seen : {0, 1}, last : {0}]
    BY DEF BookInit
  <2>1. row = [here |-> row.here, plan |-> row.plan, on |-> row.on, changed |-> row.changed, fired |-> row.fired,
               seen |-> row.seen, last |-> row.last]
    BY <2>0
  <2>2. /\ row.here \in BOOLEAN /\ row.plan \in Plan /\ row.on \in BOOLEAN /\ row.changed \in Nat
        /\ row.fired \in Occurrence /\ row.seen \in Nat /\ row.last \in Occurrence
    <3>1. row.here = TRUE /\ row.on = TRUE
      BY <2>0
    <3>2. row.changed = 0 /\ row.fired = 0 /\ row.last = 0 /\ row.seen \in {0, 1} /\ row.plan \in Plan
      BY <2>0
    <3>3. row.here \in BOOLEAN /\ row.on \in BOOLEAN
      BY <3>1, Zenon
    <3> QED BY <3>2, <3>3, OccurrenceNat
  <2> QED BY <2>1, <2>2 DEF Schedule, Instant
<1> QED BY <1>1, UnrunFits, FreeFits DEF BookInit, BookTypeOK, Instant

-----------------------------------------------------------------------------
(* The kinds of holders. *)

Kinds == \A d \in Daemon : KindFits(work[d])

LEMMA FreeKind == KindFits(Free)
BY FreeFits DEF KindFits

LEMMA KindMoves ==
  ASSUME BookTypeOK, Kinds, NEW d \in Daemon, NEW w \in Holder, Becomes(d, w) \/ work' = [work EXCEPT ![d] = w], KindFits(w)
  PROVE  Kinds'
<1>1. \A e \in Daemon : work'[e] = work[e] \/ work'[e] = Free \/ work'[e] = w
  BY DEF BookTypeOK, Becomes
<1>2. \A v : KindFits(v) => KindFits(v)'
  OBVIOUS
<1> QED BY <1>1, FreeKind DEF Kinds

LEMMA KindGoes ==
  ASSUME BookTypeOK, Kinds, NEW d \in Daemon, NEW pc \in Step, Goes(d, pc), KindFits([work[d] EXCEPT !.pc = pc])
  PROVE  Kinds'
<1>1. [work[d] EXCEPT !.pc = pc] \in Holder
  BY DEF BookTypeOK, Holder
<1> QED BY <1>1, KindMoves DEF Goes

LEMMA KindLeaves == ASSUME BookTypeOK, Kinds, NEW d \in Daemon, Leaves(d) PROVE Kinds'
BY FreeFits, FreeKind, KindMoves DEF Leaves

\* A dispatch that came to its end.
LEMMA KindEnds ==
  ASSUME BookTypeOK, Kinds, NEW d \in Daemon, Refused(d) \/ Opened(d), work[d].pc \in {"link", "ask", "forget"}
  PROVE  Kinds'
<1>1. \A pc \in {"restore", "read", "idle"} : KindFits([work[d] EXCEPT !.pc = pc]) /\ pc \in Step
  BY DEF BookTypeOK, Holder, KindFits, Step, Kinds
<1> QED BY <1>1, KindGoes DEF Refused, Opened

LEMMA HookKinds ==
  ASSUME BookTypeOK, Kinds, NEW d \in Daemon, NEW r \in HookRun, HookReads(d, r)
  PROVE  Kinds'
<1>1. PICK copy \in Sightings :
        work' = [work EXCEPT ![d] = [Free EXCEPT !.copy = copy, !.pc = "hooked", !.how = "webhook", !.run = r]]
  BY DEF HookReads
<1>2. KindFits([Free EXCEPT !.copy = copy, !.pc = "hooked", !.how = "webhook", !.run = r])
  BY FreeFits DEF KindFits, Holder
<1> QED BY <1>1, <1>2, ComerFits, KindMoves, SchedulesAssumption DEF Step

LEMMA KindsKept == BookTypeOK /\ Kinds /\ [BookNext]_bookVars => Kinds'
<1> SUFFICES ASSUME BookTypeOK, Kinds, [BookNext]_bookVars PROVE Kinds'
  OBVIOUS
<1>k. UNCHANGED work => Kinds'
  BY DEF Kinds, KindFits
<1>1. ASSUME NEW d \in Daemon, BeatWakes(d) \/ BeatLoads(d) \/ Moves(d) \/ Asks(d) \/ BookCrash(d)
      PROVE  Kinds'
  <2>w. work[d] \in Holder /\ KindFits(work[d]) /\ clock \in Nat /\ beat[d] \in Nat
    BY DEF BookTypeOK, Kinds, Instant
  <2>s. \A pc \in {"mark", "look", "link", "claim", "saved", "idle"} : pc \in Step
    BY DEF Step
  <2>1. CASE BeatWakes(d) \/ Deletes(d)
    BY <1>k, <2>1 DEF BeatWakes, Deletes
  <2>2. CASE BeatLoads(d)
    <3>1. ASSUME NEW copy \in Sightings,
                 work' = [work EXCEPT ![d] = [Free EXCEPT !.copy = copy, !.pc = "loaded", !.now = beat[d],
                                                        !.fire = LatestFire(copy, beat[d]), !.before = copy.last]]
          PROVE  Kinds'
      <4>w. copy \in Schedule /\ copy.last \in Occurrence /\ LatestFire(copy, beat[d]) \in Occurrence
        BY <2>w, SightingFits, LatestNamed DEF Schedule
      <4>1. [Free EXCEPT !.copy = copy, !.pc = "loaded", !.now = beat[d],
                         !.fire = LatestFire(copy, beat[d]), !.before = copy.last] \in Holder
        BY <2>w, <4>w, FreeFits DEF Holder, Step, Instant
      <4>2. KindFits([Free EXCEPT !.copy = copy, !.pc = "loaded", !.now = beat[d],
                                  !.fire = LatestFire(copy, beat[d]), !.before = copy.last])
        BY FreeFits DEF KindFits, Holder
      <4> QED BY <3>1, <4>1, <4>2, KindMoves
    <3> QED BY <2>2, <3>1, <1>k DEF BeatLoads
  <2>3. CASE BeatDecides(d)
    BY <2>3, <2>w, <2>s, KindGoes, KindLeaves DEF BeatDecides, KindFits, Holder
  <2>4. CASE Marks(d) \/ Restores(d) \/ Stamps(d) \/ SaveEnds(d) \/ Fails(d) \/ BookCrash(d)
    BY <2>4, KindLeaves DEF Marks, Restores, Stamps, SaveEnds, Fails, BookCrash
  <2>5. CASE LooksAgain(d) \/ ReadsToStamp(d)
    <3>1. ASSUME NEW copy \in Sightings, NEW pc \in {"idle", "claim", "stamp"},
                 work[d].pc \in {"look", "read"}, pc = "claim" => work[d].pc = "look",
                 Becomes(d, [work[d] EXCEPT !.copy = copy, !.pc = pc])
          PROVE  Kinds'
      <4>1. KindFits([work[d] EXCEPT !.copy = copy, !.pc = pc])
        BY <2>w, <3>1 DEF KindFits, Holder
      <4> QED BY <3>1, <4>1, LoadedFits, KindMoves DEF Step
    <3>2. CASE LooksAgain(d)
      <4>1. CASE Leaves(d)
        BY <4>1, KindLeaves
      <4>2. work[d].pc = "look"
        BY <3>2 DEF LooksAgain
      <4>3. ASSUME NEW copy \in Sightings,
                   Becomes(d, [work[d] EXCEPT !.copy = copy, !.pc = IF Stale(copy, work[d].fire) THEN "idle" ELSE "claim"])
            PROVE  Kinds'
        <5>1. CASE Stale(copy, work[d].fire)
          <6>1. Becomes(d, [work[d] EXCEPT !.copy = copy, !.pc = "idle"])
            BY <4>3, <5>1
          <6> QED BY <3>1, <4>2, <6>1
        <5>2. CASE ~Stale(copy, work[d].fire)
          <6>1. Becomes(d, [work[d] EXCEPT !.copy = copy, !.pc = "claim"])
            BY <4>3, <5>2
          <6> QED BY <3>1, <4>2, <6>1
        <5> QED BY <5>1, <5>2
      <4> QED BY <3>2, <4>1, <4>3 DEF LooksAgain
    <3>3. CASE ReadsToStamp(d)
      BY <3>1, <3>3, KindLeaves DEF ReadsToStamp
    <3> QED BY <2>5, <3>2, <3>3
  <2>6. CASE Claims(d)
    <3>1. ASSUME NEW won \in BOOLEAN, NEW pc \in {"link", "idle"}
          PROVE  [work[d] EXCEPT !.claimed = won, !.pc = pc] \in Holder /\ KindFits([work[d] EXCEPT !.claimed = won, !.pc = pc])
      BY <2>w, <2>6 DEF KindFits, Holder, Step, Claims
    <3>2. Unclaimed(work[d].fire) \in BOOLEAN
      BY DEF Unclaimed, BookTypeOK, Schedule
    <3> QED BY <2>6, <3>1, <3>2, KindMoves DEF Claims
  <2>7. CASE Links(d)
    <3>1. ASSUME NEW r \in Run, work[d].how = "webhook" => r = work[d].run
          PROVE  /\ [work[d] EXCEPT !.pc = "ask", !.run = r] \in Holder
                 /\ KindFits([work[d] EXCEPT !.pc = "ask", !.run = r])
      BY <2>w, <2>7, <3>1 DEF KindFits, Holder, Step, Links
    <3>2. work[d].run \in Run /\ (work[d].how # "webhook" => (CHOOSE r \in Run : Fresh(r)) \in Run)
      BY <2>7, <2>w DEF Links, Holder
    <3> QED BY <2>7, <3>1, <3>2, KindMoves DEF Links
  <2>8. CASE LinkFails(d) \/ Replayed(d) \/ Accepted(d) \/ Unopened(d) \/ Unknown(d) \/ Forgets(d)
    BY <2>8, KindEnds DEF LinkFails, Replayed, Accepted, Unopened, Unknown, Forgets, Admitted
  <2>9. CASE Absent(d, TRUE) \/ Absent(d, FALSE)
    <3>1. ASSUME NEW full \in BOOLEAN
          PROVE  /\ [work[d] EXCEPT !.pc = "forget", !.full = full] \in Holder
                 /\ KindFits([work[d] EXCEPT !.pc = "forget", !.full = full])
      BY <2>w, <2>9 DEF KindFits, Holder, Step, Absent
    <3>2. PICK full \in BOOLEAN : work' = [work EXCEPT ![d] = [work[d] EXCEPT !.pc = "forget", !.full = full]]
      BY <2>9 DEF Absent
    <3> QED BY <3>1, <3>2, KindMoves
  <2>10. CASE Skips(d)
    <3>1. KindFits([work[d] EXCEPT !.pc = "link"]) \/ work[d].pc # "claim"
      BY <2>w DEF KindFits, Holder
    <3> QED BY <2>10, <2>s, <3>1, KindEnds, KindGoes, KindLeaves DEF Skips
  <2>11. CASE PressReads(d, TRUE) \/ PressReads(d, FALSE)
    <3>1. ASSUME NEW copy \in Sightings, NEW force \in BOOLEAN,
                 work' = [work EXCEPT ![d] = [Free EXCEPT !.copy = copy, !.pc = "pressed", !.how = "manual", !.forced = force]]
          PROVE  Kinds'
      <4>1. KindFits([Free EXCEPT !.copy = copy, !.pc = "pressed", !.how = "manual", !.forced = force])
        BY FreeFits DEF KindFits, Holder
      <4> QED BY <3>1, <4>1, ComerFits, KindMoves DEF Step
    <3> QED BY <2>11, <3>1 DEF PressReads
  <2>12. CASE SaveReads(d)
    <3>1. ASSUME NEW copy \in Sightings, work' = [work EXCEPT ![d] = [Free EXCEPT !.copy = copy, !.pc = "save", !.how = "save"]]
          PROVE  Kinds'
      <4>1. KindFits([Free EXCEPT !.copy = copy, !.pc = "save", !.how = "save"])
        BY FreeFits DEF KindFits, Holder
      <4> QED BY <3>1, <4>1, ComerFits, KindMoves DEF Step
    <3> QED BY <2>12, <3>1 DEF SaveReads
  <2>13. ASSUME NEW r \in HookRun, HookReads(d, r) PROVE Kinds'
    BY <2>13, HookKinds
  <2>14. CASE PressDecides(d)
    <3>1. ASSUME NEW fire \in Occurrence, NEW pc \in {"idle", "link", "claim"}
          PROVE  /\ [work[d] EXCEPT !.fire = fire, !.before = work[d].copy.last, !.pc = pc] \in Holder
                 /\ KindFits([work[d] EXCEPT !.fire = fire, !.before = work[d].copy.last, !.pc = pc])
      <4>1. work[d].copy.last \in Occurrence
        BY <2>w DEF Holder, Schedule
      <4> QED BY <2>w, <2>14, <4>1 DEF KindFits, Holder, Step, PressDecides
    <3>2. LatestFire(work[d].copy, clock) \in Occurrence
      BY <2>w, LatestNamed DEF Holder
    <3> QED BY <2>14, <3>1, <3>2, KindMoves DEF PressDecides
  <2>15. CASE HookDecides(d)
    BY <2>15, <2>w, <2>s, KindGoes, KindLeaves DEF HookDecides, KindFits, Holder
  <2>16. CASE SaveWrites(d)
    BY <2>16, <2>w, <2>s, KindGoes DEF SaveWrites, KindFits, Holder
  <2> QED BY <1>1, <2>1, <2>2, <2>3, <2>4, <2>5, <2>6, <2>7, <2>8, <2>9, <2>10, <2>11, <2>12, <2>13, <2>14, <2>15, <2>16
          DEF Moves, Asks
<1> QED BY <1>1, <1>k DEF BookNext, TaskEnds, Tick, bookVars

LEMMA TypesKept == BookTypeOK /\ Kinds /\ [BookNext]_bookVars => BookTypeOK'
<1> SUFFICES ASSUME BookTypeOK, Kinds, [BookNext]_bookVars PROVE BookTypeOK'
  OBVIOUS
<1>1. ASSUME NEW d \in Daemon, BeatWakes(d) \/ BeatLoads(d) \/ Moves(d) \/ Asks(d) \/ BookCrash(d)
      PROVE  BookTypeOK'
  <2>1. KindFits(work[d])
    BY DEF Kinds
  <2> QED BY <1>1, <2>1, PassTypes, DispatchTypes, AskTypes DEF Moves, Asks
<1>2. ASSUME NEW r \in Run, TaskEnds(r) PROVE BookTypeOK'
  BY <1>2, RecordFits DEF TaskEnds, BookTypeOK, RunState
<1>3. CASE Tick
  BY <1>3 DEF Tick, BookTypeOK, Instant
<1>4. CASE UNCHANGED bookVars
  BY <1>4 DEF bookVars, BookTypeOK
<1> QED BY <1>1, <1>2, <1>3, <1>4 DEF BookNext

LEMMA TypesAndKinds == BookSpec => [](BookTypeOK /\ Kinds)
<1>1. BookInit => Kinds
  BY FreeKind DEF BookInit, Kinds
<1> QED BY <1>1, TypesStart, TypesKept, KindsKept, PTL DEF BookSpec

\* Every reachable state of the book is of its type, for any number of daemons
\* (Beat, run, runWebhook, Update, Delete).
THEOREM TypeCorrect == BookSpec => []BookTypeOK
BY TypesAndKinds, PTL

-----------------------------------------------------------------------------
(* The runs, under one daemon: what its lane's holder knows. *)

Safe(d) ==
  /\ Ran \subseteq Linked
  /\ \A r \in HookRun : runs[r].fire = 0
  /\ Spent(row)
  /\ RunsFit(work[d]) /\ CopyFits(work[d])

LEMMA FreeSafe == RunsFit(Free) /\ CopyFits(Free)
BY FreeFits DEF RunsFit, CopyFits

\* A step that leaves the runs alone.
LEMMA CalmStep ==
  ASSUME NEW d \in Daemon, Safe(d), runs' = runs,
         NEW w, work'[d] = w, RunsFit(w), CopyFits(w), NEW s, row' = s, Spent(s)
  PROVE  Safe(d)'
<1>1. Ran' = Ran /\ Linked' = Linked
  BY DEF Ran, Linked
<1>2. Spent(row)'
  BY DEF Spent, Stood
<1>3. RunsFit(work[d])'
  BY <1>1 DEF RunsFit, NobodyStands, NobodyWorks, Stood
<1>4. CopyFits(work[d])'
  BY DEF CopyFits, Spent, Stood, StillNames, Once, Stale, LatestFire, IsLatest
<1> QED BY <1>1, <1>2, <1>3, <1>4 DEF Safe

LEMMA CalmLeaves ==
  ASSUME BookTypeOK, NEW d \in Daemon, Safe(d), runs' = runs, Leaves(d), NEW s, row' = s, Spent(s)
  PROVE  Safe(d)'
BY FreeSafe, HolderLeaves, CalmStep

LEMMA SpentSighting ==
  ASSUME BookTypeOK, Spent(row), NEW copy \in Sightings
  PROVE  Spent(copy) /\ (Stamped(copy) \/ Unstamped => row' = row \/ row' = copy)
BY SightingFits DEF Spent, Stamped, Unstamped

LEMMA SameSpent == ASSUME NEW a, NEW b, a.fired = b.fired, a.plan = b.plan, Spent(b) PROVE Spent(a)
BY DEF Spent

\* A pass that found nothing that stands for the occurrence and nobody at work.
LEMMA ClearToRun ==
  ASSUME BookTypeOK, NEW d \in Daemon, Safe(d), work[d].pc = "loaded", KindFits(work[d]),
         "run" \in Decisions(work[d].copy, work[d].now, work[d].fire)
  PROVE  NobodyStands(work[d].fire) /\ NobodyWorks(work[d]) /\ work[d].how = "timer"
<1>1. ~AlreadyHandled(work[d].copy, work[d].fire) /\ Active = {}
  BY DEF Decisions
<1>2. work[d].fire \in Nat /\ \A o \in Run : runs[o].at \in Nat
  BY OccurrenceNat DEF BookTypeOK, Holder, RunRow, Instant
<1>3. NobodyStands(work[d].fire)
  BY <1>1, <1>2 DEF AlreadyHandled, NobodyStands, Safe, Ran, Linked
<1>4. NobodyWorks(work[d])
  BY <1>1 DEF Active, Safe, Ran, Linked, NobodyWorks
<1> QED BY <1>3, <1>4 DEF KindFits

\* The steps of a pass, none of which touches the runs.
LEMMA PassSafe ==
  ASSUME BookTypeOK, NEW d \in Daemon, KindFits(work[d]), Safe(d),
         \/ BeatWakes(d) \/ BeatLoads(d) \/ BeatDecides(d) \/ Marks(d) \/ LooksAgain(d) \/ Claims(d)
         \/ Restores(d) \/ ReadsToStamp(d) \/ Stamps(d)
  PROVE  Safe(d)'
<1>w. work[d] \in Holder /\ row \in Schedule
  BY DEF BookTypeOK
<1>r. Spent(row) /\ RunsFit(work[d]) /\ CopyFits(work[d])
  BY DEF Safe
<1>p. ASSUME NEW last \in Occurrence PROVE Spent([row EXCEPT !.last = last])
  BY <1>w, <1>r, SameSpent DEF Schedule
<1>1. CASE BeatWakes(d)
  BY <1>1, <1>r, CalmStep DEF BeatWakes
<1>2. CASE BeatLoads(d)
  <2>1. runs' = runs
    BY <1>2 DEF BeatLoads
  <2>2. CASE ~row.here /\ UNCHANGED <<row, work, troubles>>
    BY <2>1, <2>2, <1>r, CalmStep
  <2>3. ASSUME NEW copy \in Sightings, Stamped(copy) \/ Unstamped,
               work' = [work EXCEPT ![d] = [Free EXCEPT !.copy = copy, !.pc = "loaded", !.now = beat[d],
                                                      !.fire = LatestFire(copy, beat[d]), !.before = copy.last]]
        PROVE  Safe(d)'
    <3> DEFINE w == [Free EXCEPT !.copy = copy, !.pc = "loaded", !.now = beat[d],
                                 !.fire = LatestFire(copy, beat[d]), !.before = copy.last]
    <3>1. work'[d] = w
      BY <2>3 DEF BookTypeOK
    <3>2. RunsFit(w) /\ CopyFits(w)
      BY FreeFits DEF RunsFit, CopyFits, Holder
    <3>3. row' = row \/ row' = copy
      BY <2>3, <1>r, SpentSighting
    <3> HIDE DEF w
    <3> QED BY <2>1, <3>1, <3>2, <3>3, <1>r, SpentSighting, CalmStep
  <2> QED BY <1>2, <2>2, <2>3 DEF BeatLoads
<1>3. CASE BeatDecides(d)
  <2>1. PICK what \in Decisions(work[d].copy, work[d].now, work[d].fire) :
          Goes(d, CASE what = "run" -> "look" [] what \in {"active", "missed"} -> "mark" [] OTHER -> "idle")
    BY <1>3 DEF BeatDecides
  <2>2. CASE what = "run"
    <3>1. work'[d] = [work[d] EXCEPT !.pc = "look"]
      BY <2>1, <2>2, HolderGoes DEF Step
    <3>2. NobodyStands(work[d].fire) /\ NobodyWorks(work[d])
      BY <1>3, <2>2, ClearToRun DEF BeatDecides
    <3>3. RunsFit([work[d] EXCEPT !.pc = "look"]) /\ CopyFits([work[d] EXCEPT !.pc = "look"])
      BY <1>w, <3>2 DEF RunsFit, CopyFits, NobodyWorks, Holder
    <3> QED BY <1>3, <1>r, <3>1, <3>3, CalmStep DEF BeatDecides
  <2>3. CASE what \in {"active", "missed"}
    <3>1. work'[d] = [work[d] EXCEPT !.pc = "mark"]
      BY <2>1, <2>3, HolderGoes DEF Step
    <3>2. RunsFit([work[d] EXCEPT !.pc = "mark"]) /\ CopyFits([work[d] EXCEPT !.pc = "mark"])
      BY <1>w DEF RunsFit, CopyFits, Holder
    <3> QED BY <1>3, <1>r, <3>1, <3>2, CalmStep DEF BeatDecides
  <2>4. CASE what \notin {"run", "active", "missed"}
    <3>1. Leaves(d) \/ work'[d] = Free
      BY <2>1, <2>4, HolderGoes DEF Step
    <3> QED BY <1>3, <1>r, <3>1, FreeSafe, CalmStep, CalmLeaves DEF BeatDecides
  <2> QED BY <2>2, <2>3, <2>4
<1>4. CASE Marks(d)
  <2>1. Marked(work[d]) \in Occurrence
    BY <1>w DEF Marked, Holder, Schedule
  <2> QED BY <1>4, <1>r, <1>p, <2>1, CalmLeaves DEF Marks
<1>5. CASE LooksAgain(d)
  <2>1. runs' = runs /\ work[d].pc = "look"
    BY <1>5 DEF LooksAgain
  <2>2. ASSUME NEW copy \in Sightings, Stamped(copy) \/ Unstamped,
               Becomes(d, [work[d] EXCEPT !.copy = copy, !.pc = IF Stale(copy, work[d].fire) THEN "idle" ELSE "claim"])
        PROVE  Safe(d)'
    <3> DEFINE w == [work[d] EXCEPT !.copy = copy, !.pc = "claim"]
    <3>1. work'[d] = Free \/ work'[d] = w
      <4>1. CASE Stale(copy, work[d].fire)
        <5>1. Becomes(d, [work[d] EXCEPT !.copy = copy, !.pc = "idle"])
          BY <2>2, <4>1
        <5>2. /\ [work[d] EXCEPT !.copy = copy, !.pc = "idle"] \in Holder
              /\ [work[d] EXCEPT !.copy = copy, !.pc = "idle"].pc = "idle"
          BY LoadedFits DEF Step
        <5> QED BY <5>1, <5>2, HolderMoves
      <4>2. CASE ~Stale(copy, work[d].fire)
        <5>1. Becomes(d, w)
          BY <2>2, <4>2
        <5>2. w \in Holder /\ w.pc = "claim"
          BY LoadedFits DEF Step
        <5> HIDE DEF w
        <5> QED BY <5>1, <5>2, HolderMoves
      <4> QED BY <4>1, <4>2
    <3>2. RunsFit(w) /\ CopyFits(w)
      BY <1>w, <1>r, <2>1 DEF RunsFit, CopyFits, Holder, NobodyWorks
    <3>3. row' = row \/ row' = copy
      BY <2>2, <1>r, SpentSighting
    <3> HIDE DEF w
    <3> QED BY <2>1, <3>1, <3>2, <3>3, <1>r, FreeSafe, SpentSighting, CalmStep
  <2> QED BY <1>5, <1>r, <2>1, <2>2, CalmLeaves DEF LooksAgain
<1>6. CASE Claims(d)
  <2>1. ASSUME NEW won \in BOOLEAN
        PROVE  /\ [work[d] EXCEPT !.claimed = won, !.pc = "link"] \in Holder
               /\ RunsFit([work[d] EXCEPT !.claimed = won, !.pc = "link"])
               /\ CopyFits([work[d] EXCEPT !.claimed = won, !.pc = "link"])
    BY <1>w, <1>r, <1>6 DEF Claims, RunsFit, CopyFits, Holder, NobodyWorks, Step
  <2>2. row' = row \/ row' = [row EXCEPT !.last = work[d].fire]
    BY <1>6 DEF Claims
  <2>3. work'[d] = Free \/ \E won \in BOOLEAN : work'[d] = [work[d] EXCEPT !.claimed = won, !.pc = "link"]
    <3>1. Unclaimed(work[d].fire) \in BOOLEAN
      BY <1>w DEF Unclaimed, Schedule
    <3>2. ASSUME NEW won \in BOOLEAN, NEW pc \in Step PROVE [work[d] EXCEPT !.claimed = won, !.pc = pc] \in Holder
      BY <1>w DEF Holder
    <3> DEFINE won == Unclaimed(work[d].fire)
    <3>3. Becomes(d, [work[d] EXCEPT !.claimed = won, !.pc = IF won \/ work[d].how = "manual" THEN "link" ELSE "idle"])
      BY <1>6 DEF Claims
    <3> HIDE DEF won
    <3>4. CASE won \/ work[d].how = "manual"
      <4>1. Becomes(d, [work[d] EXCEPT !.claimed = won, !.pc = "link"])
        BY <3>3, <3>4
      <4>2. won \in BOOLEAN
        BY <3>1 DEF won
      <4>3. [work[d] EXCEPT !.claimed = won, !.pc = "link"] \in Holder /\ [work[d] EXCEPT !.claimed = won, !.pc = "link"].pc = "link"
        BY <1>w, <4>2 DEF Holder, Step
      <4> QED BY <4>1, <4>2, <4>3, HolderMoves
    <3>5. CASE ~(won \/ work[d].how = "manual")
      <4>1. Becomes(d, [work[d] EXCEPT !.claimed = won, !.pc = "idle"])
        BY <3>3, <3>5
      <4>2. [work[d] EXCEPT !.claimed = won, !.pc = "idle"] \in Holder
        BY <3>1, <3>2 DEF Step, won
      <4> QED BY <4>1, <4>2, HolderMoves, <1>w DEF Holder
    <3> QED BY <3>4, <3>5
  <2>4. work[d].fire \in Occurrence /\ runs' = runs
    BY <1>6, <1>w DEF Claims, Holder
  <2> QED BY <1>r, <1>p, <2>1, <2>2, <2>3, <2>4, FreeSafe, CalmStep
<1>7. CASE Restores(d)
  <2>1. work[d].before \in Occurrence /\ (row' = row \/ row' = [row EXCEPT !.last = work[d].before])
    BY <1>7, <1>w DEF Restores, Holder
  <2> QED BY <1>7, <1>r, <1>p, <2>1, CalmLeaves DEF Restores
<1>8. CASE ReadsToStamp(d)
  <2>1. runs' = runs /\ work[d].pc = "read"
    BY <1>8 DEF ReadsToStamp
  <2>2. ASSUME NEW copy \in Sightings, Stamped(copy) \/ Unstamped,
               Becomes(d, [work[d] EXCEPT !.copy = copy,
                                          !.pc = IF StillNames(copy, work[d].fire) THEN "stamp" ELSE "idle"])
        PROVE  Safe(d)'
    <3> DEFINE w == [work[d] EXCEPT !.copy = copy, !.pc = "stamp"]
    <3>1. work'[d] = Free \/ (StillNames(copy, work[d].fire) /\ work'[d] = w)
      <4>1. CASE ~StillNames(copy, work[d].fire)
        <5>1. Becomes(d, [work[d] EXCEPT !.copy = copy, !.pc = "idle"])
          BY <2>2, <4>1
        <5>2. /\ [work[d] EXCEPT !.copy = copy, !.pc = "idle"] \in Holder
              /\ [work[d] EXCEPT !.copy = copy, !.pc = "idle"].pc = "idle"
          BY LoadedFits DEF Step
        <5> QED BY <5>1, <5>2, HolderMoves
      <4>2. CASE StillNames(copy, work[d].fire)
        <5>1. Becomes(d, w)
          BY <2>2, <4>2
        <5>2. w \in Holder /\ w.pc = "stamp"
          BY LoadedFits DEF Step
        <5> HIDE DEF w
        <5> QED BY <4>2, <5>1, <5>2, HolderMoves
      <4> QED BY <4>1, <4>2
    <3>2. StillNames(copy, work[d].fire) => RunsFit(w) /\ CopyFits(w)
      BY <1>w, <1>r, <2>1 DEF RunsFit, CopyFits, Holder
    <3>3. row' = row \/ row' = copy
      BY <2>2, <1>r, SpentSighting
    <3> HIDE DEF w
    <3> QED BY <2>1, <3>1, <3>2, <3>3, <1>r, FreeSafe, SpentSighting, CalmStep
  <2> QED BY <1>8, <1>r, <2>1, <2>2, CalmLeaves DEF ReadsToStamp
<1>9. CASE Stamps(d)
  <2> DEFINE s == [work[d].copy EXCEPT !.fired = work[d].fire]
  <2>1. s \in Schedule /\ s.fired = work[d].fire /\ s.plan = work[d].copy.plan /\ work[d].copy \in Schedule
    BY <1>w DEF Holder, Schedule
  <2>2. work[d].fire # 0 /\ Stood(work[d].run, work[d].fire) /\ LatestFire(work[d].copy, work[d].fire) = work[d].fire
    BY <1>9, <1>r DEF Stamps, RunsFit, CopyFits, StillNames
  <2>3. work[d].fire \in Nat /\ work[d].run \in Run
    BY <1>w, OccurrenceNat DEF Holder
  <2>4. work[d].fire \in Fires[work[d].copy.plan]
    BY <2>1, <2>2, <2>3, LatestNamed
  <2>5. Spent(s)
    BY <2>1, <2>2, <2>3, <2>4 DEF Spent
  <2>6. row' = Replaced(s) /\ runs' = runs /\ Leaves(d)
    BY <1>9 DEF Stamps
  <2>7. Spent(Replaced(s))
    BY <2>1, <2>5, <1>r, BodyFits, SameSpent
  <2> HIDE DEF s
  <2> QED BY <2>6, <2>7, CalmLeaves
<1> QED BY <1>1, <1>2, <1>3, <1>4, <1>5, <1>6, <1>7, <1>8, <1>9

\* Who comes to the lane, and what a press, a hook and a save go on with.
LEMMA AskSafe ==
  ASSUME BookTypeOK, NEW d \in Daemon, KindFits(work[d]), Safe(d),
         \/ PressReads(d, TRUE) \/ PressReads(d, FALSE) \/ PressDecides(d)
         \/ \E r \in HookRun : HookReads(d, r)
         \/ HookDecides(d) \/ SaveReads(d) \/ SaveWrites(d) \/ SaveEnds(d) \/ Deletes(d) \/ BookCrash(d)
  PROVE  Safe(d)'
<1>w. work[d] \in Holder /\ row \in Schedule /\ clock \in Nat
  BY DEF BookTypeOK, Instant
<1>r. Spent(row) /\ RunsFit(work[d]) /\ CopyFits(work[d])
  BY DEF Safe
<1>c. ASSUME NEW w, work' = [work EXCEPT ![d] = w], RunsFit(w), CopyFits(w), runs' = runs,
             NEW copy \in Sightings, Stamped(copy) \/ Unstamped
      PROVE  Safe(d)'
  <2>1. work'[d] = w /\ (row' = row \/ row' = copy)
    BY <1>c, <1>r, SpentSighting DEF BookTypeOK
  <2> QED BY <1>c, <1>r, <2>1, SpentSighting, CalmStep
<1>1. CASE PressReads(d, TRUE) \/ PressReads(d, FALSE)
  <2>1. ASSUME NEW copy \in Sightings, NEW force \in BOOLEAN
        PROVE  /\ RunsFit([Free EXCEPT !.copy = copy, !.pc = "pressed", !.how = "manual", !.forced = force])
               /\ CopyFits([Free EXCEPT !.copy = copy, !.pc = "pressed", !.how = "manual", !.forced = force])
    BY FreeFits DEF RunsFit, CopyFits, Holder
  <2> QED BY <1>1, <1>c, <2>1 DEF PressReads
<1>2. CASE \E r \in HookRun : HookReads(d, r)
  <2>1. ASSUME NEW copy \in Sightings, NEW r \in HookRun
        PROVE  /\ RunsFit([Free EXCEPT !.copy = copy, !.pc = "hooked", !.how = "webhook", !.run = r])
               /\ CopyFits([Free EXCEPT !.copy = copy, !.pc = "hooked", !.how = "webhook", !.run = r])
    BY FreeFits DEF RunsFit, CopyFits, Holder
  <2> QED BY <1>2, <1>c, <2>1 DEF HookReads
<1>3. CASE SaveReads(d)
  <2>1. ASSUME NEW copy \in Sightings
        PROVE  /\ RunsFit([Free EXCEPT !.copy = copy, !.pc = "save", !.how = "save"])
               /\ CopyFits([Free EXCEPT !.copy = copy, !.pc = "save", !.how = "save"])
    BY FreeFits, <1>r, SpentSighting DEF RunsFit, CopyFits, Holder
  <2> QED BY <1>3, <1>c, <2>1 DEF SaveReads
<1>4. CASE PressDecides(d)
  <2> DEFINE fire == LatestFire(work[d].copy, clock)
             w(pc) == [work[d] EXCEPT !.fire = fire, !.before = work[d].copy.last, !.pc = pc]
  <2>1. fire \in Occurrence /\ work[d].copy.last \in Occurrence
    BY <1>w, LatestNamed DEF Holder, Schedule
  <2>2. ASSUME NEW pc \in Step PROVE w(pc) \in Holder /\ w(pc).pc = pc
    BY <1>w, <2>1 DEF Holder
  <2>3. work[d].pc = "pressed" /\ work[d].how = "manual" /\ runs' = runs /\ row' = row
    BY <1>4 DEF PressDecides, KindFits
  <2>4. CASE ~work[d].forced /\ Active # {}
    <3>1. Becomes(d, w("idle"))
      BY <1>4, <2>4 DEF PressDecides
    <3> QED BY <2>2, <2>3, <3>1, <1>r, FreeSafe, HolderMoves, CalmStep DEF Step
  <2>5. CASE work[d].forced \/ Active = {}
    <3>1. ASSUME NEW pc \in {"link", "claim"} PROVE RunsFit(w(pc)) /\ CopyFits(w(pc))
      BY <1>w, <2>3, <2>5 DEF RunsFit, CopyFits, NobodyWorks, Active, Safe, Ran, Linked, Holder
    <3>2. PICK pc \in {"link", "claim"} : Becomes(d, w(pc))
      BY <1>4, <2>5 DEF PressDecides
    <3>3. work'[d] = w(pc)
      <4>1. w(pc) \in Holder /\ w(pc).pc = pc /\ pc # "idle"
        BY <2>2 DEF Step
      <4> HIDE DEF w
      <4> QED BY <3>2, <4>1, HolderMoves
    <3> QED BY <2>3, <3>1, <3>3, <1>r, CalmStep
  <2> QED BY <1>w, <2>4, <2>5 DEF Holder
<1>5. CASE HookDecides(d)
  <2>1. work[d].pc = "hooked" /\ work[d].how = "webhook" /\ runs' = runs /\ row' = row
    BY <1>5 DEF HookDecides, KindFits
  <2>2. CASE ~HookMay(d)
    BY <1>5, <2>1, <2>2, <1>r, FreeSafe, HolderGoes, CalmStep DEF HookDecides, Step
  <2>3. CASE HookMay(d)
    <3>1. work'[d] = [work[d] EXCEPT !.pc = "link"]
      BY <1>5, <2>3, HolderGoes DEF HookDecides, Step
    <3>2. RunsFit([work[d] EXCEPT !.pc = "link"]) /\ CopyFits([work[d] EXCEPT !.pc = "link"])
      BY <1>w, <2>1, <2>3 DEF RunsFit, CopyFits, NobodyWorks, HookMay, Active, Safe, Ran, Linked, Holder
    <3> QED BY <2>1, <3>1, <3>2, <1>r, CalmStep
  <2> QED BY <2>2, <2>3
<1>6. CASE SaveWrites(d)
  <2>1. PICK p \in Plan, on \in BOOLEAN, at \in {clock, clock + 1} : row' = Replaced(Saved(work[d].copy, p, on, at))
    BY <1>6 DEF SaveWrites
  <2>2. work[d].copy \in Schedule /\ Spent(work[d].copy) /\ runs' = runs /\ work[d].pc = "save"
    BY <1>6, <1>w, <1>r DEF SaveWrites, CopyFits, Holder
  <2>3. Spent(Saved(work[d].copy, p, on, at))
    BY <2>2 DEF Spent, Saved, Schedule
  <2>4. Spent(Replaced(Saved(work[d].copy, p, on, at)))
    BY <2>2, <2>3, <1>r, SavedFits, BodyFits, SameSpent
  <2>5. work'[d] = [work[d] EXCEPT !.pc = "saved"]
    BY <1>6, HolderGoes DEF SaveWrites, Step
  <2>6. RunsFit([work[d] EXCEPT !.pc = "saved"]) /\ CopyFits([work[d] EXCEPT !.pc = "saved"])
    BY <1>w, <2>2 DEF RunsFit, CopyFits, Holder
  <2> QED BY <2>1, <2>2, <2>4, <2>5, <2>6, CalmStep
<1>7. CASE SaveEnds(d)
  <2>1. work[d].copy \in Schedule /\ Spent(work[d].copy)
    BY <1>7, <1>w, <1>r DEF SaveEnds, CopyFits, Holder
  <2>2. Spent(Replaced(work[d].copy))
    BY <2>1, <1>r, BodyFits, SameSpent
  <2> QED BY <1>7, <1>r, <2>2, CalmLeaves DEF SaveEnds
<1>8. CASE Deletes(d)
  <2>1. Spent([row EXCEPT !.here = FALSE])
    BY <1>w, <1>r, SameSpent DEF Schedule
  <2> QED BY <1>8, <1>r, <2>1, CalmStep DEF Deletes
<1>9. CASE BookCrash(d)
  BY <1>9, <1>r, CalmLeaves DEF BookCrash
<1> QED BY <1>1, <1>2, <1>3, <1>4, <1>5, <1>6, <1>7, <1>8, <1>9

\* A step that leaves the row alone, keeps the runs that stand for dates, and
\* leaves the lane or goes to a step that knows nothing of the runs.
LEMMA EndStep ==
  ASSUME NEW d \in Daemon, Safe(d), row' = row,
         (Ran \subseteq Linked)', \A r \in HookRun : runs'[r].fire = 0,
         \A r \in Run, fire \in Occurrence : fire # 0 /\ Stood(r, fire) => Stood(r, fire)',
         row \in Schedule,
         NEW w, work'[d] = w, w.pc \in {"idle", "restore"}
  PROVE  Safe(d)'
<1>1. Spent(row)'
  BY DEF Safe, Spent, Schedule
<1>2. RunsFit(work[d])' /\ CopyFits(work[d])'
  BY DEF RunsFit, CopyFits
<1> QED BY <1>1, <1>2 DEF Safe

\* A dispatch that gives up, the runs as they were.
LEMMA CalmRefused ==
  ASSUME BookTypeOK, NEW d \in Daemon, Safe(d), Refused(d), runs' = runs, row' = row
  PROVE  Safe(d)'
<1>1. RunsFit([work[d] EXCEPT !.pc = "restore"]) /\ CopyFits([work[d] EXCEPT !.pc = "restore"])
  BY DEF BookTypeOK, RunsFit, CopyFits, Holder
<1> QED BY <1>1, HolderRefused, FreeSafe, CalmStep DEF Safe

\* One record changes, of a run that stands for no date.
LEMMA RecordSafe ==
  ASSUME BookTypeOK, NEW d \in Daemon, Safe(d), work[d].pc = "ask", runs[work[d].run].state = "none",
         NEW state \in RunState \ {"none"}, runs' = [runs EXCEPT ![work[d].run].state = state], row' = row,
         \/ work'[d] = Free
         \/ work'[d] = [work[d] EXCEPT !.pc = "restore"]
         \/ work'[d] = [work[d] EXCEPT !.pc = "read"] /\ work[d].fire # 0 /\ state = "working"
  PROVE  Safe(d)'
<1>w. work[d] \in Holder /\ work[d].run \in Run /\ row \in Schedule /\ runs[work[d].run] \in RunRow
  BY DEF BookTypeOK, Holder
<1>r. runs[work[d].run].linked /\ runs[work[d].run].fire = work[d].fire
  BY DEF Safe, RunsFit
<1>1. \A r \in Run : /\ runs'[r].linked = runs[r].linked /\ runs'[r].fire = runs[r].fire
                      /\ runs'[r].state = IF r = work[d].run THEN state ELSE runs[r].state
  BY <1>w DEF BookTypeOK, RunRow
<1>2. (Ran \subseteq Linked)'
  BY <1>1, <1>r DEF Safe, Ran, Linked
<1>3. \A r \in HookRun : runs'[r].fire = 0
  BY <1>1, SchedulesAssumption DEF Safe
<1>4. \A r \in Run, fire \in Occurrence : fire # 0 /\ Stood(r, fire) => Stood(r, fire)'
  BY <1>1 DEF Stood
<1>5. CASE work'[d] = Free \/ work'[d] = [work[d] EXCEPT !.pc = "restore"]
  BY <1>2, <1>3, <1>4, <1>5, <1>w, FreeFits, EndStep DEF Holder
<1>6. CASE work'[d] = [work[d] EXCEPT !.pc = "read"] /\ work[d].fire # 0 /\ state = "working"
  <2>1. Spent(row)'
    BY <1>4, <1>w DEF Safe, Spent, Schedule
  <2>2. Stood(work[d].run, work[d].fire)'
    <3>1. runs'[work[d].run].fire = work[d].fire /\ runs'[work[d].run].state = "working"
      BY <1>1, <1>6, <1>r, <1>w
    <3>2. work'[d].run = work[d].run /\ work'[d].fire = work[d].fire
      BY <1>6, <1>w DEF Holder
    <3> QED BY <3>1, <3>2 DEF Stood
  <2>3. RunsFit(work[d])' /\ CopyFits(work[d])'
    BY <1>6, <1>w, <2>2 DEF RunsFit, CopyFits, Holder
  <2> QED BY <1>2, <1>3, <2>1, <2>3 DEF Safe
<1> QED BY <1>5, <1>6

LEMMA LinkSafe == ASSUME BookTypeOK, NEW d \in Daemon, KindFits(work[d]), Safe(d), Links(d) PROVE Safe(d)'
<1>w. work[d] \in Holder /\ row \in Schedule /\ work[d].pc = "link" /\ row' = row
  BY DEF BookTypeOK, Links
<1> DEFINE r == IF work[d].how = "webhook" THEN work[d].run ELSE CHOOSE r \in Run : Fresh(r)
<1>1. /\ r \in Run /\ runs' = Linking(d, r) /\ work' = [work EXCEPT ![d].pc = "ask", ![d].run = r]
      /\ work[d].how = "webhook" => r = work[d].run /\ r \in HookRun /\ work[d].fire = 0
      /\ work[d].how # "webhook" => Fresh(r)
  <2>1. work[d].how # "webhook" => (CHOOSE o \in Run : Fresh(o)) \in Run /\ Fresh(CHOOSE o \in Run : Fresh(o))
    BY DEF Links
  <2> QED BY <1>w, <2>1 DEF Links, KindFits, Holder
<1> HIDE DEF r
<1>2. \A o \in Run :
        /\ runs'[o].state = runs[o].state /\ (runs[o].linked => runs'[o].linked)
        /\ o # r => runs'[o] = runs[o]
  BY <1>1 DEF Linking, BookTypeOK, RunRow
<1>3. /\ runs'[r].linked /\ runs'[r].fire = work[d].fire /\ runs'[r].how = work[d].how
      /\ runs'[r].forced = work[d].forced
  BY <1>1 DEF Linking, BookTypeOK, RunRow
<1>4. (Ran \subseteq Linked)'
  BY <1>2 DEF Safe, Ran, Linked
<1>5. \A o \in HookRun : runs'[o].fire = 0
  BY <1>1, <1>2, <1>3, SchedulesAssumption DEF Safe, Fresh
<1>6. Spent(row)'
  <2>1. \A o \in Run : Stood(o, row.fired) /\ row.fired # 0 => o # r
    BY <1>1, UnrunFits DEF Stood, Safe, Fresh
  <2> QED BY <1>w, <1>2, <2>1 DEF Safe, Spent, Stood
<1>7. /\ work'[d].pc = "ask" /\ work'[d].run = r /\ work'[d].how = work[d].how /\ work'[d].fire = work[d].fire
      /\ work'[d].forced = work[d].forced
  BY <1>1, <1>w DEF BookTypeOK, Holder
<1>8. work[d].how = "timer" => NobodyStands(work[d].fire)'
  <2>1. work[d].how = "timer" => NobodyStands(work[d].fire)
    BY <1>w DEF Safe, RunsFit
  <2> SUFFICES ASSUME work[d].how = "timer", NEW o \in Run, runs'[o].state # "none" PROVE runs'[o].at < work'[d].fire
    BY DEF NobodyStands, Ran
  <2>2. o # r /\ runs[o].state # "none"
    BY <1>1, <1>2, UnrunFits DEF Fresh
  <2> QED BY <1>2, <1>7, <2>1, <2>2 DEF NobodyStands, Ran
<1>9. ~work[d].forced => \A o \in Run : runs'[o].state = "working" => work[d].how = "webhook" /\ o = r
  BY <1>1, <1>2, <1>w DEF Safe, RunsFit, NobodyWorks
<1>10. RunsFit(work[d])'
  <2>1. work[d].how # "webhook" => runs'[r].state = "none"
    BY <1>1, <1>2, UnrunFits DEF Fresh
  <2>2. (work[d].how = "timer" => NobodyStands(work[d].fire))'
    BY <1>7, <1>8
  <2>3. (~work[d].forced => NobodyWorks(work[d]))'
    BY <1>7, <1>9 DEF NobodyWorks
  <2> QED BY <1>3, <1>7, <2>1, <2>2, <2>3 DEF RunsFit
<1>11. CopyFits(work[d])'
  BY <1>7 DEF CopyFits
<1> QED BY <1>4, <1>5, <1>6, <1>10, <1>11 DEF Safe

\* Handing a run to the broker, from the link to its answer.
LEMMA DispatchSafe ==
  ASSUME BookTypeOK, NEW d \in Daemon, KindFits(work[d]), Safe(d),
         \/ LinkFails(d) \/ Replayed(d) \/ Accepted(d) \/ Unopened(d)
         \/ Absent(d, TRUE) \/ Absent(d, FALSE) \/ Unknown(d) \/ Forgets(d) \/ Skips(d) \/ Fails(d)
  PROVE  Safe(d)'
<1>w. work[d] \in Holder /\ work[d].run \in Run /\ row \in Schedule
  BY DEF BookTypeOK, Holder
<1>r. Spent(row) /\ RunsFit(work[d]) /\ CopyFits(work[d])
  BY DEF Safe
<1>1. CASE LinkFails(d)
  BY <1>1, CalmRefused DEF LinkFails
<1>2. CASE Replayed(d)
  <2>1. CASE Refused(d)
    BY <1>2, <2>1, CalmRefused DEF Replayed
  <2>2. CASE Opened(d)
    <3>1. work[d].how = "webhook"
      BY <1>2, <1>r DEF Replayed, RunsFit
    <3>2. work'[d] = Free
      BY <2>2, <3>1, HolderOpened DEF KindFits
    <3> QED BY <1>2, <1>r, <3>2, FreeSafe, CalmStep DEF Replayed
  <2> QED BY <1>2, <2>1, <2>2 DEF Replayed
<1>3. CASE Accepted(d)
  <2>1. work'[d] = Free \/ (work'[d] = [work[d] EXCEPT !.pc = "read"] /\ work[d].fire # 0)
    BY <1>3, HolderOpened DEF Accepted
  <2>2. /\ work[d].pc = "ask" /\ runs[work[d].run].state = "none" /\ row' = row
        /\ runs' = [runs EXCEPT ![work[d].run].state = "working"]
    BY <1>3 DEF Accepted, Admitted
  <2>3. "working" \in RunState \ {"none"}
    BY DEF RunState
  <2> QED BY <2>1, <2>2, <2>3, RecordSafe
<1>4. CASE Unopened(d)
  <2>1. work'[d] = Free \/ work'[d] = [work[d] EXCEPT !.pc = "restore"]
    BY <1>4, HolderRefused DEF Unopened
  <2>2. /\ work[d].pc = "ask" /\ runs[work[d].run].state = "none" /\ row' = row
        /\ runs' = [runs EXCEPT ![work[d].run].state = "unopened"]
    BY <1>4 DEF Unopened, Admitted
  <2>3. "unopened" \in RunState \ {"none"}
    BY DEF RunState
  <2> QED BY <2>1, <2>2, <2>3, RecordSafe
<1>5. CASE Absent(d, TRUE) \/ Absent(d, FALSE)
  <2>1. PICK full \in BOOLEAN : work' = [work EXCEPT ![d] = [work[d] EXCEPT !.pc = "forget", !.full = full]]
    BY <1>5 DEF Absent
  <2>2. work'[d] = [work[d] EXCEPT !.pc = "forget", !.full = full]
    BY <2>1 DEF BookTypeOK
  <2>3. runs[work[d].run].state = "none" /\ runs' = runs /\ row' = row
    BY <1>5 DEF Absent
  <2>4. /\ RunsFit([work[d] EXCEPT !.pc = "forget", !.full = full])
        /\ CopyFits([work[d] EXCEPT !.pc = "forget", !.full = full])
    BY <1>w, <2>3 DEF RunsFit, CopyFits, Holder
  <2> QED BY <1>r, <2>2, <2>3, <2>4, CalmStep
<1>6. CASE Unknown(d)
  <2>1. work'[d] = Free \/ work'[d] = [work[d] EXCEPT !.pc = "restore"]
    BY <1>6, HolderRefused DEF Unknown
  <2>2. CASE UNCHANGED runs
    BY <1>6, <2>2, CalmRefused DEF Unknown
  <2>3. CASE Admitted(d, "working")
    <3>1. /\ work[d].pc = "ask" /\ runs[work[d].run].state = "none" /\ row' = row
          /\ runs' = [runs EXCEPT ![work[d].run].state = "working"]
      BY <1>6, <2>3 DEF Unknown, Admitted
    <3>2. "working" \in RunState \ {"none"}
      BY DEF RunState
    <3> QED BY <2>1, <3>1, <3>2, RecordSafe
  <2> QED BY <1>6, <2>2, <2>3 DEF Unknown, RecordUnknown
<1>7. CASE Forgets(d)
  <2>1. runs[work[d].run].state = "none" /\ runs' = [runs EXCEPT ![work[d].run] = Unrun] /\ row' = row
    BY <1>7, <1>r DEF Forgets, RunsFit
  <2>2. \A r \in Run : runs'[r] = IF r = work[d].run THEN Unrun ELSE runs[r]
    BY <2>1 DEF BookTypeOK
  <2>3. (Ran \subseteq Linked)'
    BY <2>2, UnrunFits DEF Safe, Ran, Linked
  <2>4. \A r \in HookRun : runs'[r].fire = 0
    BY <2>2, UnrunFits, SchedulesAssumption DEF Safe
  <2>5. \A r \in Run, fire \in Occurrence : fire # 0 /\ Stood(r, fire) => Stood(r, fire)'
    BY <2>1, <2>2 DEF Stood
  <2>6. work'[d] = Free \/ work'[d] = [work[d] EXCEPT !.pc = "restore"]
    BY <1>7, HolderRefused DEF Forgets
  <2> QED BY <1>w, <2>1, <2>3, <2>4, <2>5, <2>6, FreeFits, EndStep DEF Holder
<1>8. CASE Skips(d)
  <2>1. runs' = runs /\ row' = row
    BY <1>8 DEF Skips
  <2>2. CASE Refused(d) \/ Leaves(d)
    BY <1>r, <2>1, <2>2, CalmRefused, CalmLeaves
  <2>3. CASE work[d].pc = "claim" /\ Goes(d, "link")
    <3>1. work'[d] = [work[d] EXCEPT !.pc = "link"]
      BY <2>3, HolderGoes DEF Step
    <3>2. RunsFit([work[d] EXCEPT !.pc = "link"]) /\ CopyFits([work[d] EXCEPT !.pc = "link"])
      BY <1>w, <1>r, <2>3 DEF RunsFit, CopyFits, NobodyWorks, Holder
    <3> QED BY <1>r, <2>1, <3>1, <3>2, CalmStep
  <2> QED BY <1>8, <2>2, <2>3 DEF Skips
<1>9. CASE Fails(d)
  BY <1>9, <1>r, CalmLeaves DEF Fails
<1> QED BY <1>1, <1>2, <1>3, <1>4, <1>5, <1>6, <1>7, <1>8, <1>9

\* Tasks end meanwhile, which takes nothing from what the holder knows.
LEMMA EndSafe == ASSUME BookTypeOK, NEW d \in Daemon, Safe(d), NEW r \in Run, TaskEnds(r) PROVE Safe(d)'
<1>1. \A o \in Run :
        /\ runs'[o].linked = runs[o].linked /\ runs'[o].at = runs[o].at /\ runs'[o].fire = runs[o].fire
        /\ runs'[o].how = runs[o].how /\ runs'[o].forced = runs[o].forced
        /\ runs'[o].state = IF o = r THEN "finished" ELSE runs[o].state
  BY DEF TaskEnds, BookTypeOK, RunRow
<1>2. runs[r].state = "working" /\ row' = row /\ work'[d] = work[d]
  BY DEF TaskEnds
<1>3. /\ \A o \in Run : runs'[o].state = "none" <=> runs[o].state = "none"
      /\ \A o \in Run : runs'[o].state = "working" => runs[o].state = "working"
      /\ \A o \in Run, fire \in Nat : Stood(o, fire) => Stood(o, fire)'
  BY <1>1, <1>2 DEF Stood
<1>4. Ran' = Ran /\ Linked' = Linked
  BY <1>1, <1>3 DEF Ran, Linked
<1>w. work[d].run \in Run /\ work[d].fire \in Nat /\ row.fired \in Nat /\ work[d].copy.fired \in Nat
  BY OccurrenceNat DEF BookTypeOK, Holder, Schedule
<1>5. Spent(row)' /\ (Spent(work[d].copy) => Spent(work[d].copy)')
  BY <1>2, <1>3, <1>w DEF Safe, Spent
<1>6. CopyFits(work[d])'
  BY <1>2, <1>5 DEF Safe, CopyFits, StillNames, Once, Stale, LatestFire, IsLatest
<1>7. RunsFit(work[d])'
  <2>1. NobodyStands(work[d].fire) => NobodyStands(work[d].fire)'
    BY <1>1, <1>2, <1>4 DEF NobodyStands, Ran
  <2>2. NobodyWorks(work[d]) => NobodyWorks(work[d])'
    BY <1>2, <1>3 DEF NobodyWorks
  <2>3. Stood(work[d].run, work[d].fire) => Stood(work[d].run, work[d].fire)'
    BY <1>2, <1>3, <1>w
  <2> QED BY <1>1, <1>2, <1>3, <1>w, <2>1, <2>2, <2>3 DEF Safe, RunsFit
<1>8. \A o \in HookRun : runs'[o].fire = 0
  BY <1>1, SchedulesAssumption DEF Safe
<1> QED BY <1>4, <1>5, <1>6, <1>7, <1>8 DEF Safe

LEMMA SafeKept == OneDaemon /\ BookInv /\ [BookNext]_bookVars => BookInv'
<1> SUFFICES ASSUME OneDaemon, BookInv, [BookNext]_bookVars PROVE BookInv'
  OBVIOUS
<1>1. BookTypeOK /\ Kinds /\ \A d \in Daemon : KindFits(work[d]) /\ Safe(d)
  BY DEF BookInv, Kinds, Safe
<1>2. BookTypeOK' /\ Kinds'
  BY <1>1, TypesKept, KindsKept
<1>c. UNCHANGED <<row, runs, work>> => \A d \in Daemon : Safe(d)'
  BY <1>1, CalmStep DEF Safe
<1>3. ASSUME NEW d \in Daemon, BeatWakes(d) \/ BeatLoads(d) \/ Moves(d) \/ Asks(d) \/ BookCrash(d)
      PROVE  \A e \in Daemon : Safe(e)'
  <2>1. Safe(d)'
    BY <1>1, <1>3, PassSafe, AskSafe, LinkSafe, DispatchSafe DEF Moves, Asks
  <2> QED BY <2>1 DEF OneDaemon
<1>4. ASSUME NEW r \in Run, TaskEnds(r) PROVE \A e \in Daemon : Safe(e)'
  BY <1>1, <1>4, EndSafe
<1>5. \A e \in Daemon : Safe(e)'
  BY <1>3, <1>4, <1>c DEF BookNext, Tick, bookVars
<1>6. Daemon # {}
  BY DEF OneDaemon
<1> QED BY <1>2, <1>5, <1>6 DEF BookInv, Kinds, Safe

\* A hook's read, whether or not it is counted as a wish.
LEMMA SafeHook ==
  ASSUME OneDaemon, BookInv, NEW d \in Daemon, NEW r \in HookRun, HookReads(d, r), Wish \/ UNCHANGED wishes
  PROVE  BookInv'
<1>1. BookTypeOK /\ Kinds /\ KindFits(work[d]) /\ Safe(d)
  BY DEF BookInv, Kinds, Safe
<1>2. BookTypeOK' /\ Kinds'
  BY <1>1, HookTypes, HookKinds
<1>3. Safe(d)'
  BY <1>1, AskSafe
<1> QED BY <1>2, <1>3 DEF OneDaemon, BookInv, Kinds, Safe

LEMMA SafeStart == BookInit => BookInv
<1> SUFFICES ASSUME BookInit PROVE BookInv
  OBVIOUS
<1>1. \A r \in Run : runs[r].state = "none" /\ runs[r].fire = 0
  BY UnrunFits DEF BookInit
<1>2. row.fired = 0 /\ \A d \in Daemon : work[d] = Free
  BY DEF BookInit
<1>3. BookTypeOK
  BY TypesStart
<1> QED BY <1>1, <1>2, <1>3, FreeKind, FreeSafe, SchedulesAssumption DEF BookInv, Spent, Ran

\* Why a schedule is safe on one daemon: BookInv says what the lane's holder
\* knows at each of its steps, and no step, failure or restart takes it away.
THEOREM Inductive == OneDaemon /\ BookSpec => []BookInv
<1> SUFFICES ASSUME OneDaemon PROVE BookSpec => []BookInv
  OBVIOUS
<1>1. BookInv /\ [BookNext]_bookVars => BookInv'
  BY SafeKept
<1> QED BY <1>1, SafeStart, PTL DEF BookSpec

\* A one-shot is spent only by a run of the date it still names, for any plans,
\* tasks and failures (markFired, Update).
THEOREM SpentSafe == OneDaemon /\ BookSpec => []SpentIsRun
<1> SUFFICES ASSUME OneDaemon PROVE BookSpec => []SpentIsRun
  OBVIOUS
<1>1. BookSpec => []BookInv
  BY Inductive
<1>2. BookInv => SpentIsRun
  BY DEF BookInv, SpentIsRun
<1> QED BY <1>1, <1>2, PTL

-----------------------------------------------------------------------------
(* Only an answer of the broker starts a run. *)

LEMMA StartsAsked ==
  ASSUME OneDaemon, BookInv, BookNext, NEW r \in Run, Starts(r)
  PROVE  \E d \in Daemon : work[d].pc = "ask" /\ work[d].run = r /\ RunsFit(work[d])
<1>1. BookTypeOK /\ \A d \in Daemon : RunsFit(work[d]) /\ work[d] \in Holder
  BY DEF BookInv, BookTypeOK
<1>2. ASSUME NEW o \in Run, TaskEnds(o) PROVE FALSE
  BY <1>1, <1>2 DEF TaskEnds, Starts, BookTypeOK, RunRow
<1>3. ASSUME runs' = runs PROVE FALSE
  BY <1>3 DEF Starts
<1>4. ASSUME NEW d \in Daemon, Links(d) PROVE FALSE
  <2>1. \A o \in Run : Linking(d, o)[r].state = runs[r].state
    BY <1>1 DEF Linking, BookTypeOK, RunRow
  <2>2. (work[d].how = "webhook" => work[d].run \in Run) /\ (work[d].how # "webhook" => (CHOOSE o \in Run : Fresh(o)) \in Run)
    BY <1>1, <1>4 DEF Links, Holder
  <2>3. runs'[r].state = runs[r].state
    BY <1>4, <2>1, <2>2 DEF Links
  <2> QED BY <2>3 DEF Starts
<1>5. ASSUME NEW d \in Daemon, Forgets(d) PROVE FALSE
  BY <1>1, <1>5, UnrunFits DEF Forgets, Starts, BookTypeOK, RunRow
<1>6. ASSUME NEW d \in Daemon, NEW state, Admitted(d, state) PROVE work[d].pc = "ask" /\ work[d].run = r
  BY <1>1, <1>6 DEF Admitted, Starts, BookTypeOK, RunRow
<1>7. PICK d \in Daemon : BeatWakes(d) \/ BeatLoads(d) \/ Moves(d) \/ Asks(d) \/ BookCrash(d)
  BY <1>2, <1>3 DEF BookNext, Tick
<1>8. CASE BeatWakes(d) \/ BeatLoads(d) \/ Asks(d) \/ BookCrash(d)
  BY <1>3, <1>8 DEF BeatWakes, BeatLoads, Asks, BookCrash, PressReads, SaveReads, Deletes, HookReads
<1>9. CASE Moves(d)
  <2>1. Accepted(d) \/ Unopened(d) \/ Unknown(d)
    BY <1>3, <1>4, <1>5, <1>9
    DEF Moves, BeatDecides, Marks, LooksAgain, Claims, Replayed, Absent, Restores, ReadsToStamp, Stamps, PressDecides,
        HookDecides, SaveWrites, SaveEnds, LinkFails, Skips, Fails
  <2>2. \E state : Admitted(d, state)
    BY <1>3, <2>1 DEF Accepted, Unopened, Unknown, RecordUnknown
  <2> QED BY <1>1, <1>6, <2>2
<1> QED BY <1>7, <1>8, <1>9

\* An occurrence is run by the clock at most once, however a pass, a press, a
\* hook, a save and the failures interleave (Beat, fireOne).
THEOREM OnceProved == OneDaemon /\ BookSpec => OccurrenceOnce
<1> DEFINE AtMostOnce == \A r \in Run : Starts(r) /\ runs[r].how = "timer" => \A o \in Ran : runs[o].at < runs[r].fire
<1> SUFFICES ASSUME OneDaemon PROVE BookSpec => OccurrenceOnce
  OBVIOUS
<1>1. BookSpec => []BookInv
  BY Inductive
<1>2. BookInv /\ [BookNext]_bookVars => [AtMostOnce]_bookVars
  <2> SUFFICES ASSUME BookInv, BookNext, NEW r \in Run, Starts(r), runs[r].how = "timer"
               PROVE  \A o \in Ran : runs[o].at < runs[r].fire
    OBVIOUS
  <2>1. PICK d \in Daemon : work[d].pc = "ask" /\ work[d].run = r /\ RunsFit(work[d])
    BY StartsAsked
  <2> QED BY <2>1 DEF RunsFit, NobodyStands
<1> QED BY <1>1, <1>2, PTL DEF BookSpec, OccurrenceOnce

\* One child at work at a time, unless a person insists (run, runWebhook,
\* fireOne).
THEOREM OneProved == OneDaemon /\ BookSpec => OneAtATime
<1> DEFINE Alone == \A r \in Run : Starts(r) /\ ~runs[r].forced => \A o \in Run : runs[o].state # "working"
<1> SUFFICES ASSUME OneDaemon PROVE BookSpec => OneAtATime
  OBVIOUS
<1>1. BookSpec => []BookInv
  BY Inductive
<1>2. BookInv /\ [BookNext]_bookVars => [Alone]_bookVars
  <2> SUFFICES ASSUME BookInv, BookNext, NEW r \in Run, Starts(r), ~runs[r].forced
               PROVE  \A o \in Run : runs[o].state # "working"
    OBVIOUS
  <2>1. PICK d \in Daemon : work[d].pc = "ask" /\ work[d].run = r /\ RunsFit(work[d])
    BY StartsAsked
  <2> QED BY <2>1 DEF RunsFit, NobodyWorks, Starts
<1> QED BY <1>1, <1>2, PTL DEF BookSpec, OneAtATime
=============================================================================

-------------------------- MODULE Deliveries_proofs --------------------------
(***************************************************************************)
(* A delivery, whatever the book, its daemons and its failures: Cloud      *)
(* hears one story, and what it ended before it heard anything never runs. *)
(*                                                                         *)
(* DeliveryInv has four parts.  Journal: the row is at most one receipt    *)
(* ahead of what Cloud heard, and that one may follow it.  InShape: what   *)
(* Cloud heard is a story so far.  Lanes: a webhook holder is the poller's,*)
(* asks for the row's task and is waited for, and no other holder asks for *)
(* a webhook's task.  Answers: while an answer is due the row rests and    *)
(* may still be decided, and what was promised of the task is so.  The     *)
(* task starts in the poller's lane only, and so never before receipt 1    *)
(* is acknowledged.                                                        *)
(***************************************************************************)
EXTENDS Deliveries, Schedules_proofs

Task == runs[slip.run].state
Settled == Task \in {"working", "finished"}

-----------------------------------------------------------------------------
(* The invariant. *)

\* What Cloud may hear after what it heard.
Follows(kind) ==
  /\ kind = "durable" => cloud.heard = <<>>
  /\ kind \in {"deferred", "accepted", "refused"} =>
       Len(cloud.heard) > 0 /\ cloud.heard[Len(cloud.heard)] \in {"durable", "deferred"}
  /\ kind = "terminal" => Len(cloud.heard) > 0 /\ cloud.heard[Len(cloud.heard)] = "accepted"

Journal ==
  /\ slip.acked <= Len(cloud.heard)
  /\ slip.state \in {"none", "prepared"} =>
       slip.sent = 0 /\ slip.acked = 0 /\ slip.pending = "nothing" /\ cloud.heard = <<>>
  /\ slip.state = "ended" => slip.pending = "nothing"
  /\ slip.state \in Receipt /\ slip.pending = "nothing" =>
       /\ slip.sent > 0 /\ slip.acked = slip.sent /\ Len(cloud.heard) = slip.sent
       /\ cloud.heard[slip.sent] = slip.state
  /\ slip.pending # "nothing" =>
       /\ slip.state = slip.pending /\ slip.sent = slip.acked + 1
       /\ \/ Len(cloud.heard) = slip.sent /\ cloud.heard[slip.sent] = slip.pending
          \/ Len(cloud.heard) = slip.acked /\ Follows(slip.pending)

Story(heard) ==
  \A i \in DOMAIN heard :
    /\ i = 1 <=> heard[i] = "durable"
    /\ heard[i] \in {"refused", "terminal"} => i = Len(heard)
    /\ heard[i] = "accepted" => i >= Len(heard) - 1
    /\ heard[i] = "accepted" /\ i < Len(heard) => heard[Len(heard)] = "terminal"
    /\ heard[i] = "terminal" => heard[i - 1] = "accepted"

LaneFits(d) ==
  /\ work[d].how = "webhook" /\ work[d].pc # "idle" =>
       /\ d = Poller /\ work[d].run = slip.run /\ asking = "waiting"
       /\ work[d].pc = "forget" => Task = "none"
  /\ work[d].how # "webhook" /\ work[d].pc \in {"ask", "forget"} => work[d].run \notin HookRun

Lanes == \A d \in Daemon : LaneFits(d)

Answers ==
  /\ asking # "nothing" => Undecided
  /\ asking = "run" => Settled
  /\ Task # "none" => slip.acked > 0
  /\ slip.state \in {"accepted", "terminal"} => Settled
  /\ \A i \in DOMAIN cloud.heard : cloud.heard[i] = "accepted" => Settled

DeliveryInv == TypeOK /\ Kinds /\ Journal /\ Story(cloud.heard) /\ Lanes /\ Answers

-----------------------------------------------------------------------------
(* What the journal's steps do to the row. *)

LEMMA SlipFields ==
  ASSUME TypeOK
  PROVE  /\ slip.state \in Receipt \cup {"none", "prepared", "ended"} /\ slip.run \in HookRun
         /\ slip.lease \in Nat /\ slip.sent \in Nat /\ slip.acked \in Nat
         /\ slip.pending \in Receipt \cup {"nothing"}
         /\ cloud.heard \in Seq(Receipt) /\ cloud.lease \in Nat /\ cloud.ended \in BOOLEAN
         /\ Len(cloud.heard) \in Nat /\ DOMAIN cloud.heard = 1 .. Len(cloud.heard)
         /\ \A i \in 1 .. Len(cloud.heard) : cloud.heard[i] \in Receipt
BY DEF TypeOK, Slip, Cloud

LEMMA QueuedFields ==
  ASSUME TypeOK, NEW kind \in Receipt, slip' = Queued(kind)
  PROVE  /\ slip' \in Slip
         /\ slip'.state = kind /\ slip'.pending = kind /\ slip'.sent = slip.sent + 1
         /\ slip'.acked = slip.acked /\ slip'.run = slip.run
<1>1. \A s \in Slip, n \in Nat : [s EXCEPT !.state = kind, !.pending = kind, !.sent = n] \in Slip
  BY DEF Slip
<1>2. slip' = [slip EXCEPT !.state = kind, !.pending = kind, !.sent = slip.sent + 1]
  BY DEF Queued
<1>3. slip' \in Slip
  <2>1. slip.sent + 1 \in Nat /\ slip \in Slip
    BY SlipFields DEF TypeOK
  <2> QED BY <1>1, <1>2, <2>1, Zenon
<1> QED BY <1>2, <1>3 DEF TypeOK, Slip

LEMMA TakenFields ==
  ASSUME TypeOK, slip' = Acknowledged
  PROVE  /\ slip' \in Slip
         /\ slip'.state = slip.state /\ slip'.pending = "nothing" /\ slip'.sent = slip.sent
         /\ slip'.acked = slip.sent /\ slip'.run = slip.run
BY DEF TypeOK, Slip, Acknowledged

LEMMA EndedFields ==
  ASSUME TypeOK, slip' = EndedAway
  PROVE  /\ slip' \in Slip
         /\ slip'.state = "ended" /\ slip'.pending = "nothing" /\ slip'.sent = slip.sent
         /\ slip'.acked = slip.acked /\ slip'.run = slip.run
BY DEF TypeOK, Slip, EndedAway

LEMMA HeardFields ==
  ASSUME TypeOK, NEW kind \in Receipt, cloud' = [cloud EXCEPT !.heard = Append(@, kind)]
  PROVE  /\ cloud' \in Cloud
         /\ cloud'.heard \in Seq(Receipt) /\ Len(cloud'.heard) = Len(cloud.heard) + 1
         /\ DOMAIN cloud'.heard = 1 .. Len(cloud.heard) + 1
         /\ \A i \in 1 .. Len(cloud.heard) : cloud'.heard[i] = cloud.heard[i]
         /\ cloud'.heard[Len(cloud.heard) + 1] = kind
<1>1. cloud.heard \in Seq(Receipt)
  BY SlipFields
<1>2. cloud' = [cloud EXCEPT !.heard = Append(cloud.heard, kind)] /\ Append(cloud.heard, kind) \in Seq(Receipt)
  BY <1>1
<1>3. cloud'.heard = Append(cloud.heard, kind) /\ cloud' \in Cloud
  BY <1>2 DEF TypeOK, Cloud
<1> QED BY <1>1, <1>3

-----------------------------------------------------------------------------
(* The row and what Cloud heard. *)

\* One receipt more, and it may follow.
LEMMA StoryGoesOn ==
  ASSUME TypeOK, NEW kind \in Receipt, Story(cloud.heard), Follows(kind),
         cloud' = [cloud EXCEPT !.heard = Append(@, kind)]
  PROVE  Story(cloud.heard)'
<1> DEFINE n == Len(cloud.heard)
<1>1. /\ n \in Nat /\ DOMAIN cloud.heard = 1 .. n /\ DOMAIN cloud'.heard = 1 .. n + 1 /\ Len(cloud'.heard) = n + 1
      /\ \A i \in 1 .. n : cloud'.heard[i] = cloud.heard[i]
      /\ cloud'.heard[n + 1] = kind
  BY SlipFields, HeardFields
<1>2. n = 0 <=> cloud.heard = <<>>
  BY SlipFields
<1>3. n > 0 => n \in DOMAIN cloud.heard
  BY <1>1
<1>4. /\ kind = "durable" => n = 0
      /\ kind \in {"deferred", "accepted", "refused"} => n > 0 /\ cloud.heard[n] \in {"durable", "deferred"}
      /\ kind = "terminal" => n > 0 /\ cloud.heard[n] = "accepted"
  BY <1>2 DEF Follows
<1>5. \A i \in 1 .. n :
        /\ i = 1 <=> cloud.heard[i] = "durable"
        /\ cloud.heard[i] \in {"refused", "terminal"} => i = n
        /\ cloud.heard[i] = "accepted" => i >= n - 1
        /\ cloud.heard[i] = "accepted" /\ i < n => cloud.heard[n] = "terminal"
        /\ cloud.heard[i] = "terminal" => cloud.heard[i - 1] = "accepted"
  BY <1>1 DEF Story
<1> HIDE DEF n
<1>6. ASSUME NEW i \in 1 .. n
      PROVE  /\ i = 1 <=> cloud'.heard[i] = "durable"
             /\ cloud'.heard[i] \notin {"refused", "terminal"}
             /\ cloud'.heard[i] = "accepted" => i = n /\ kind = "terminal"
  <2>1. n > 0 /\ n \in 1 .. n
    BY <1>1
  <2>2. cloud.heard[n] \notin {"refused", "terminal"}
    BY <1>4, <2>1 DEF Receipt
  <2>3. cloud.heard[i] = "accepted" => i = n /\ kind = "terminal"
    BY <1>4, <1>5, <2>1, <2>2 DEF Receipt
  <2> QED BY <1>1, <1>5, <2>2, <2>3
<1>7. /\ n + 1 = 1 <=> kind = "durable"
      /\ kind = "terminal" => cloud'.heard[n] = "accepted"
  BY <1>1, <1>4 DEF Receipt
<1>8. ASSUME NEW i \in 1 .. n + 1
      PROVE  /\ i = 1 <=> cloud'.heard[i] = "durable"
             /\ cloud'.heard[i] \in {"refused", "terminal"} => i = n + 1
             /\ cloud'.heard[i] = "accepted" => i >= n + 1 - 1
             /\ cloud'.heard[i] = "accepted" /\ i < n + 1 => cloud'.heard[n + 1] = "terminal"
             /\ cloud'.heard[i] = "terminal" => cloud'.heard[i - 1] = "accepted"
  <2>1. CASE i = n + 1
    BY <1>1, <1>7, <2>1
  <2>2. CASE i \in 1 .. n
    BY <1>1, <1>6, <2>2
  <2> QED BY <1>1, <2>1, <2>2
<1> QED BY <1>1, <1>8 DEF Story

\* What rests has been heard to its last receipt.
LEMMA RestingHeard ==
  ASSUME TypeOK, Journal, Resting
  PROVE  /\ slip.acked = 0 => slip.sent = 0 /\ cloud.heard = <<>>
         /\ slip.acked > 0 => /\ slip.state \in Receipt /\ slip.sent = slip.acked
                              /\ Len(cloud.heard) = slip.acked /\ cloud.heard[Len(cloud.heard)] = slip.state
BY SlipFields DEF Journal, Resting

\* A receipt that may follow is queued.
LEMMA QueuedJournal ==
  ASSUME TypeOK, Journal, Resting, NEW kind \in Receipt, Follows(kind), slip' = Queued(kind), UNCHANGED cloud
  PROVE  Journal'
<1>1. slip.acked = slip.sent /\ Len(cloud.heard) = slip.acked
  BY SlipFields, RestingHeard
<1>2. Follows(kind)'
  BY DEF Follows
<1> QED BY <1>1, <1>2, SlipFields, QueuedFields DEF Journal, Receipt

LEMMA SentJournal ==
  ASSUME TypeOK, Journal, Story(cloud.heard), SendReceipt
  PROVE  Journal' /\ Story(cloud.heard)' /\ (slip' = slip \/ slip' = Acknowledged) /\ slip.pending \in Receipt
<1>0. slip.pending \in Receipt /\ slip.state = slip.pending /\ slip.sent = slip.acked + 1
  BY SlipFields DEF SendReceipt, Journal
<1>s. slip' = slip \/ slip' = Acknowledged
  BY DEF SendReceipt
<1>f. /\ slip'.state = slip.state /\ slip'.sent = slip.sent
      /\ \/ slip'.acked = slip.acked /\ slip'.pending = slip.pending
         \/ slip'.acked = slip.sent /\ slip'.pending = "nothing"
  BY <1>s, TakenFields
<1>1. CASE NewToCloud
  <2>1. cloud' = [cloud EXCEPT !.heard = Append(@, slip.pending)]
    BY <1>1 DEF SendReceipt
  <2>2. Len(cloud.heard) = slip.acked /\ Follows(slip.pending)
    BY <1>1, <1>0, SlipFields DEF SendReceipt, Journal, NewToCloud
  <2>3. Story(cloud.heard)'
    BY <1>0, <2>1, <2>2, StoryGoesOn
  <2>4. Len(cloud'.heard) = slip.sent /\ cloud'.heard[slip.sent] = slip.pending
    BY <1>0, <2>1, <2>2, HeardFields
  <2>5. Journal'
    BY <1>0, <1>f, <2>4, SlipFields DEF Journal, Receipt
  <2> QED BY <1>0, <1>s, <2>3, <2>5
<1>2. CASE ~NewToCloud
  <2>1. cloud' = cloud
    BY <1>2 DEF SendReceipt
  <2>2. Len(cloud.heard) = slip.sent /\ cloud.heard[slip.sent] = slip.pending
    BY <1>2, <1>0, SlipFields DEF SendReceipt, Journal, NewToCloud
  <2>3. Journal'
    BY <1>0, <1>f, <2>1, <2>2, SlipFields DEF Journal, Receipt
  <2> QED BY <1>0, <1>s, <2>1, <2>3
<1> QED BY <1>1, <1>2

-----------------------------------------------------------------------------
(* What a step of the schedule does to its lane and to a webhook's task. *)

LaneStep(d) ==
  \/ BeatWakes(d) \/ BeatLoads(d) \/ Moves(d)
  \/ PressReads(d, FALSE) \/ PressReads(d, TRUE) \/ SaveReads(d) \/ Deletes(d)

Keeps(d) ==
  /\ work[d].pc # "idle" /\ work'[d].how = work[d].how /\ work'[d].run = work[d].run
  /\ work'[d].pc = "ask" => work[d].pc = "ask" \/ work[d].how = "webhook"
  /\ work'[d].pc = "forget" => work[d].pc = "ask" /\ runs'[work[d].run].state = "none"

Turned(d) ==
  \/ work'[d] = work[d] \/ work'[d].pc = "idle"
  \/ work'[d].pc \notin {"ask", "forget"} /\ work'[d].how # "webhook"
  \/ Keeps(d)
  \/ work[d].how # "webhook" /\ work'[d].how = work[d].how /\ work'[d].run \notin HookRun

LEMMA TurnGoes ==
  ASSUME BookTypeOK, NEW d \in Daemon, NEW pc \in Step \ {"ask", "forget"}, Goes(d, pc), work[d].pc # "idle"
  PROVE  Turned(d)
<1>1. work[d] \in Holder
  BY DEF BookTypeOK
<1>2. CASE pc = "idle"
  BY <1>2, FreeFits, HolderGoes DEF Turned
<1>3. CASE pc # "idle"
  <2>1. work'[d] = [work[d] EXCEPT !.pc = pc]
    BY <1>3, HolderGoes
  <2>2. work'[d].pc = pc /\ work'[d].how = work[d].how /\ work'[d].run = work[d].run
    BY <1>1, <2>1 DEF Holder
  <2> QED BY <2>2 DEF Turned, Keeps
<1> QED BY <1>2, <1>3

LEMMA TurnEnds ==
  ASSUME BookTypeOK, NEW d \in Daemon, Leaves(d) \/ Refused(d) \/ Opened(d), work[d].pc # "idle"
  PROVE  Turned(d)
<1>1. Leaves(d) => Turned(d)
  BY HolderLeaves, FreeFits DEF Turned
<1>2. \A pc \in {"restore", "read", "idle"} : pc \in Step \ {"ask", "forget"}
  BY DEF Step
<1> QED BY <1>1, <1>2, TurnGoes DEF Refused, Opened

\* The holder goes on with something it read or found.
LEMMA TurnBecomes ==
  ASSUME BookTypeOK, NEW d \in Daemon, NEW w \in Holder, Becomes(d, w), work[d].pc # "idle",
         w.how = work[d].how, w.run = work[d].run, w.pc \notin {"ask", "forget"}
  PROVE  Turned(d)
BY HolderMoves, FreeFits DEF Turned, Keeps

LEMMA TurnComes ==
  ASSUME BookTypeOK, NEW d \in Daemon, NEW w, work' = [work EXCEPT ![d] = w],
         w.how # "webhook", w.pc \notin {"ask", "forget"}
  PROVE  Turned(d)
BY DEF BookTypeOK, Turned

\* Every step of the schedule turns its own lane.
LEMMA LaneTurns ==
  ASSUME BookTypeOK, Kinds, NEW d \in Daemon, LaneStep(d)
  PROVE  Turned(d)
<1>w. work[d] \in Holder /\ KindFits(work[d]) /\ clock \in Nat /\ beat[d] \in Nat
  BY DEF BookTypeOK, Kinds, Instant
<1>s. \A pc \in {"mark", "look", "link", "claim", "saved", "idle"} : pc \in Step \ {"ask", "forget"}
  BY DEF Step
<1>1. CASE BeatWakes(d) \/ Deletes(d)
  BY <1>1 DEF BeatWakes, Deletes, Turned
<1>2. CASE BeatLoads(d)
  <2>1. ASSUME NEW copy \in Sightings,
               work' = [work EXCEPT ![d] = [Free EXCEPT !.copy = copy, !.pc = "loaded", !.now = beat[d],
                                                      !.fire = LatestFire(copy, beat[d]), !.before = copy.last]]
        PROVE  Turned(d)
    <3> DEFINE w == [Free EXCEPT !.copy = copy, !.pc = "loaded", !.now = beat[d],
                                 !.fire = LatestFire(copy, beat[d]), !.before = copy.last]
    <3>1. w.how # "webhook" /\ w.pc \notin {"ask", "forget"}
      BY FreeFits DEF Holder
    <3> HIDE DEF w
    <3> QED BY <2>1, <3>1, TurnComes DEF w
  <2> QED BY <1>2, <2>1 DEF BeatLoads, Turned
<1>3. CASE PressReads(d, TRUE) \/ PressReads(d, FALSE)
  <2>1. ASSUME NEW copy \in Sightings, NEW force \in BOOLEAN,
               work' = [work EXCEPT ![d] = [Free EXCEPT !.copy = copy, !.pc = "pressed", !.how = "manual", !.forced = force]]
        PROVE  Turned(d)
    <3>1. /\ [Free EXCEPT !.copy = copy, !.pc = "pressed", !.how = "manual", !.forced = force].how # "webhook"
          /\ [Free EXCEPT !.copy = copy, !.pc = "pressed", !.how = "manual", !.forced = force].pc \notin {"ask", "forget"}
      BY FreeFits DEF Holder
    <3> QED BY <2>1, <3>1, TurnComes
  <2> QED BY <1>3, <2>1 DEF PressReads
<1>4. CASE SaveReads(d)
  <2>1. ASSUME NEW copy \in Sightings,
               work' = [work EXCEPT ![d] = [Free EXCEPT !.copy = copy, !.pc = "save", !.how = "save"]]
        PROVE  Turned(d)
    <3>1. /\ [Free EXCEPT !.copy = copy, !.pc = "save", !.how = "save"].how # "webhook"
          /\ [Free EXCEPT !.copy = copy, !.pc = "save", !.how = "save"].pc \notin {"ask", "forget"}
      BY FreeFits DEF Holder
    <3> QED BY <2>1, <3>1, TurnComes
  <2> QED BY <1>4, <2>1 DEF SaveReads
<1>5. CASE BeatDecides(d) \/ HookDecides(d) \/ SaveWrites(d)
  BY <1>5, <1>s, TurnGoes DEF BeatDecides, HookDecides, SaveWrites
<1>6. CASE Marks(d) \/ Restores(d) \/ Stamps(d) \/ SaveEnds(d) \/ Fails(d) \/ LinkFails(d) \/ Replayed(d)
  BY <1>6, TurnEnds DEF Marks, Restores, Stamps, SaveEnds, Fails, LinkFails, Replayed
<1>7. CASE Accepted(d) \/ Unopened(d) \/ Unknown(d) \/ Forgets(d)
  BY <1>7, TurnEnds DEF Accepted, Unopened, Unknown, Forgets, Admitted
<1>8. CASE Skips(d)
  BY <1>8, <1>s, TurnEnds, TurnGoes DEF Skips
<1>9. CASE LooksAgain(d) \/ ReadsToStamp(d)
  <2>1. ASSUME NEW copy \in Sightings, NEW pc \in {"idle", "claim", "stamp"}, work[d].pc # "idle",
               Becomes(d, [work[d] EXCEPT !.copy = copy, !.pc = pc])
        PROVE  Turned(d)
    <3>1. [work[d] EXCEPT !.copy = copy, !.pc = pc] \in Holder /\ [work[d] EXCEPT !.copy = copy, !.pc = pc].pc = pc
      <4>1. pc \in Step
        BY DEF Step
      <4> QED BY <4>1, LoadedFits
    <3>2. /\ [work[d] EXCEPT !.copy = copy, !.pc = pc].how = work[d].how
          /\ [work[d] EXCEPT !.copy = copy, !.pc = pc].run = work[d].run
      BY <1>w DEF Holder
    <3> QED BY <2>1, <3>1, <3>2, TurnBecomes
  <2>2. CASE LooksAgain(d)
    <3>1. ASSUME NEW copy \in Sightings,
                 Becomes(d, [work[d] EXCEPT !.copy = copy, !.pc = IF Stale(copy, work[d].fire) THEN "idle" ELSE "claim"])
          PROVE  Turned(d)
      <4>1. (IF Stale(copy, work[d].fire) THEN "idle" ELSE "claim") \in {"idle", "claim", "stamp"}
        OBVIOUS
      <4> QED BY <2>1, <2>2, <3>1, <4>1 DEF LooksAgain
    <3> QED BY <2>2, <3>1, TurnEnds DEF LooksAgain
  <2>3. CASE ReadsToStamp(d)
    <3>1. ASSUME NEW copy \in Sightings,
                 Becomes(d, [work[d] EXCEPT !.copy = copy,
                                            !.pc = IF StillNames(copy, work[d].fire) THEN "stamp" ELSE "idle"])
          PROVE  Turned(d)
      <4>1. (IF StillNames(copy, work[d].fire) THEN "stamp" ELSE "idle") \in {"idle", "claim", "stamp"}
        OBVIOUS
      <4> QED BY <2>1, <2>3, <3>1, <4>1 DEF ReadsToStamp
    <3> QED BY <2>3, <3>1, TurnEnds DEF ReadsToStamp
  <2> QED BY <1>9, <2>2, <2>3
<1>10. CASE Claims(d)
  <2>1. ASSUME NEW won \in BOOLEAN, NEW pc \in {"link", "idle"}, Becomes(d, [work[d] EXCEPT !.claimed = won, !.pc = pc])
        PROVE  Turned(d)
    <3>1. /\ [work[d] EXCEPT !.claimed = won, !.pc = pc] \in Holder
          /\ [work[d] EXCEPT !.claimed = won, !.pc = pc].pc = pc
          /\ [work[d] EXCEPT !.claimed = won, !.pc = pc].how = work[d].how
          /\ [work[d] EXCEPT !.claimed = won, !.pc = pc].run = work[d].run
      BY <1>w DEF Holder, Step
    <3> QED BY <1>10, <2>1, <3>1, TurnBecomes DEF Claims
  <2>2. Unclaimed(work[d].fire) \in BOOLEAN
    BY DEF Unclaimed, BookTypeOK, Schedule
  <2>3. \A won \in BOOLEAN : (IF won \/ work[d].how = "manual" THEN "link" ELSE "idle") \in {"link", "idle"}
    OBVIOUS
  <2> QED BY <1>10, <2>1, <2>2, <2>3 DEF Claims
<1>11. CASE PressDecides(d)
  <2>1. ASSUME NEW fire \in Occurrence, NEW pc \in {"idle", "link", "claim"},
               Becomes(d, [work[d] EXCEPT !.fire = fire, !.before = work[d].copy.last, !.pc = pc])
        PROVE  Turned(d)
    <3>1. work[d].copy.last \in Occurrence
      BY <1>w DEF Holder, Schedule
    <3>2. /\ [work[d] EXCEPT !.fire = fire, !.before = work[d].copy.last, !.pc = pc] \in Holder
          /\ [work[d] EXCEPT !.fire = fire, !.before = work[d].copy.last, !.pc = pc].pc = pc
          /\ [work[d] EXCEPT !.fire = fire, !.before = work[d].copy.last, !.pc = pc].how = work[d].how
          /\ [work[d] EXCEPT !.fire = fire, !.before = work[d].copy.last, !.pc = pc].run = work[d].run
      BY <1>w, <3>1 DEF Holder, Step
    <3> QED BY <1>11, <2>1, <3>2, TurnBecomes DEF PressDecides
  <2>2. LatestFire(work[d].copy, clock) \in Occurrence
    BY <1>w, LatestNamed DEF Holder
  <2> QED BY <1>11, <2>1, <2>2 DEF PressDecides
<1>12. CASE Links(d)
  <2> DEFINE r == IF work[d].how = "webhook" THEN work[d].run ELSE CHOOSE r \in Run : Fresh(r)
  <2>1. work[d].how # "webhook" => r \notin HookRun
    BY <1>12 DEF Links, Fresh
  <2>2. work' = [work EXCEPT ![d].pc = "ask", ![d].run = r] /\ work[d].pc = "link"
    BY <1>12 DEF Links
  <2>r. work[d].how = "webhook" => r = work[d].run
    OBVIOUS
  <2> HIDE DEF r
  <2>3. work'[d].pc = "ask" /\ work'[d].run = r /\ work'[d].how = work[d].how
    BY <1>w, <2>2 DEF BookTypeOK, Holder
  <2> QED BY <2>1, <2>2, <2>3, <2>r DEF Turned, Keeps
<1>13. CASE Absent(d, TRUE) \/ Absent(d, FALSE)
  <2>1. PICK full \in BOOLEAN : work' = [work EXCEPT ![d] = [work[d] EXCEPT !.pc = "forget", !.full = full]]
    BY <1>13 DEF Absent
  <2>2. work'[d].pc = "forget" /\ work'[d].run = work[d].run /\ work'[d].how = work[d].how
    BY <1>w, <2>1 DEF BookTypeOK, Holder
  <2>3. work[d].pc = "ask" /\ runs'[work[d].run].state = "none"
    BY <1>13 DEF Absent
  <2> QED BY <2>2, <2>3 DEF Turned, Keeps
<1> QED BY <1>1, <1>2, <1>3, <1>4, <1>5, <1>6, <1>7, <1>8, <1>9, <1>10, <1>11, <1>12, <1>13
   DEF LaneStep, Moves

\* No step of one lane touches another.
LEMMA OwnLane ==
  ASSUME BookTypeOK, NEW d \in Daemon, LaneStep(d) \/ BookCrash(d) \/ \E r \in HookRun : HookReads(d, r)
  PROVE  \A e \in Daemon : e # d => work'[e] = work[e]
<1>1. ASSUME NEW w, Becomes(d, w) PROVE \A e \in Daemon : e # d => work'[e] = work[e]
  BY <1>1 DEF BookTypeOK, Becomes
<1>2. ASSUME NEW w, work' = [work EXCEPT ![d] = w] PROVE \A e \in Daemon : e # d => work'[e] = work[e]
  BY <1>2 DEF BookTypeOK
<1>3. CASE BeatWakes(d) \/ BeatLoads(d) \/ PressReads(d, FALSE) \/ PressReads(d, TRUE) \/ SaveReads(d) \/ Deletes(d)
           \/ \E r \in HookRun : HookReads(d, r)
  BY <1>2, <1>3 DEF BeatWakes, BeatLoads, PressReads, SaveReads, Deletes, HookReads
<1>4. CASE Links(d) \/ Absent(d, TRUE) \/ Absent(d, FALSE)
  BY <1>4 DEF Links, Absent, BookTypeOK
<1>5. CASE Leaves(d) \/ Refused(d) \/ Opened(d)
  BY <1>1, <1>5 DEF Leaves, Refused, Opened, Goes
<1>6. ASSUME NEW pc, Goes(d, pc) PROVE \A e \in Daemon : e # d => work'[e] = work[e]
  BY <1>1, <1>6 DEF Goes
<1>7. CASE Moves(d)
  <2>1. CASE BeatDecides(d) \/ HookDecides(d) \/ SaveWrites(d) \/ Skips(d)
    BY <1>5, <1>6, <2>1 DEF BeatDecides, HookDecides, SaveWrites, Skips
  <2>2. CASE LooksAgain(d) \/ Claims(d) \/ ReadsToStamp(d) \/ PressDecides(d)
    BY <1>1, <1>5, <2>2 DEF LooksAgain, Claims, ReadsToStamp, PressDecides
  <2>3. CASE Marks(d) \/ Restores(d) \/ Stamps(d) \/ SaveEnds(d) \/ Fails(d) \/ LinkFails(d) \/ Replayed(d)
             \/ Accepted(d) \/ Unopened(d) \/ Unknown(d) \/ Forgets(d)
    BY <1>5, <2>3
    DEF Marks, Restores, Stamps, SaveEnds, Fails, LinkFails, Replayed, Accepted, Unopened, Unknown, Forgets
  <2> QED BY <1>4, <1>7, <2>1, <2>2, <2>3 DEF Moves
<1> QED BY <1>3, <1>5, <1>7 DEF LaneStep, BookCrash

\* A webhook's task is touched by the poller's own asking only.
LEMMA TaskTurns ==
  ASSUME TypeOK, Lanes, NEW d \in Daemon, LaneStep(d), slip' = slip
  PROVE  Task' = Task \/ (work[d].pc = "ask" /\ work[d].how = "webhook" /\ Task = "none")
<1>w. /\ work[d] \in Holder /\ slip.run \in HookRun /\ slip.run \in Run /\ runs \in [Run -> RunRow]
      /\ work[d].run \in Run /\ LaneFits(d)
  BY SlipFields, SchedulesAssumption DEF TypeOK, BookTypeOK, Holder, Lanes
<1>1. runs' = runs => Task' = Task
  BY DEF Task
<1>2. CASE Links(d)
  <2>1. \A o \in Run : Linking(d, o)[slip.run].state = runs[slip.run].state
    BY <1>w DEF Linking, RunRow
  <2>2. work[d].how # "webhook" => (CHOOSE o \in Run : Fresh(o)) \in Run
    BY <1>2 DEF Links
  <2> QED BY <1>w, <1>2, <2>1, <2>2 DEF Links, Task
<1>3. ASSUME NEW state, Admitted(d, state)
      PROVE  Task' = Task \/ (work[d].pc = "ask" /\ work[d].how = "webhook" /\ Task = "none")
  <2>1. /\ work[d].pc = "ask" /\ runs[work[d].run].state = "none"
        /\ runs' = [runs EXCEPT ![work[d].run].state = state]
    BY <1>3 DEF Admitted
  <2>2. CASE work[d].run = slip.run
    BY <1>w, <2>1, <2>2 DEF LaneFits, Task
  <2>3. CASE work[d].run # slip.run
    BY <1>w, <2>1, <2>3 DEF Task
  <2> QED BY <2>2, <2>3
<1>4. CASE Forgets(d)
  <2>1. work[d].pc = "forget" /\ runs' = [runs EXCEPT ![work[d].run] = Unrun]
    BY <1>4 DEF Forgets
  <2>2. CASE work[d].run = slip.run
    BY <1>w, <2>1, <2>2, UnrunFits DEF LaneFits, Task
  <2>3. CASE work[d].run # slip.run
    BY <1>w, <2>1, <2>3 DEF Task
  <2> QED BY <2>2, <2>3
<1>5. CASE Accepted(d) \/ Unopened(d) \/ Unknown(d)
  BY <1>1, <1>3, <1>5 DEF Accepted, Unopened, Unknown, RecordUnknown
<1>6. CASE BeatWakes(d) \/ BeatLoads(d) \/ PressReads(d, FALSE) \/ PressReads(d, TRUE) \/ SaveReads(d) \/ Deletes(d)
  BY <1>1, <1>6 DEF BeatWakes, BeatLoads, PressReads, SaveReads, Deletes
<1>7. CASE Moves(d)
  BY <1>1, <1>2, <1>4, <1>5, <1>7
  DEF Moves, BeatDecides, Marks, LooksAgain, Claims, Replayed, Absent, Restores, ReadsToStamp, Stamps, PressDecides,
      HookDecides, SaveWrites, SaveEnds, LinkFails, Skips, Fails
<1> QED BY <1>6, <1>7 DEF LaneStep

\* What the poller hears, and of which step.
LEMMA AnswerComes ==
  ASSUME NEW d \in Daemon, BookStep(d)
  PROVE  /\ LaneStep(d) /\ slip' = slip /\ cloud' = cloud
         /\ \/ asking' = asking
            \/ /\ ForHook(d) /\ work'[d].pc = "idle" /\ asking' \in Answer
               /\ asking' = "run" => Accepted(d) \/ (Replayed(d) /\ runs[work[d].run].state # "unopened")
<1>1. ASSUME NEW answer \in Answer, Hears(d, answer)
      PROVE  asking' = asking \/ (ForHook(d) /\ work'[d].pc = "idle" /\ asking' = answer)
  BY <1>1 DEF Hears
<1>2. {"no", "run", "unknown", "full"} \subseteq Answer
  BY DEF Answer
<1>3. slip' = slip /\ cloud' = cloud
  BY DEF BookStep
<1>4. CASE (HookDecides(d) \/ LinkFails(d) \/ Unopened(d) \/ Fails(d)) /\ Hears(d, "no")
  BY <1>1, <1>2, <1>3, <1>4 DEF LaneStep, Moves
<1>5. CASE Accepted(d) /\ Hears(d, "run")
  BY <1>1, <1>2, <1>3, <1>5 DEF LaneStep, Moves
<1>6. CASE Replayed(d) /\ Hears(d, IF runs[work[d].run].state = "unopened" THEN "no" ELSE "run")
  BY <1>1, <1>2, <1>3, <1>6 DEF LaneStep, Moves
<1>7. CASE Unknown(d) /\ Hears(d, "unknown")
  BY <1>1, <1>2, <1>3, <1>7 DEF LaneStep, Moves
<1>8. CASE (Forgets(d) \/ Skips(d)) /\ Hears(d, IF work[d].full THEN "full" ELSE "no")
  BY <1>1, <1>2, <1>3, <1>8 DEF LaneStep, Moves
<1>9. CASE OwnStep(d) /\ UNCHANGED asking
  BY <1>3, <1>9 DEF OwnStep, LaneStep, Moves
<1> QED BY <1>4, <1>5, <1>6, <1>7, <1>8, <1>9 DEF BookStep

-----------------------------------------------------------------------------
(* Every step keeps the lanes and the answers. *)

LEMMA BookLanes ==
  ASSUME TypeOK, Kinds, Lanes, NEW d \in Daemon, BookStep(d)
  PROVE  Lanes'
<1>1. /\ LaneStep(d) /\ slip' = slip
      /\ asking' = asking \/ (ForHook(d) /\ work'[d].pc = "idle")
  BY AnswerComes
<1>2. BookTypeOK /\ slip.run \in HookRun
  BY SlipFields DEF TypeOK
<1>3. Task' = Task \/ (work[d].pc = "ask" /\ work[d].how = "webhook" /\ Task = "none")
  BY <1>1, TaskTurns
<1>4. ASSUME NEW e \in Daemon, e # d PROVE LaneFits(e)'
  <2>1. work'[e] = work[e] /\ LaneFits(e) /\ LaneFits(d)
    BY <1>1, <1>2, <1>4, OwnLane DEF Lanes
  <2>2. CASE work[e].how = "webhook" /\ work[e].pc # "idle"
    <3>1. e = Poller
      BY <2>1, <2>2 DEF LaneFits
    <3>2. asking' = asking
      BY <1>1, <1>4, <3>1 DEF ForHook
    <3>3. Task' = Task
      BY <1>3, <1>4, <2>1, <3>1 DEF LaneFits
    <3> QED BY <1>1, <2>1, <2>2, <3>2, <3>3 DEF LaneFits
  <2>3. CASE ~(work[e].how = "webhook" /\ work[e].pc # "idle")
    BY <2>1, <2>3 DEF LaneFits
  <2> QED BY <2>2, <2>3
<1>5. LaneFits(d)'
  <2>1. Turned(d) /\ LaneFits(d)
    BY <1>1, <1>2, LaneTurns DEF Lanes
  <2>2. CASE work'[d].pc = "idle"
    BY <2>2 DEF LaneFits
  <2>3. CASE work'[d].pc # "idle"
    <3>1. asking' = asking
      BY <1>1, <2>3
    <3>2. CASE work'[d] = work[d]
      BY <1>1, <1>3, <2>1, <2>3, <3>1, <3>2 DEF LaneFits
    <3>3. CASE work'[d].pc \notin {"ask", "forget"} /\ work'[d].how # "webhook"
      BY <3>3 DEF LaneFits
    <3>4. CASE work[d].how # "webhook" /\ work'[d].how = work[d].how /\ work'[d].run \notin HookRun
      BY <3>4 DEF LaneFits
    <3>5. CASE Keeps(d)
      <4>1. CASE work[d].how = "webhook"
        <5>1. d = Poller /\ work[d].run = slip.run /\ asking = "waiting"
          BY <2>1, <3>5, <4>1 DEF LaneFits, Keeps
        <5>2. work'[d].pc = "forget" => Task' = "none"
          BY <1>1, <3>5, <5>1 DEF Keeps, Task
        <5> QED BY <1>1, <3>1, <3>5, <4>1, <5>1, <5>2 DEF LaneFits, Keeps
      <4>2. CASE work[d].how # "webhook"
        BY <2>1, <3>5, <4>2 DEF LaneFits, Keeps
      <4> QED BY <4>1, <4>2
    <3> QED BY <2>1, <2>3, <3>2, <3>3, <3>4, <3>5 DEF Turned
  <2> QED BY <2>2, <2>3
<1> QED BY <1>4, <1>5 DEF Lanes

\* The answers and the promises, as long as the row and Cloud's story stay.
LEMMA AnswersStay ==
  ASSUME Answers, slip' = slip, cloud'.heard = cloud.heard,
         Task' = Task \/ (Task = "working" /\ Task' = "finished") \/ (Task = "none" /\ slip.acked > 0),
         asking' # "nothing" => asking # "nothing", asking' = "run" => Settled'
  PROVE  Answers'
<1>1. Settled => Settled'
  BY DEF Settled
<1>2. Task' # "none" => slip.acked > 0
  BY DEF Answers
<1>3. Undecided => Undecided'
  BY DEF Undecided, Resting
<1> QED BY <1>1, <1>2, <1>3 DEF Answers

LEMMA BookAnswers ==
  ASSUME TypeOK, Lanes, Answers, NEW d \in Daemon, BookStep(d)
  PROVE  Answers' /\ asking' \in Answer
<1>1. /\ LaneStep(d) /\ slip' = slip /\ cloud' = cloud
      /\ \/ asking' = asking
         \/ /\ ForHook(d) /\ work'[d].pc = "idle" /\ asking' \in Answer
            /\ asking' = "run" => Accepted(d) \/ (Replayed(d) /\ runs[work[d].run].state # "unopened")
  BY AnswerComes
<1>2. Task' = Task \/ (work[d].pc = "ask" /\ work[d].how = "webhook" /\ Task = "none")
  BY <1>1, TaskTurns
<1>3. work[d].how = "webhook" /\ work[d].pc # "idle" => asking = "waiting" /\ work[d].run = slip.run
  BY DEF Lanes, LaneFits
<1>4. asking = "waiting" => slip.acked > 0
  BY DEF Answers, Undecided
<1>5. Task' = Task \/ (Task = "none" /\ slip.acked > 0)
  BY <1>2, <1>3, <1>4
<1>6. asking' # "nothing" => asking # "nothing"
  BY <1>1, <1>3 DEF ForHook
<1>7. asking' = "run" => Settled'
  <2>1. CASE asking' = asking
    BY <1>2, <1>5, <2>1 DEF Answers, Settled
  <2>2. CASE asking' # asking /\ asking' = "run"
    <3>1. work[d].run = slip.run /\ slip.run \in Run /\ runs \in [Run -> RunRow]
      BY <1>1, <1>3, <2>2, SlipFields, SchedulesAssumption DEF ForHook, TypeOK, BookTypeOK
    <3>2. CASE Accepted(d)
      BY <1>1, <3>1, <3>2 DEF Accepted, Admitted, Settled, Task, RunRow
    <3>3. CASE Replayed(d) /\ runs[work[d].run].state # "unopened"
      BY <1>1, <3>1, <3>3 DEF Replayed, Settled, Task, RunRow, RunState
    <3> QED BY <1>1, <2>2, <3>2, <3>3
  <2> QED BY <2>1, <2>2
<1> QED BY <1>1, <1>5, <1>6, <1>7, AnswersStay DEF TypeOK

\* The row rests and may still be decided, and Task is Settled where it says so.
LEMMA MayFollow ==
  ASSUME TypeOK, Journal, Undecided
  PROVE  Follows("deferred") /\ Follows("accepted") /\ Follows("refused")
BY SlipFields, RestingHeard DEF Undecided, Follows

\* The poller's own steps leave the book, but for what may still go wrong.
LEMMA BookRests ==
  ASSUME TypeOK, UNCHANGED <<clock, row, runs, beat, work, wishes>>, Trouble \/ UNCHANGED troubles
  PROVE  BookTypeOK' /\ (Kinds => Kinds') /\ (slip'.run = slip.run => Task' = Task)
<1>1. troubles' \in Nat
  BY DEF TypeOK, BookTypeOK, Trouble
<1> QED BY <1>1 DEF TypeOK, BookTypeOK, Kinds, KindFits, Task

\* The lanes fit as long as nothing is said to who asks.
LEMMA LanesRest ==
  ASSUME Lanes, work' = work, slip'.run = slip.run, Task' = Task, asking = "waiting" => asking' = "waiting"
  PROVE  Lanes'
BY DEF Lanes, LaneFits

LEMMA BookKeeps ==
  ASSUME DeliveryInv, NEW d \in Daemon, BookStep(d)
  PROVE  DeliveryInv'
<1>1. /\ LaneStep(d) /\ slip' = slip /\ cloud' = cloud
      /\ TypeOK /\ BookTypeOK /\ Kinds /\ Journal /\ Story(cloud.heard) /\ Lanes /\ Answers
  BY AnswerComes DEF DeliveryInv, TypeOK
<1>2. BookNext
  BY <1>1 DEF LaneStep, BookNext, Asks
<1>3. BookTypeOK' /\ Kinds'
  BY <1>1, <1>2, TypesKept, KindsKept
<1>4. Journal' /\ Story(cloud.heard)'
  BY <1>1 DEF Journal, Follows, Story
<1>5. Lanes' /\ Answers' /\ asking' \in Answer
  BY <1>1, BookLanes, BookAnswers
<1>6. TypeOK'
  BY <1>1, <1>3, <1>5 DEF TypeOK
<1> QED BY <1>3, <1>4, <1>5, <1>6 DEF DeliveryInv

LEMMA CrashKeeps ==
  ASSUME DeliveryInv, NEW d \in Daemon, Crash(d)
  PROVE  DeliveryInv'
<1>1. /\ BookCrash(d) /\ slip' = slip /\ cloud' = cloud /\ runs' = runs
      /\ asking' = IF d = Poller THEN "nothing" ELSE asking
      /\ TypeOK /\ BookTypeOK /\ Kinds /\ Journal /\ Story(cloud.heard) /\ Lanes /\ Answers
  BY DEF Crash, BookCrash, DeliveryInv, TypeOK
<1>2. BookTypeOK' /\ Kinds'
  BY <1>1, TypesKept, KindsKept DEF BookNext
<1>3. Journal' /\ Story(cloud.heard)'
  BY <1>1 DEF Journal, Follows, Story
<1>4. Task' = Task
  BY <1>1 DEF Task
<1>5. work'[d] = Free /\ \A e \in Daemon : e # d => work'[e] = work[e]
  BY <1>1, HolderLeaves, OwnLane DEF BookCrash
<1>6. Lanes'
  <2>1. ASSUME NEW e \in Daemon PROVE LaneFits(e)'
    <3>1. CASE e = d
      BY <1>5, <3>1, FreeFits DEF LaneFits
    <3>2. CASE e # d
      BY <1>1, <1>4, <1>5, <3>2 DEF Lanes, LaneFits
    <3> QED BY <3>1, <3>2
  <2> QED BY <2>1 DEF Lanes
<1>7. Answers'
  BY <1>1, <1>4, AnswersStay DEF Answers, Settled
<1>8. TypeOK'
  BY <1>1, <1>2 DEF TypeOK, Answer
<1> QED BY <1>2, <1>3, <1>6, <1>7, <1>8 DEF DeliveryInv

LEMMA WorldKeeps ==
  ASSUME DeliveryInv, World
  PROVE  DeliveryInv'
<1>1. /\ slip' = slip /\ cloud' = cloud /\ asking' = asking /\ work' = work
      /\ TypeOK /\ BookTypeOK /\ Kinds /\ Journal /\ Story(cloud.heard) /\ Lanes /\ Answers
      /\ slip.run \in Run
  BY SlipFields, SchedulesAssumption DEF World, hookVars, Tick, TaskEnds, DeliveryInv, TypeOK
<1>2. BookTypeOK' /\ Kinds'
  BY <1>1, TypesKept, KindsKept DEF BookNext, World
<1>3. Journal' /\ Story(cloud.heard)'
  BY <1>1 DEF Journal, Follows, Story
<1>4. Task' = Task \/ (Task = "working" /\ Task' = "finished")
  BY <1>1 DEF World, Tick, TaskEnds, Task, BookTypeOK, RunRow
<1>5. Lanes'
  BY <1>1, <1>4 DEF Lanes, LaneFits
<1>6. Answers'
  BY <1>1, <1>4, AnswersStay DEF Answers, Settled
<1>7. TypeOK'
  BY <1>1, <1>2 DEF TypeOK
<1> QED BY <1>2, <1>3, <1>5, <1>6, <1>7 DEF DeliveryInv

LEMMA ReadKeeps ==
  ASSUME DeliveryInv, PollerReads
  PROVE  DeliveryInv'
<1>1. /\ slip' = slip /\ cloud' = cloud /\ asking = "waiting" /\ Poller \in Daemon /\ slip.run \in HookRun
      /\ TypeOK /\ BookTypeOK /\ Kinds /\ Journal /\ Story(cloud.heard) /\ Lanes /\ Answers
  BY SlipFields, DeliveriesAssumption DEF PollerReads, DeliveryInv, TypeOK
<1>2. Journal' /\ Story(cloud.heard)'
  BY <1>1 DEF Journal, Follows, Story
<1>3. CASE HookReads(Poller, slip.run) /\ UNCHANGED <<wishes, asking>>
  <2>1. BookTypeOK' /\ Kinds'
    BY <1>1, <1>3, HookTypes, HookKinds
  <2>2. runs' = runs /\ Task' = Task
    BY <1>1, <1>3 DEF HookReads, Task
  <2>3. PICK copy \in Sightings :
          work' = [work EXCEPT ![Poller] = [Free EXCEPT !.copy = copy, !.pc = "hooked", !.how = "webhook", !.run = slip.run]]
    BY <1>3 DEF HookReads
  <2>4. work'[Poller].how = "webhook" /\ work'[Poller].run = slip.run /\ work'[Poller].pc = "hooked"
    BY <1>1, <2>3, FreeFits DEF BookTypeOK, Holder
  <2>5. Lanes'
    <3>1. LaneFits(Poller)'
      BY <1>1, <1>3, <2>4 DEF LaneFits
    <3>2. ASSUME NEW e \in Daemon, e # Poller PROVE LaneFits(e)'
      BY <1>1, <1>3, <2>2, <2>3, <3>2 DEF Lanes, LaneFits, BookTypeOK
    <3> QED BY <3>1, <3>2 DEF Lanes
  <2>6. Answers'
    BY <1>1, <1>3, <2>2, AnswersStay DEF Answers
  <2>7. TypeOK'
    BY <1>1, <1>3, <2>1 DEF TypeOK
  <2> QED BY <1>2, <2>1, <2>5, <2>6, <2>7 DEF DeliveryInv
<1>4. CASE work[Poller].pc = "idle" /\ ~row.here /\ asking' = "no" /\ UNCHANGED bookVars
  <2>1. Task' = Task /\ work' = work /\ BookTypeOK' /\ Kinds'
    BY <1>1, <1>4, TypesKept, KindsKept DEF bookVars, Task
  <2>2. Lanes'
    BY <1>1, <1>4, <2>1 DEF Lanes, LaneFits
  <2>3. Answers'
    BY <1>1, <1>4, <2>1, AnswersStay
  <2>4. TypeOK'
    BY <1>1, <1>4, <2>1 DEF TypeOK, Answer
  <2> QED BY <1>2, <2>1, <2>2, <2>3, <2>4 DEF DeliveryInv
<1> QED BY <1>3, <1>4 DEF PollerReads

-----------------------------------------------------------------------------
(* The poller's own steps. *)

\* A step that leaves the book and the lane, and waits for nothing after it.
LEMMA RowKeeps ==
  ASSUME DeliveryInv, UNCHANGED <<clock, row, runs, beat, work, wishes>>, Trouble \/ UNCHANGED troubles,
         slip' \in Slip, slip'.run = slip.run, cloud' \in Cloud, asking # "waiting", asking' = "nothing",
         Journal', Story(cloud.heard)', slip'.acked >= slip.acked,
         slip'.state \in {"accepted", "terminal"} => Settled,
         \A i \in DOMAIN cloud'.heard : cloud'.heard[i] = "accepted" => Settled
  PROVE  DeliveryInv'
<1>1. TypeOK /\ Kinds /\ Lanes /\ Answers
  BY DEF DeliveryInv
<1>2. BookTypeOK' /\ Kinds' /\ Task' = Task
  BY <1>1, BookRests
<1>3. TypeOK'
  BY <1>2 DEF TypeOK, Answer
<1>4. Lanes'
  BY <1>1, <1>2, LanesRest
<1>5. slip.acked \in Nat /\ slip'.acked \in Nat
  BY <1>1, SlipFields DEF Slip
<1>6. Answers'
  BY <1>1, <1>2, <1>5 DEF Answers, Settled
<1> QED BY <1>2, <1>3, <1>4, <1>6 DEF DeliveryInv

\* The same, for a receipt that is queued.
LEMMA QueueKeeps ==
  ASSUME DeliveryInv, UNCHANGED <<clock, row, runs, beat, work, wishes, cloud>>, Trouble \/ UNCHANGED troubles,
         NEW kind \in Receipt, slip' = Queued(kind), Resting, Follows(kind), asking # "waiting", asking' = "nothing",
         kind \in {"accepted", "terminal"} => Settled
  PROVE  DeliveryInv'
<1>1. TypeOK /\ Journal /\ Story(cloud.heard) /\ Answers
  BY DEF DeliveryInv
<1>2. slip' \in Slip /\ slip'.state = kind /\ slip'.run = slip.run /\ slip'.acked = slip.acked /\ slip.acked \in Nat
  BY <1>1, QueuedFields, SlipFields
<1>3. Journal'
  BY <1>1, QueuedJournal
<1>4. Story(cloud.heard)' /\ cloud' \in Cloud
  BY <1>1 DEF Story, TypeOK
<1>5. \A i \in DOMAIN cloud'.heard : cloud'.heard[i] = "accepted" => Settled
  BY <1>1 DEF Answers
<1> QED BY <1>2, <1>3, <1>4, <1>5, RowKeeps

LEMMA OfferKeeps == ASSUME DeliveryInv, Offer PROVE DeliveryInv'
<1>1. /\ TypeOK /\ Journal /\ Story(cloud.heard) /\ Answers /\ cloud' = cloud /\ asking' = asking /\ asking = "nothing"
      /\ UNCHANGED bookVars /\ slip \in Slip /\ cloud \in Cloud
  BY DEF DeliveryInv, Offer, TypeOK
<1>2. PICK bound \in BOOLEAN :
        slip' = IF slip.state = "none"
                THEN [slip EXCEPT !.state = "prepared", !.bound = bound, !.lease = cloud.lease]
                ELSE IF slip.acked = 0 THEN [slip EXCEPT !.lease = cloud.lease] ELSE slip
  <2>1. row.here \in BOOLEAN
    BY <1>1 DEF TypeOK, BookTypeOK, Schedule
  <2> QED BY <2>1 DEF Offer
<1>3. /\ slip' \in Slip /\ slip'.run = slip.run /\ slip'.acked = slip.acked /\ slip'.sent = slip.sent
      /\ slip'.pending = slip.pending
      /\ slip'.state = IF slip.state = "none" THEN "prepared" ELSE slip.state
  BY <1>1, <1>2 DEF Slip, Cloud
<1>4. Journal'
  BY <1>1, <1>3 DEF Journal, Follows, Receipt
<1>5. Story(cloud.heard)' /\ \A i \in DOMAIN cloud'.heard : cloud'.heard[i] = "accepted" => Settled
  BY <1>1 DEF Story, Answers
<1>6. slip'.acked >= slip.acked /\ (slip'.state \in {"accepted", "terminal"} => Settled)
  BY <1>1, <1>3, SlipFields DEF Answers
<1> QED BY <1>1, <1>3, <1>4, <1>5, <1>6, RowKeeps DEF bookVars

LEMMA DurableKeeps == ASSUME DeliveryInv, QueueDurable PROVE DeliveryInv'
<1>1. /\ TypeOK /\ Journal /\ Resting /\ slip.acked = 0 /\ asking = "nothing" /\ asking' = asking
      /\ slip' = Queued("durable") /\ UNCHANGED bookVars /\ UNCHANGED cloud
  BY DEF DeliveryInv, QueueDurable
<1>2. Follows("durable")
  BY <1>1, RestingHeard DEF Follows
<1>3. "durable" \in Receipt
  BY DEF Receipt
<1> QED BY <1>1, <1>2, <1>3, QueueKeeps DEF bookVars

LEMMA UnboundKeeps == ASSUME DeliveryInv, QueueUnbound PROVE DeliveryInv'
<1>1. /\ TypeOK /\ Journal /\ Resting /\ Undecided /\ asking = "nothing" /\ asking' = asking
      /\ slip' = Queued("refused") /\ UNCHANGED bookVars /\ UNCHANGED cloud
  BY DEF DeliveryInv, QueueUnbound, Undecided
<1>2. "refused" \in Receipt
  BY DEF Receipt
<1> QED BY <1>1, <1>2, MayFollow, QueueKeeps DEF bookVars

LEMMA TerminalKeeps == ASSUME DeliveryInv, QueueTerminal PROVE DeliveryInv'
<1>1. /\ TypeOK /\ Journal /\ Resting /\ slip.state = "accepted" /\ asking = "nothing" /\ asking' = asking
      /\ slip' = Queued("terminal") /\ UNCHANGED bookVars /\ UNCHANGED cloud /\ Settled
  BY DEF DeliveryInv, QueueTerminal, Settled, Task
<1>2. Follows("terminal")
  BY <1>1, SlipFields, RestingHeard DEF Follows, Journal, Resting, Receipt
<1>3. "terminal" \in Receipt
  BY DEF Receipt
<1> QED BY <1>1, <1>2, <1>3, QueueKeeps DEF bookVars

LEMMA AnswerKeeps == ASSUME DeliveryInv, QueueAnswer PROVE DeliveryInv'
<1>1. /\ TypeOK /\ Journal /\ Story(cloud.heard) /\ Answers /\ cloud' = cloud /\ asking \in {"run", "full", "no"}
      /\ asking' = "nothing" /\ UNCHANGED <<clock, row, runs, beat, work, wishes>>
      /\ slip \in Slip /\ cloud \in Cloud
  BY DEF DeliveryInv, QueueAnswer, TypeOK
<1>2. Undecided /\ Resting
  BY <1>1 DEF Answers, Undecided
<1>3. CASE slip' = Queued(KindOf(asking)) /\ UNCHANGED troubles
  <2>1. KindOf(asking) \in {"accepted", "deferred", "refused"} /\ (KindOf(asking) = "accepted" => asking = "run")
    BY <1>1 DEF KindOf
  <2>2. KindOf(asking) \in Receipt /\ Follows(KindOf(asking))
    BY <1>1, <1>2, <2>1, MayFollow DEF Receipt
  <2>3. KindOf(asking) \in {"accepted", "terminal"} => Settled
    BY <1>1, <2>1 DEF Answers
  <2> HIDE DEF KindOf
  <2> QED BY <1>1, <1>2, <1>3, <2>2, <2>3, QueueKeeps
<1>4. CASE UNCHANGED slip /\ Trouble
  <2>1. Journal' /\ Story(cloud.heard)'
    BY <1>1, <1>4 DEF Journal, Follows, Story
  <2>2. /\ slip'.acked >= slip.acked
        /\ slip'.state \in {"accepted", "terminal"} => Settled
        /\ \A i \in DOMAIN cloud'.heard : cloud'.heard[i] = "accepted" => Settled
    BY <1>1, <1>4, SlipFields DEF Answers
  <2> QED BY <1>1, <1>4, <2>1, <2>2, RowKeeps
<1> QED BY <1>3, <1>4 DEF QueueAnswer

LEMMA UnknownKeeps == ASSUME DeliveryInv, AnswerUnknown PROVE DeliveryInv'
<1>1. /\ TypeOK /\ Journal /\ Story(cloud.heard) /\ Answers /\ cloud' = cloud /\ slip' = slip /\ asking = "unknown"
      /\ asking' = "nothing" /\ UNCHANGED bookVars /\ slip \in Slip /\ cloud \in Cloud
  BY DEF DeliveryInv, AnswerUnknown, TypeOK
<1>2. Journal' /\ Story(cloud.heard)'
  BY <1>1 DEF Journal, Follows, Story
<1>3. slip'.acked >= slip.acked
  BY <1>1, SlipFields
<1>4. /\ slip'.state \in {"accepted", "terminal"} => Settled
      /\ \A i \in DOMAIN cloud'.heard : cloud'.heard[i] = "accepted" => Settled
  BY <1>1 DEF Answers
<1> QED BY <1>1, <1>2, <1>3, <1>4, RowKeeps DEF bookVars

\* A receipt is heard once, and an acceptance only of a task that is there.
LEMMA SendKeeps == ASSUME DeliveryInv, SendReceipt PROVE DeliveryInv'
<1>1. /\ TypeOK /\ Journal /\ Story(cloud.heard) /\ Answers /\ asking = "nothing" /\ asking' = "nothing"
      /\ UNCHANGED <<clock, row, runs, beat, work, wishes>> /\ (Trouble \/ UNCHANGED troubles)
  BY DEF DeliveryInv, SendReceipt
<1>2. Journal' /\ Story(cloud.heard)' /\ (slip' = slip \/ slip' = Acknowledged) /\ slip.pending \in Receipt
  BY <1>1, SentJournal
<1>3. /\ slip' \in Slip /\ slip'.run = slip.run /\ slip'.state = slip.state
      /\ slip'.acked = slip.acked \/ slip'.acked = slip.sent
  BY <1>1, <1>2, TakenFields DEF TypeOK
<1>4. slip.state = slip.pending /\ slip.sent = slip.acked + 1
  BY <1>1, <1>2 DEF Journal, Receipt
<1>5. slip'.acked >= slip.acked
  BY <1>1, <1>3, <1>4, SlipFields
<1>6. slip'.state \in {"accepted", "terminal"} => Settled
  BY <1>1, <1>3 DEF Answers
<1>7. cloud' \in Cloud /\ \A i \in DOMAIN cloud'.heard : cloud'.heard[i] = "accepted" => Settled
  <2>1. CASE cloud' = cloud
    BY <1>1, <2>1 DEF Answers, TypeOK
  <2>2. CASE cloud' = [cloud EXCEPT !.heard = Append(@, slip.pending)]
    <3>1. ASSUME NEW i \in DOMAIN cloud'.heard, cloud'.heard[i] = "accepted" PROVE Settled
      <4>1. (i \in DOMAIN cloud.heard /\ cloud.heard[i] = "accepted") \/ slip.pending = "accepted"
        BY <1>1, <1>2, <2>2, <3>1, HeardFields, SlipFields
      <4> QED BY <1>1, <1>4, <4>1 DEF Answers
    <3> QED BY <1>1, <1>2, <2>2, <3>1, HeardFields
  <2> QED BY <2>1, <2>2 DEF SendReceipt
<1> QED BY <1>1, <1>2, <1>3, <1>5, <1>6, <1>7, RowKeeps

LEMMA RefusedKeeps == ASSUME DeliveryInv, ReceiptRefused PROVE DeliveryInv'
<1>1. /\ TypeOK /\ Journal /\ Story(cloud.heard) /\ Answers /\ cloud' = cloud /\ asking = "nothing" /\ asking' = asking
      /\ slip' = EndedAway /\ UNCHANGED bookVars /\ cloud \in Cloud
  BY DEF DeliveryInv, ReceiptRefused, TypeOK
<1>2. /\ slip' \in Slip /\ slip'.state = "ended" /\ slip'.pending = "nothing" /\ slip'.acked = slip.acked
      /\ slip'.run = slip.run
  BY <1>1, EndedFields
<1>3. Journal'
  BY <1>1, <1>2, SlipFields DEF Journal, Receipt
<1>4. Story(cloud.heard)' /\ \A i \in DOMAIN cloud'.heard : cloud'.heard[i] = "accepted" => Settled
  BY <1>1 DEF Story, Answers
<1>5. slip'.acked >= slip.acked
  BY <1>1, <1>2, SlipFields
<1> QED BY <1>1, <1>2, <1>3, <1>4, <1>5, RowKeeps DEF bookVars

\* What is asked of the book may still be decided; what Cloud does by itself is
\* not heard.
LEMMA OthersKeep ==
  ASSUME DeliveryInv, AskBook \/ CloudEnds \/ LeaseLapses \/ UNCHANGED vars
  PROVE  DeliveryInv'
<1>1. /\ TypeOK /\ BookTypeOK /\ Kinds /\ Journal /\ Story(cloud.heard) /\ Lanes /\ Answers
      /\ slip \in Slip /\ cloud \in Cloud /\ asking \in Answer
  BY DEF DeliveryInv, TypeOK
<1>2. /\ UNCHANGED bookVars /\ slip' = slip /\ cloud'.heard = cloud.heard /\ cloud' \in Cloud
      /\ \/ asking' = asking
         \/ Undecided /\ asking = "nothing" /\ asking' = "waiting"
  <2>1. /\ [cloud EXCEPT !.ended = TRUE] \in Cloud /\ [cloud EXCEPT !.ended = TRUE].heard = cloud.heard
        /\ \A n \in Nat : [cloud EXCEPT !.lease = n] \in Cloud /\ [cloud EXCEPT !.lease = n].heard = cloud.heard
    BY <1>1 DEF Cloud
  <2>2. cloud.lease + 1 \in Nat
    BY <1>1, SlipFields
  <2> QED BY <1>1, <2>1, <2>2 DEF AskBook, CloudEnds, LeaseLapses, vars, hookVars
<1>3. BookTypeOK' /\ Kinds' /\ Task' = Task /\ work' = work
  BY <1>1, <1>2, BookRests DEF bookVars
<1>4. Journal' /\ Story(cloud.heard)'
  BY <1>1, <1>2 DEF Journal, Follows, Story
<1>5. TypeOK'
  BY <1>1, <1>2, <1>3 DEF TypeOK, Answer
<1>6. Lanes'
  BY <1>1, <1>2, <1>3, LanesRest
<1>7. Answers'
  BY <1>1, <1>2, <1>3 DEF Answers, Settled, Undecided, Resting
<1> QED BY <1>3, <1>4, <1>5, <1>6, <1>7 DEF DeliveryInv

LEMMA DeliveryKept == DeliveryInv /\ [Next]_vars => DeliveryInv'
<1> SUFFICES ASSUME DeliveryInv, [Next]_vars PROVE DeliveryInv'
  OBVIOUS
<1>1. CASE \E d \in Daemon : BookStep(d) \/ Crash(d)
  BY <1>1, BookKeeps, CrashKeeps
<1>2. CASE PollerReads \/ World
  BY <1>2, ReadKeeps, WorldKeeps
<1>3. CASE Offer \/ QueueDurable \/ QueueUnbound \/ QueueAnswer \/ AnswerUnknown \/ QueueTerminal
  BY <1>3, OfferKeeps, DurableKeeps, UnboundKeeps, AnswerKeeps, UnknownKeeps, TerminalKeeps
<1>4. CASE SendReceipt \/ ReceiptRefused
  BY <1>4, SendKeeps, RefusedKeeps
<1>5. CASE AskBook \/ CloudEnds \/ LeaseLapses \/ UNCHANGED vars
  BY <1>5, OthersKeep
<1> QED BY <1>1, <1>2, <1>3, <1>4, <1>5 DEF Next

LEMMA DeliveryStarts == Init => DeliveryInv
<1> SUFFICES ASSUME Init PROVE DeliveryInv
  OBVIOUS
<1>1. BookTypeOK /\ \A d \in Daemon : work[d] = Free
  BY TypesStart DEF Init, BookInit
<1>2. Kinds /\ Lanes
  BY <1>1, FreeKind, FreeFits DEF Kinds, Lanes, LaneFits
<1>3. (CHOOSE r \in HookRun : TRUE) \in HookRun
  BY DeliveriesAssumption
<1>4. /\ slip.state = "none" /\ slip.sent = 0 /\ slip.acked = 0 /\ slip.pending = "nothing" /\ slip.run \in HookRun
      /\ cloud.heard = <<>> /\ asking = "nothing"
  BY <1>3 DEF Init
<1>5. slip \in Slip /\ cloud \in Cloud
  BY <1>3 DEF Init, Slip, Cloud
<1>6. Task = "none"
  <2>1. slip.run \in Run
    BY <1>4, SchedulesAssumption
  <2> QED BY <2>1, UnrunFits DEF Init, BookInit, Task
<1>7. Journal /\ Story(cloud.heard)
  BY <1>4 DEF Journal, Story, Receipt
<1>8. TypeOK /\ Answers
  BY <1>1, <1>4, <1>5, <1>6 DEF TypeOK, Answers, Answer
<1> QED BY <1>2, <1>7, <1>8 DEF DeliveryInv

\* Every reachable state of a delivery satisfies DeliveryInv, with any daemons on
\* the store, any tasks, presses, saves, crashes and lost answers.
THEOREM DeliveryHolds == Spec => []DeliveryInv
BY DeliveryStarts, DeliveryKept, PTL DEF Spec

\* Every variable of the delivery and of its schedule keeps its type.
THEOREM DeliveryTyped == Spec => []TypeOK
<1>1. DeliveryInv => TypeOK
  BY DEF DeliveryInv
<1> QED BY <1>1, DeliveryHolds, PTL

\* A delivery that Cloud ended before it had receipt 1 is never run, whatever was
\* asked, failed or restarted since it came (advance).
THEOREM EndedUnrun == Spec => []EndedNeverRuns
<1>1. DeliveryInv => EndedNeverRuns
  <2> SUFFICES ASSUME DeliveryInv, cloud.heard = <<>> PROVE Task = "none"
    BY DEF EndedNeverRuns, Task
  <2>1. slip.acked <= 0 /\ slip.acked \in Nat
    BY SlipFields DEF DeliveryInv, Journal
  <2> QED BY <2>1 DEF DeliveryInv, Answers
<1> QED BY <1>1, DeliveryHolds, PTL

\* Cloud hears one story: receipt 1 first, each receipt once, the end last, and
\* of an acceptance only when the task is there (queueAndAdvance, advance).
THEOREM StoryTold == Spec => []OneStory
<1>1. DeliveryInv => OneStory
  BY DEF DeliveryInv, OneStory, Story, Answers, Settled, Task
<1> QED BY <1>1, DeliveryHolds, PTL

-----------------------------------------------------------------------------
(* The schedule under its deliveries, which it is asked to run again and     *)
(* again: the book's own invariant does not mind how often it is asked.      *)

LEMMA BookStays ==
  ASSUME BookInv, UNCHANGED <<clock, row, runs, beat, work, wishes>>, Trouble \/ UNCHANGED troubles
  PROVE  BookInv'
<1>1. BookTypeOK'
  BY DEF BookInv, BookTypeOK, Trouble
<1>2. Ran' = Ran /\ Linked' = Linked
  BY DEF Ran, Linked
<1>3. \A w : KindFits(w)' <=> KindFits(w)'
  OBVIOUS
<1>4. \A d \in Daemon : (KindFits(work[d]) /\ RunsFit(work[d]) /\ CopyFits(work[d]))'
  <2> SUFFICES ASSUME NEW d \in Daemon PROVE (KindFits(work[d]) /\ RunsFit(work[d]) /\ CopyFits(work[d]))'
    OBVIOUS
  <2>1. KindFits(work[d]) /\ RunsFit(work[d]) /\ CopyFits(work[d])
    BY DEF BookInv
  <2>2. KindFits(work[d])'
    BY <2>1 DEF KindFits
  <2>3. RunsFit(work[d])'
    BY <1>2, <2>1 DEF RunsFit, NobodyStands, NobodyWorks, Stood
  <2>4. CopyFits(work[d])'
    BY <2>1 DEF CopyFits, Spent, Stood, StillNames, Once, Stale, LatestFire, IsLatest
  <2> QED BY <2>2, <2>3, <2>4
<1> QED BY <1>1, <1>2, <1>4 DEF BookInv, Spent, Stood

\* A step that starts a run is one of the book.
LEMMA BookOrRest ==
  ASSUME OneDaemon, DeliveryInv, BookInv, [Next]_vars
  PROVE  BookInv' /\ (BookNext \/ runs' = runs)
<1>1. ASSUME NEW d \in Daemon, BookStep(d) \/ Crash(d) PROVE BookNext
  BY <1>1, AnswerComes DEF LaneStep, Crash, BookNext, Asks
<1>2. CASE BookNext
  BY <1>2, SafeKept
<1>3. CASE World
  BY <1>2, <1>3 DEF World, BookNext
<1>4. CASE PollerReads
  <2>1. slip.run \in HookRun /\ Poller \in Daemon
    BY SlipFields, DeliveriesAssumption DEF DeliveryInv
  <2>2. CASE HookReads(Poller, slip.run) /\ UNCHANGED <<wishes, asking>>
    BY <2>1, <2>2, SafeHook DEF HookReads
  <2>3. CASE UNCHANGED bookVars
    BY <2>3, BookStays DEF bookVars
  <2> QED BY <1>4, <2>2, <2>3 DEF PollerReads
<1>5. CASE UNCHANGED <<clock, row, runs, beat, work, wishes>> /\ (Trouble \/ UNCHANGED troubles)
  BY <1>5, BookStays
<1>6. CASE \/ Offer \/ QueueDurable \/ QueueUnbound \/ AskBook \/ QueueAnswer \/ AnswerUnknown \/ QueueTerminal
           \/ SendReceipt \/ ReceiptRefused \/ CloudEnds \/ LeaseLapses \/ UNCHANGED vars
  BY <1>5, <1>6
  DEF Offer, QueueDurable, QueueUnbound, AskBook, QueueAnswer, AnswerUnknown, QueueTerminal, SendReceipt, ReceiptRefused,
      CloudEnds, LeaseLapses, vars, bookVars
<1> QED BY <1>1, <1>2, <1>3, <1>4, <1>6 DEF Next

LEMMA BookHolds == ASSUME OneDaemon PROVE Spec => [](DeliveryInv /\ BookInv)
<1>1. Init => DeliveryInv /\ BookInv
  BY DeliveryStarts, SafeStart DEF Init
<1>2. DeliveryInv /\ BookInv /\ [Next]_vars => (DeliveryInv /\ BookInv)'
  BY DeliveryKept, BookOrRest
<1> QED BY <1>1, <1>2, PTL DEF Spec

\* On one daemon a schedule keeps its promises to the clock and to who presses
\* while deliveries ask for it again and again: an occurrence is run once, one
\* child works at a time, only a run spends a date (runWebhook beside fireOne).
THEOREM PromisesKept == OneDaemon /\ Spec => []SpentIsRun /\ OccurrenceOnce /\ OneAtATime
<1> DEFINE AtMostOnce == \A r \in Run : Starts(r) /\ runs[r].how = "timer" => \A o \in Ran : runs[o].at < runs[r].fire
           Alone == \A r \in Run : Starts(r) /\ ~runs[r].forced => \A o \in Run : runs[o].state # "working"
<1> SUFFICES ASSUME OneDaemon PROVE Spec => []SpentIsRun /\ OccurrenceOnce /\ OneAtATime
  OBVIOUS
<1>1. BookInv => SpentIsRun
  BY DEF BookInv, SpentIsRun
<1>2. DeliveryInv /\ BookInv /\ [Next]_vars => [AtMostOnce]_bookVars /\ [Alone]_bookVars
  <2> SUFFICES ASSUME DeliveryInv, BookInv, [Next]_vars, NEW r \in Run, Starts(r)
               PROVE  /\ runs[r].how = "timer" => \A o \in Ran : runs[o].at < runs[r].fire
                      /\ ~runs[r].forced => \A o \in Run : runs[o].state # "working"
    OBVIOUS
  <2>1. BookNext
    BY BookOrRest DEF Starts
  <2>2. PICK d \in Daemon : work[d].pc = "ask" /\ work[d].run = r /\ RunsFit(work[d])
    BY <2>1, StartsAsked
  <2> QED BY <2>2 DEF RunsFit, NobodyStands, NobodyWorks, Starts
<1> QED BY <1>1, <1>2, BookHolds, PTL DEF Spec, OccurrenceOnce, OneAtATime
=============================================================================

---------------------------- MODULE Leases_proofs ----------------------------
(***************************************************************************)
(* IInv is an inductive invariant of Leases, for every set of askers, line *)
(* limit and bound; RestartAlone and LineWithinLimit are parts of it and   *)
(* ExclusiveWork follows from it.  Fairness and the bounds play no part.   *)
(***************************************************************************)
EXTENDS Leases, TLAPS, FiniteSetTheorems

(* What holds at the start. *)
LEMMA InitHolds == Init => IInv
<1> SUFFICES ASSUME Init PROVE IInv
  OBVIOUS
<1>1. TypeOK
  BY LeasesAssumption DEF Init, TypeOK, Call, NoCall
<1>2. LineWithinLimit
  <2>1. \A s \in Slot : Line(s) = {}
    BY DEF Init, Line
  <2> QED
    BY <2>1, FS_EmptySet, LeasesAssumption DEF LineWithinLimit
<1>3. RestartAlone
  BY DEF Init, RestartAlone, Slot
<1>4. WorkerHolds
  BY DEF Init, WorkerHolds, Works
<1>5. ReadingsStayTrue
  BY DEF Init, ReadingsStayTrue, NoCall
<1> QED
  BY <1>1, <1>2, <1>3, <1>4, <1>5 DEF IInv

(***************************************************************************)
(* Types.                                                                  *)
(***************************************************************************)
LEMMA TypeStep == TypeOK /\ [Next]_vars => TypeOK'
<1> SUFFICES ASSUME TypeOK, [Next]_vars PROVE TypeOK'
  OBVIOUS
<1> USE LeasesAssumption DEF TypeOK
<1>w. \A a \in Asker : Want[a] \in Slot
  OBVIOUS
<1>1. ASSUME NEW a \in Asker, NEW G \in Readings(Want[a]), Ask(a, G) PROVE TypeOK'
  BY <1>1 DEF Ask, Call, Readings, Knowable
<1>2. ASSUME NEW a \in Asker, AskRenews(a) PROVE TypeOK'
  BY <1>2, <1>w DEF AskRenews, Answered, Call, NoCall
<1>3. ASSUME NEW a \in Asker, AskRefused(a) PROVE TypeOK'
  BY <1>3 DEF AskRefused, Answered, Call, NoCall
<1>4. ASSUME NEW a \in Asker, AskGranted(a) PROVE TypeOK'
  <2> USE <1>4 DEF AskGranted
  <2>1. holder' \in [Slot -> Asker \cup {None}] /\ fresh' \in [Slot -> BOOLEAN]
    BY <1>w
  <2>2. waiting' \subseteq Asker
    BY DEF Dropped
  <2>3. age' \in [Asker -> {"asking", "silent", "forgotten"}]
    BY DEF Dropped
  <2>4. call' \in [Asker -> Call]
    BY DEF Answered, Call, NoCall
  <2>5. pc' \in [Asker -> {"out", "asking", "refused", "granted", "running", "ended", "gone"}]
    BY DEF Answered
  <2> QED
    BY <2>1, <2>2, <2>3, <2>4, <2>5
<1>5. ASSUME NEW a \in Asker, AskQueued(a) PROVE TypeOK'
  <2> USE <1>5 DEF AskQueued
  <2>1. holder' \in [Slot -> Asker \cup {None}]
    BY <1>w
  <2>2. fresh' \in [Slot -> BOOLEAN]
    <3>1. (fresh[Want[a]] /\ ~FreeFor(a)) \in BOOLEAN
      BY ZenonT(10)
    <3> QED
      BY <3>1
  <2>3. waiting' \subseteq Asker
    OBVIOUS
  <2>4. age' \in [Asker -> {"asking", "silent", "forgotten"}]
    OBVIOUS
  <2>5. call' \in [Asker -> Call]
    BY DEF Answered, Call, NoCall
  <2>6. pc' \in [Asker -> {"out", "asking", "refused", "granted", "running", "ended", "gone"}]
    BY DEF Answered
  <2>7. since' \in [Asker -> 0 .. MaxTick]
    <3>1. call[a].at \in 0 .. MaxTick
      BY DEF Call
    <3> QED
      BY <3>1
  <2> QED
    BY <2>1, <2>2, <2>3, <2>4, <2>5, <2>6, <2>7
<1>6. ASSUME NEW a \in Asker, AskLost(a) PROVE TypeOK'
  BY <1>6 DEF AskLost, Answered, Call, NoCall
<1>7. ASSUME NEW a \in Asker, Client(a) PROVE TypeOK'
  <2>1. CASE Renew(a) BY <2>1, <1>w DEF Renew
  <2>2. CASE Start(a) BY <2>2 DEF Start
  <2>3. CASE End(a) BY <2>3 DEF End
  <2>4. CASE Release(a) BY <2>4, <1>w DEF Release, Dropped
  <2>5. CASE Cancel(a) BY <2>5 DEF Cancel, Dropped
  <2> QED BY <1>7, <2>1, <2>2, <2>3, <2>4, <2>5 DEF Client
<1>8. ASSUME World PROVE TypeOK'
  <2>1. ASSUME NEW a \in Asker, Die(a) PROVE TypeOK' BY <2>1 DEF Die
  <2>2. ASSUME NEW a \in Asker, SessionTurns(a) PROVE TypeOK' BY <2>2 DEF SessionTurns
  <2>3. ASSUME NEW a \in Asker, WaiterAges(a) PROVE TypeOK' BY <2>3 DEF WaiterAges
  <2>4. ASSUME NEW s \in Slot, RenewalLapses(s) PROVE TypeOK' BY <2>4 DEF RenewalLapses
  <2>5. ASSUME NEW a \in Asker, AnswerMissed(a) PROVE TypeOK' BY <2>5 DEF AnswerMissed
  <2>6. CASE Tick BY <2>6 DEF Tick
  <2> QED BY <1>8, <2>1, <2>2, <2>3, <2>4, <2>5, <2>6 DEF World
<1>9. CASE UNCHANGED vars
  BY <1>9 DEF vars
<1> QED
  BY <1>1, <1>2, <1>3, <1>4, <1>5, <1>6, <1>7, <1>8, <1>9 DEF Next, Acquire

(***************************************************************************)
(* The line.                                                               *)
(***************************************************************************)

(* A set that leaves the line takes nobody else with it. *)
LEMMA ShorterLine ==
  ASSUME TypeOK, LineWithinLimit, waiting' \subseteq waiting
  PROVE  LineWithinLimit'
<1> SUFFICES ASSUME NEW s \in Slot PROVE Cardinality(Line(s)') <= LineLimit
  BY DEF LineWithinLimit, Line
<1>1. Line(s)' \subseteq Line(s) /\ Line(s) \subseteq Asker
  BY DEF Line, TypeOK
<1>2. IsFiniteSet(Line(s)) /\ IsFiniteSet(Line(s)')
  BY <1>1, FS_Subset, LeasesAssumption
<1>3. Cardinality(Line(s)') <= Cardinality(Line(s))
  BY <1>1, <1>2, FS_Subset
<1>4. Cardinality(Line(s)) \in Nat /\ Cardinality(Line(s)') \in Nat
  BY <1>2, FS_CardinalityType
<1> QED
  BY <1>3, <1>4, LeasesAssumption DEF LineWithinLimit

(* Only a queued asker joins a line, and only one that had room. *)
LEMMA QueuedLine ==
  ASSUME TypeOK, LineWithinLimit, NEW a \in Asker, AskQueued(a)
  PROVE  LineWithinLimit'
<1> SUFFICES ASSUME NEW s \in Slot PROVE Cardinality(Line(s)') <= LineLimit
  BY DEF LineWithinLimit, Line
<1> DEFINE K == Kept(a)
<1>1. /\ Line(s) \subseteq Asker /\ K \subseteq Line(Want[a]) /\ Line(Want[a]) \subseteq Asker
      /\ Want[a] \in Slot
  BY LeasesAssumption DEF Line, TypeOK, Kept
<1>2. IsFiniteSet(Line(s)) /\ IsFiniteSet(K) /\ IsFiniteSet(Line(Want[a]))
  BY <1>1, FS_Subset, LeasesAssumption
<1>3. CASE s # Want[a]
  <2>1. Line(s)' = Line(s)
    BY <1>3 DEF AskQueued, Gone, Line
  <2> QED
    BY <2>1 DEF LineWithinLimit
<1>4. CASE s = Want[a]
  <2>1. Line(s)' = K \cup {a}
    BY <1>4 DEF AskQueued, Gone, Line, Kept, TypeOK
  <2>2. CASE a \in waiting
    <3>1. a \in K
      BY <2>2 DEF Kept, Line
    <3>2. Line(s)' = K
      BY <2>1, <3>1
    <3>3. Cardinality(K) <= Cardinality(Line(Want[a]))
      BY <1>1, <1>2, FS_Subset
    <3>4. Cardinality(K) \in Nat /\ Cardinality(Line(Want[a])) \in Nat
      BY <1>2, FS_CardinalityType
    <3> QED
      BY <1>1, <3>2, <3>3, <3>4, LeasesAssumption DEF LineWithinLimit
  <2>3. CASE a \notin waiting
    <3>1. a \notin K
      BY <2>3 DEF Kept, Line
    <3>2. Cardinality(K \cup {a}) = Cardinality(K) + 1
      BY <1>2, <3>1, FS_AddElement
    <3>3. ~(Cardinality(K) >= LineLimit)
      BY <2>3 DEF AskQueued, LineFull
    <3>4. Cardinality(K) \in Nat
      BY <1>2, FS_CardinalityType
    <3> HIDE DEF K
    <3> QED
      BY <2>1, <3>2, <3>3, <3>4, LeasesAssumption
  <2> QED BY <2>2, <2>3
<1> QED BY <1>3, <1>4

LEMMA LineStep == TypeOK /\ LineWithinLimit /\ [Next]_vars => LineWithinLimit'
<1> SUFFICES ASSUME TypeOK, LineWithinLimit, [Next]_vars PROVE LineWithinLimit'
  OBVIOUS
<1>1. ASSUME NEW a \in Asker, Acquire(a), ~AskQueued(a) PROVE waiting' \subseteq waiting
  BY <1>1 DEF Acquire, Ask, AskRenews, AskRefused, AskGranted, AskLost, Dropped
<1>2. ASSUME NEW a \in Asker, Client(a) PROVE waiting' \subseteq waiting
  BY <1>2 DEF Client, Renew, Start, End, Release, Cancel, Dropped
<1>3. ASSUME World PROVE waiting' \subseteq waiting
  BY <1>3 DEF World, Die, AnswerMissed, SessionTurns, WaiterAges, RenewalLapses, Tick
<1>4. CASE UNCHANGED vars
  BY <1>4, ShorterLine DEF vars
<1> QED
  BY <1>1, <1>2, <1>3, <1>4, ShorterLine, QueuedLine DEF Next

(***************************************************************************)
(* The holders.                                                            *)
(***************************************************************************)

(* A process that is gone stays gone. *)
LEMMA GoneStays ==
  ASSUME TypeOK, [Next]_vars, NEW g \in Asker, pc[g] = "gone"
  PROVE  pc'[g] = "gone"
<1> USE DEF TypeOK
<1>1. ASSUME NEW a \in Asker, Acquire(a) PROVE pc'[g] = "gone"
  BY <1>1 DEF Acquire, Ask, AskRenews, AskRefused, AskGranted, AskQueued, AskLost, Answered
<1>2. ASSUME NEW a \in Asker, Client(a) PROVE pc'[g] = "gone"
  BY <1>2 DEF Client, Renew, Start, End, Release, Cancel
<1>3. ASSUME World PROVE pc'[g] = "gone"
  BY <1>3 DEF World, Die, AnswerMissed, SessionTurns, WaiterAges, RenewalLapses, Tick
<1> QED
  BY <1>1, <1>2, <1>3 DEF Next, vars

(* A reading names nobody gone whose named process is there. *)
LEMMA ReadingTrue ==
  ASSUME NEW s \in Slot, NEW G \in Readings(s), NEW g \in G, "pid" \in Naming[g]
  PROVE  pc[g] = "gone"
BY DEF Readings, Knowable, HolderGone, WaiterGone, Shown

LEMMA ReadingsStep == TypeOK /\ ReadingsStayTrue /\ [Next]_vars => ReadingsStayTrue'
<1> SUFFICES ASSUME TypeOK, ReadingsStayTrue, [Next]_vars,
                    NEW a \in Asker, NEW g \in call'[a].gone, "pid" \in Naming[g]
             PROVE  pc'[g] = "gone"
  BY DEF ReadingsStayTrue
<1>1. CASE g \in call[a].gone
  <2>1. g \in Asker /\ pc[g] = "gone"
    BY <1>1 DEF ReadingsStayTrue, TypeOK, Call
  <2> QED
    BY <2>1, GoneStays
<1>2. ASSUME NEW G \in Readings(Want[a]), Ask(a, G) PROVE pc'[g] = "gone"
  <2>1. g \in G /\ Want[a] \in Slot
    BY <1>2, LeasesAssumption DEF Ask, TypeOK
  <2>2. g \in Asker /\ pc[g] = "gone"
    BY <2>1, ReadingTrue DEF Readings, Knowable
  <2> QED
    BY <2>2, GoneStays
<1>3. CASE g \notin call[a].gone /\ ~\E G \in Readings(Want[a]) : Ask(a, G)
  <2>1. ASSUME NEW b \in Asker, Acquire(b) PROVE FALSE
    BY <1>3, <2>1 DEF Acquire, Ask, AskRenews, AskRefused, AskGranted, AskQueued, AskLost,
                      Answered, TypeOK, NoCall
  <2>2. ASSUME NEW b \in Asker, Client(b) PROVE FALSE
    BY <1>3, <2>2 DEF Client, Renew, Start, End, Release, Cancel
  <2>3. ASSUME World PROVE FALSE
    BY <1>3, <2>3 DEF World, Die, AnswerMissed, SessionTurns, WaiterAges, RenewalLapses, Tick
  <2> QED
    BY <1>3, <2>1, <2>2, <2>3 DEF Next, vars
<1> QED
  BY <1>1, <1>2, <1>3

(* A wrapper that named its process keeps the slot it believes it has.     *)
(* Only a grant to somebody else or a release by somebody else could take  *)
(* it: the first needs a reading that found it gone, which is true of      *)
(* nobody who works; the second clears only the caller's own lease.        *)
LEMMA WorkerStep ==
  TypeOK /\ WorkerHolds /\ ReadingsStayTrue /\ [Next]_vars => WorkerHolds'
<1> SUFFICES ASSUME TypeOK, WorkerHolds, ReadingsStayTrue, [Next]_vars,
                    NEW b \in Asker, Works(b)', "pid" \in Naming[b]
             PROVE  holder'[Want[b]] = b
  BY DEF WorkerHolds
<1> USE DEF TypeOK, Works
<1>w. \A a \in Asker : Want[a] \in Slot
  BY LeasesAssumption
<1>g. ASSUME NEW a \in Asker, FreeFor(a), Works(b), Want[a] = Want[b] PROVE FALSE
  <2>1. holder[Want[b]] = b
    BY <1>g DEF WorkerHolds
  <2>2. b \in call[a].gone
    BY <1>g, <2>1, LeasesAssumption DEF FreeFor
  <2> QED
    BY <1>g, <2>2 DEF ReadingsStayTrue
<1>1. ASSUME NEW a \in Asker, NEW G \in Readings(Want[a]), Ask(a, G) PROVE holder'[Want[b]] = b
  BY <1>1 DEF Ask, WorkerHolds
<1>2. ASSUME NEW a \in Asker, AskRenews(a) PROVE holder'[Want[b]] = b
  BY <1>2 DEF AskRenews, Answered, WorkerHolds
<1>3. ASSUME NEW a \in Asker, AskRefused(a) \/ AskLost(a) PROVE holder'[Want[b]] = b
  BY <1>3 DEF AskRefused, AskLost, Answered, WorkerHolds
<1>4. ASSUME NEW a \in Asker, AskGranted(a) PROVE holder'[Want[b]] = b
  <2>1. CASE b = a
    BY <1>4, <2>1, <1>w DEF AskGranted
  <2>2. CASE b # a
    <3>1. Works(b)
      BY <1>4, <2>2 DEF AskGranted, Answered
    <3>2. Want[a] # Want[b]
      BY <1>4, <3>1, <1>g DEF AskGranted
    <3> QED
      BY <1>4, <3>1, <3>2, <1>w DEF AskGranted, WorkerHolds
  <2> QED BY <2>1, <2>2
<1>5. ASSUME NEW a \in Asker, AskQueued(a) PROVE holder'[Want[b]] = b
  <2>1. b # a /\ Works(b)
    BY <1>5 DEF AskQueued, Answered
  <2>2. holder[Want[b]] = b
    BY <2>1 DEF WorkerHolds
  <2>3. FreeFor(a) => Want[a] # Want[b]
    BY <2>1, <1>g
  <2> QED
    BY <1>5, <2>2, <2>3, <1>w DEF AskQueued
<1>6. ASSUME NEW a \in Asker, Client(a) PROVE holder'[Want[b]] = b
  <2>1. CASE Renew(a) BY <2>1 DEF Renew, WorkerHolds
  <2>2. CASE Start(a) BY <2>2 DEF Start, WorkerHolds
  <2>3. CASE End(a) BY <2>3 DEF End, WorkerHolds
  <2>4. CASE Release(a)
    <3>1. b # a /\ Works(b)
      BY <2>4 DEF Release
    <3>2. holder[Want[b]] = b
      BY <3>1 DEF WorkerHolds
    <3> QED BY <2>4, <3>1, <3>2, <1>w DEF Release
  <2>5. CASE Cancel(a) BY <2>5 DEF Cancel, WorkerHolds
  <2> QED BY <1>6, <2>1, <2>2, <2>3, <2>4, <2>5 DEF Client
<1>7. ASSUME World PROVE holder'[Want[b]] = b
  BY <1>7 DEF World, Die, AnswerMissed, SessionTurns, WaiterAges, RenewalLapses, Tick, WorkerHolds
<1>8. CASE UNCHANGED vars
  BY <1>8 DEF vars, WorkerHolds
<1> QED
  BY <1>1, <1>2, <1>3, <1>4, <1>5, <1>6, <1>7, <1>8 DEF Next, Acquire

(* Only a grant fills a slot, and it looks at the blockers first. *)
LEMMA AloneStep == TypeOK /\ RestartAlone /\ [Next]_vars => RestartAlone'
<1> SUFFICES ASSUME TypeOK, RestartAlone, [Next]_vars, NEW s \in Slot \ {Restart}
             PROVE  holder'[Restart] = None \/ holder'[s] = None
  BY DEF RestartAlone
<1> USE DEF TypeOK
<1>w. /\ \A a \in Asker : Want[a] \in Slot
      /\ Restart \in Slot
  BY LeasesAssumption DEF Slot
<1>1. ASSUME NEW a \in Asker, AskGranted(a) PROVE holder'[Restart] = None \/ holder'[s] = None
  <2>1. \A b \in Slot : b # Want[a] /\ Restart \in {Want[a], b} => holder[b] = None
    BY <1>1 DEF AskGranted, Blockers
  <2>2. CASE Want[a] = Restart
    BY <1>1, <2>1, <2>2, <1>w DEF AskGranted
  <2>3. CASE Want[a] # Restart
    BY <1>1, <2>1, <2>3, <1>w DEF AskGranted
  <2> QED BY <2>2, <2>3
<1>2. ASSUME NEW a \in Asker, Acquire(a), ~AskGranted(a)
      PROVE  holder'[Restart] = None \/ holder'[s] = None
  BY <1>2, <1>w DEF Acquire, Ask, AskRenews, AskRefused, AskQueued, AskLost, RestartAlone
<1>3. ASSUME NEW a \in Asker, Client(a) PROVE holder'[Restart] = None \/ holder'[s] = None
  BY <1>3, <1>w DEF Client, Renew, Start, End, Release, Cancel, RestartAlone
<1>4. ASSUME World PROVE holder'[Restart] = None \/ holder'[s] = None
  BY <1>4 DEF World, Die, AnswerMissed, SessionTurns, WaiterAges, RenewalLapses, Tick, RestartAlone
<1>5. CASE UNCHANGED vars
  BY <1>5 DEF vars, RestartAlone
<1> QED
  BY <1>1, <1>2, <1>3, <1>4, <1>5 DEF Next

(***************************************************************************)
(* The theorems.                                                           *)
(***************************************************************************)

(* IInv holds in every reachable state. *)
THEOREM Inductive == Spec => []IInv
<1>1. Init => IInv
  BY InitHolds
<1>2. IInv /\ [Next]_vars => IInv'
  BY TypeStep, LineStep, ReadingsStep, WorkerStep, AloneStep DEF IInv
<1> QED
  BY <1>1, <1>2, PTL DEF Spec

(* No line of waiters grows past the register's limit. *)
THEOREM LinesBounded == Spec => []LineWithinLimit
<1>1. IInv => LineWithinLimit
  BY DEF IInv
<1> QED
  BY <1>1, Inductive, PTL

(* The restart lease and any other are never held together. *)
THEOREM RestartExcludes == Spec => []RestartAlone
<1>1. IInv => RestartAlone
  BY DEF IInv
<1> QED
  BY <1>1, Inductive, PTL

(* Commands under conflicting leases never overlap, when their wrappers    *)
(* named their process: each holds its own slot, and conflicting slots are *)
(* either one slot, with one holder, or the restart slot and another.      *)
THEOREM WorkIsExclusive == Spec => []ExclusiveWork
<1>1. IInv => ExclusiveWork
  <2> SUFFICES ASSUME IInv, NEW a \in Asker, NEW b \in Asker,
                      a # b, Works(a), Works(b), "pid" \in Naming[a], "pid" \in Naming[b],
                      Conflict(Want[a], Want[b])
               PROVE  FALSE
    BY DEF ExclusiveWork
  <2>1. holder[Want[a]] = a /\ holder[Want[b]] = b
    BY DEF IInv, WorkerHolds
  <2>2. Want[a] \in Slot /\ Want[b] \in Slot /\ a # None /\ b # None
    BY LeasesAssumption
  <2>3. Want[a] # Want[b]
    BY <2>1
  <2>4. CASE Want[a] = Restart
    BY <2>1, <2>2, <2>3, <2>4 DEF IInv, RestartAlone
  <2>5. CASE Want[b] = Restart
    BY <2>1, <2>2, <2>3, <2>5 DEF IInv, RestartAlone
  <2> QED
    BY <2>3, <2>4, <2>5 DEF Conflict
<1> QED
  BY <1>1, Inductive, PTL
=============================================================================

------------------------------- MODULE Leases -------------------------------
(***************************************************************************)
(* The broker's leases: one holder per resource, a line of waiters behind  *)
(* it, and a clock on the proof of life instead of on the work.            *)
(*                                                                         *)
(* An asker is one request id and the process that sends it: `clawdline    *)
(* coordination run`, the strict client of these routes, or one that asks  *)
(* again where that one exits.  It asks until it is granted, runs its      *)
(* command, renews meanwhile, and releases.  A request is two steps of the *)
(* daemon: the proofs of life are read outside the write right             *)
(* (leaseProofs), then one transaction decides (DecideLease).  Anything    *)
(* may happen in between, and a request already in the daemon outlives the *)
(* process that sent it.                                                   *)
(*                                                                         *)
(* The lapse of a renewal (60 s), the silence of a waiter (120 s) and its  *)
(* being forgotten (30 min) are nondeterministic steps; `now` is there     *)
(* only to order the line by requested_at, whose resolution is a second.   *)
(***************************************************************************)
EXTENDS Naturals, FiniteSets

CONSTANTS
  Asker,      \* request ids, as numbers: their order breaks ties in the line
  Compile,    \* the slot of heavy_compile
  Restart,    \* the slot of daemon_restart
  Checkout,   \* the slots of landing, one per checkout
  Want,       \* the slot each asker asks for
  Naming,     \* the proofs of life each asker names: its pid, its session
  LineLimit,  \* leaseLine: waiters one lease keeps
  MaxTick,    \* bound: seconds that pass
  MaxStalls,  \* bound: how often a live client is late or misses an answer
  None        \* no asker

Slot  == {Compile, Restart} \cup Checkout
Proof == {"pid", "session"}

ASSUME LeasesAssumption ==
  /\ Asker \subseteq Nat /\ IsFiniteSet(Asker) /\ None \notin Asker
  /\ Compile # Restart /\ {Compile, Restart} \cap Checkout = {}
  /\ Want \in [Asker -> Slot]
  /\ Naming \in [Asker -> SUBSET Proof]
  /\ LineLimit \in Nat \ {0} /\ MaxTick \in Nat /\ MaxStalls \in Nat

VARIABLES
  holder,   \* leases: who holds each slot
  fresh,    \* whether its last renewal is within leaseRenewal
  waiting,  \* lease_waiters: who is in the line of the slot it wants
  since,    \* requested_at of each waiter
  age,      \* how long ago a waiter last asked, as Acquire tells it apart
  call,     \* the request of each asker that is in the daemon
  pc,       \* where each asker's process is
  session,  \* whether a complete reading shows the asker's session
  now,      \* the clock, in seconds
  stalls    \* how often a live client was late or missed an answer

vars == <<holder, fresh, waiting, since, age, call, pc, session, now, stalls>>

Call   == [sent : BOOLEAN, gone : SUBSET Asker, at : 0 .. MaxTick]
NoCall == [sent |-> FALSE, gone |-> {}, at |-> 0]

Line(s) == {a \in waiting : Want[a] = s}

TypeOK ==
  /\ holder \in [Slot -> Asker \cup {None}]
  /\ fresh \in [Slot -> BOOLEAN]
  /\ waiting \subseteq Asker
  /\ since \in [Asker -> 0 .. MaxTick]
  /\ age \in [Asker -> {"asking", "silent", "forgotten"}]
  /\ call \in [Asker -> Call]
  /\ pc \in [Asker -> {"out", "asking", "refused", "granted", "running", "ended", "gone"}]
  /\ session \in [Asker -> BOOLEAN]
  /\ now \in 0 .. MaxTick
  /\ stalls \in 0 .. MaxStalls

Init ==
  /\ holder = [s \in Slot |-> None]
  /\ fresh = [s \in Slot |-> FALSE]
  /\ waiting = {}
  /\ since = [a \in Asker |-> 0]
  /\ age = [a \in Asker |-> "asking"]
  /\ call = [a \in Asker |-> NoCall]
  /\ pc = [a \in Asker |-> "out"]
  /\ session = [a \in Asker |-> TRUE]
  /\ now = 0
  /\ stalls = 0

-----------------------------------------------------------------------------
(* Proofs of life.                                                         *)

(* The holder's own named proofs, any of which keeps the lease alive.      *)
Shown(h) == {p \in Naming[h] : IF p = "pid" THEN pc[h] # "gone" ELSE session[h]}

(* livenessOf answering gone, every reading having been possible.          *)
HolderGone(s) == holder[s] # None /\ ~fresh[s] /\ Shown(holder[s]) = {}

(* A waiter is judged by its process alone.                                *)
WaiterGone(a) == a \in waiting /\ "pid" \in Naming[a] /\ pc[a] = "gone"

Knowable(s) == {a \in Asker : \/ a = holder[s] /\ HolderGone(s)
                              \/ Want[a] = s /\ WaiterGone(a)}

(* leaseProofs: what one reading finds gone.  A process or a session the   *)
(* system does not answer about is unknown, so the reading may miss any of *)
(* them; a holder that named no proof has nothing to be unknown about.     *)
Readings(s) ==
  {G \in SUBSET Knowable(s) : \A a \in Knowable(s) \ G : Naming[a] # {}}

-----------------------------------------------------------------------------
(* The line.                                                               *)

(* ORDER BY requested_at, request_id.                                      *)
Before(w, a) == since[w] < since[a] \/ (since[w] = since[a] /\ w < a)

(* Mutant: only daemon_restart waits for the others.                       *)
BlockersOfRestart(s) ==
  {b \in Slot : s = Restart /\ b # Restart /\ holder[b] # None}

(* The leases that must not overlap this one, whoever holds them.          *)
Blockers(s) ==
  {b \in Slot : holder[b] # None /\ b # s /\ Restart \in {s, b}}

(* Mutant: a waiter is dropped only on a proof that its process is gone.   *)
KeptForEver(a) == {w \in Line(Want[a]) : w = a \/ w \notin call[a].gone}

(* The waiters a decision for `a` keeps.                                   *)
Kept(a) ==
  {w \in Line(Want[a]) : w = a \/ (w \notin call[a].gone /\ age[w] # "forgotten")}

(* Who is ahead of `a`: the kept waiters that are still asking.  A new     *)
(* asker is last.                                                          *)
Ahead(a) ==
  {w \in Kept(a) \ {a} : age[w] = "asking" /\ (a \in waiting => Before(w, a))}

(* Mutants: the verdict on one holder is applied to whoever holds now; the *)
(* line takes one too many.                                                *)
FreeForByOldVerdict(a) == holder[Want[a]] = None \/ call[a].gone # {}
LineFullLate(a) == a \notin waiting /\ Cardinality(Kept(a)) > LineLimit

FreeFor(a)  == holder[Want[a]] \in {None} \cup call[a].gone
LineFull(a) == a \notin waiting /\ Cardinality(Kept(a)) >= LineLimit

-----------------------------------------------------------------------------
(* Asking.                                                                 *)

(* The request enters the daemon, which reads the clock and the proofs.    *)
Ask(a, G) ==
  /\ pc[a] \in {"out", "asking", "refused"} /\ ~call[a].sent
  /\ call' = [call EXCEPT ![a] = [sent |-> TRUE, gone |-> G, at |-> now]]
  /\ pc' = [pc EXCEPT ![a] = "asking"]
  /\ UNCHANGED <<holder, fresh, waiting, since, age, session, now, stalls>>

(* The answer reaches the process that asked, if it is still there.        *)
Answered(a, state) ==
  /\ call' = [call EXCEPT ![a] = NoCall]
  /\ pc' = [pc EXCEPT ![a] = IF @ = "gone" THEN @ ELSE state]

(* Waiters that leave the line.                                            *)
Dropped(D) ==
  /\ waiting' = waiting \ D
  /\ age' = [w \in Asker |-> IF w \in D THEN "asking" ELSE age[w]]

Gone(a) == Line(Want[a]) \ (Kept(a) \cup {a})

(* The holder asking again renews.                                         *)
AskRenews(a) ==
  /\ call[a].sent /\ holder[Want[a]] = a
  /\ fresh' = [fresh EXCEPT ![Want[a]] = TRUE]
  /\ Answered(a, "granted")
  /\ UNCHANGED <<holder, waiting, since, age, session, now, stalls>>

(* 429 queue_full: the rest of the change is thrown away with it, the      *)
(* clearing of a gone holder included.                                     *)
AskRefused(a) ==
  /\ call[a].sent /\ holder[Want[a]] # a /\ LineFull(a)
  /\ Answered(a, "refused")
  /\ UNCHANGED <<holder, fresh, waiting, since, age, session, now, stalls>>

AskGranted(a) ==
  /\ call[a].sent /\ holder[Want[a]] # a /\ ~LineFull(a)
  /\ FreeFor(a) /\ Blockers(Want[a]) = {} /\ Ahead(a) = {}
  /\ holder' = [holder EXCEPT ![Want[a]] = a]
  /\ fresh' = [fresh EXCEPT ![Want[a]] = TRUE]
  /\ Dropped(Gone(a) \cup {a})
  /\ Answered(a, "granted")
  /\ UNCHANGED <<since, session, now, stalls>>

AskQueued(a) ==
  /\ call[a].sent /\ holder[Want[a]] # a /\ ~LineFull(a)
  /\ ~(FreeFor(a) /\ Blockers(Want[a]) = {} /\ Ahead(a) = {})
  /\ holder' = [holder EXCEPT ![Want[a]] = IF FreeFor(a) THEN None ELSE @]
  /\ fresh' = [fresh EXCEPT ![Want[a]] = @ /\ ~FreeFor(a)]
  /\ waiting' = (waiting \ Gone(a)) \cup {a}
  /\ age' = [w \in Asker |-> IF w \in Gone(a) \cup {a} THEN "asking" ELSE age[w]]
  /\ since' = [since EXCEPT ![a] = IF a \in waiting THEN @ ELSE call[a].at]
  /\ Answered(a, "asking")
  /\ UNCHANGED <<session, now, stalls>>

(* The store refuses or the daemon stops: nothing is written, and a client *)
(* that hears of it gives up.                                              *)
AskLost(a) ==
  /\ call[a].sent
  /\ Answered(a, "gone")
  /\ UNCHANGED <<holder, fresh, waiting, since, age, session, now, stalls>>

-----------------------------------------------------------------------------
(* Holding.                                                                *)

(* A renewal by anybody but the holder is refused and changes nothing.     *)
Renew(a) ==
  /\ pc[a] \in {"granted", "running"} /\ holder[Want[a]] = a
  /\ fresh' = [fresh EXCEPT ![Want[a]] = TRUE]
  /\ UNCHANGED <<holder, waiting, since, age, call, pc, session, now, stalls>>

Start(a) ==
  /\ pc[a] = "granted"
  /\ pc' = [pc EXCEPT ![a] = "running"]
  /\ UNCHANGED <<holder, fresh, waiting, since, age, call, session, now, stalls>>

End(a) ==
  /\ pc[a] = "running"
  /\ pc' = [pc EXCEPT ![a] = "ended"]
  /\ UNCHANGED <<holder, fresh, waiting, since, age, call, session, now, stalls>>

(* Release, by which the asker's process also ends.  Under somebody else's *)
(* lease it takes the caller out of the line; when nothing is held it      *)
(* leaves the line alone.                                                  *)
Release(a) ==
  LET s == Want[a] IN
  /\ pc[a] \in {"asking", "ended"} /\ ~call[a].sent
  /\ holder' = [holder EXCEPT ![s] = IF @ = a THEN None ELSE @]
  /\ fresh' = [fresh EXCEPT ![s] = @ /\ holder[s] # a]
  /\ Dropped(IF holder[s] \in {None, a} THEN {} ELSE {a})
  /\ pc' = [pc EXCEPT ![a] = "gone"]
  /\ UNCHANGED <<since, call, session, now, stalls>>

(* The wait for a grant ended: the asker leaves the line and exits.        *)
Cancel(a) ==
  /\ pc[a] \in {"asking", "refused"} /\ ~call[a].sent
  /\ Dropped({a})
  /\ pc' = [pc EXCEPT ![a] = "gone"]
  /\ UNCHANGED <<holder, fresh, since, call, session, now, stalls>>

-----------------------------------------------------------------------------
(* The world.                                                              *)

(* The asker's process stops, at any point and whatever it holds.          *)
Die(a) ==
  /\ pc[a] \notin {"out", "gone"}
  /\ pc' = [pc EXCEPT ![a] = "gone"]
  /\ UNCHANGED <<holder, fresh, waiting, since, age, call, session, now, stalls>>

(* The answer of a grant is lost on its way, and its process asks again.   *)
AnswerMissed(a) ==
  /\ pc[a] = "granted" /\ stalls < MaxStalls
  /\ pc' = [pc EXCEPT ![a] = "asking"]
  /\ stalls' = stalls + 1
  /\ UNCHANGED <<holder, fresh, waiting, since, age, call, session, now>>

(* The session an asker named ends, or is resumed.                         *)
SessionTurns(a) ==
  /\ "session" \in Naming[a] /\ pc[a] # "out"
  /\ session' = [session EXCEPT ![a] = ~@]
  /\ UNCHANGED <<holder, fresh, waiting, since, age, call, pc, now, stalls>>

RenewalLapses(s) ==
  /\ fresh[s]
  /\ fresh' = [fresh EXCEPT ![s] = FALSE]
  /\ UNCHANGED <<holder, waiting, since, age, call, pc, session, now, stalls>>

(* A waiter does not ask for two minutes, then not for half an hour: its   *)
(* process is gone, or stopped for so long.                                *)
WaiterAges(a) ==
  /\ a \in waiting /\ age[a] # "forgotten"
  /\ age' = [age EXCEPT ![a] = IF @ = "asking" THEN "silent" ELSE "forgotten"]
  /\ \/ pc[a] = "gone" /\ UNCHANGED stalls
     \/ pc[a] # "gone" /\ stalls < MaxStalls /\ stalls' = stalls + 1
  /\ UNCHANGED <<holder, fresh, waiting, since, call, pc, session, now>>

Tick ==
  /\ now < MaxTick /\ now' = now + 1
  /\ UNCHANGED <<holder, fresh, waiting, since, age, call, pc, session, stalls>>

Acquire(a) ==
  \/ \E G \in Readings(Want[a]) : Ask(a, G)
  \/ AskRenews(a) \/ AskRefused(a) \/ AskGranted(a) \/ AskQueued(a) \/ AskLost(a)

Client(a) == Renew(a) \/ Start(a) \/ End(a) \/ Release(a) \/ Cancel(a)

World ==
  \/ \E a \in Asker : Die(a) \/ AnswerMissed(a) \/ SessionTurns(a) \/ WaiterAges(a)
  \/ \E s \in Slot : RenewalLapses(s)
  \/ Tick

Next == (\E a \in Asker : Acquire(a) \/ Client(a)) \/ World

Spec == Init /\ [][Next]_vars

(***************************************************************************)
(* Fairness.  A client that waits asks again every five seconds, and a     *)
(* process table that could not be read once is read the next time; the    *)
(* daemon answers; a command ends and its wrapper releases; the minute of  *)
(* a dead holder's renewal and the half hour of a dead waiter pass.        *)
(***************************************************************************)
AskKnowing(a) == pc[a] # "out" /\ Ask(a, Knowable(Want[a]))

Decide(a) == AskRenews(a) \/ AskRefused(a) \/ AskGranted(a) \/ AskQueued(a)

ClockOf(a) ==
  /\ pc[a] = "gone"
  /\ WaiterAges(a) \/ (holder[Want[a]] = a /\ RenewalLapses(Want[a]))

Fairness ==
  \A a \in Asker :
    /\ SF_vars(AskKnowing(a))
    /\ WF_vars(Decide(a))
    /\ WF_vars(Start(a)) /\ WF_vars(End(a))
    /\ WF_vars(pc[a] = "ended" /\ Release(a))
    /\ WF_vars(ClockOf(a))

FairSpec == Spec /\ Fairness

-----------------------------------------------------------------------------
(* Properties.                                                             *)

(* A daemon restart never overlaps another lease: the restart lease is     *)
(* granted only over free slots, and no slot while it is held, although    *)
(* each is decided by its own transaction (docs/                           *)
(* session-resource-coordination.md: exclusive with compile, landing and   *)
(* other restart leases).                                                  *)
RestartAlone ==
  \A s \in Slot \ {Restart} : holder[Restart] = None \/ holder[s] = None

(* No line grows past its limit, whatever asks arrive together: the limit  *)
(* counts the waiters one decision keeps, not those the table holds.       *)
LineWithinLimit == \A s \in Slot : Cardinality(Line(s)) <= LineLimit

Works(a)       == pc[a] \in {"granted", "running"}
Conflict(s, t) == s = t \/ Restart \in {s, t}

(* Two commands that were granted conflicting leases never run together,   *)
(* however late a proof of life is used, as long as their wrappers named   *)
(* their process: an ask that read a holder as gone decides only about     *)
(* that holder, and a process that is there is never read as gone.         *)
ExclusiveWork ==
  \A a, b \in Asker :
    (/\ a # b /\ Works(a) /\ Works(b)
     /\ "pid" \in Naming[a] /\ "pid" \in Naming[b])
      => ~Conflict(Want[a], Want[b])

(* What makes ExclusiveWork inductive.  A wrapper that named its process   *)
(* and believes it was granted holds its slot; and whoever a request in    *)
(* the daemon read as gone by its process stays gone.                      *)
WorkerHolds ==
  \A a \in Asker : Works(a) /\ "pid" \in Naming[a] => holder[Want[a]] = a

ReadingsStayTrue ==
  \A a \in Asker : \A g \in call[a].gone : "pid" \in Naming[g] => pc[g] = "gone"

(* The invariant of Leases_proofs: every part is kept by every step.       *)
IInv == TypeOK /\ LineWithinLimit /\ RestartAlone /\ WorkerHolds /\ ReadingsStayTrue

(* An asker that keeps asking is not left in line for ever by holders and  *)
(* waiters that died: it gets the lease, or gives up.                      *)
Served == \A a \in Asker : pc[a] = "asking" ~> pc[a] \in {"granted", "gone"}
=============================================================================

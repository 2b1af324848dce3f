----------------------------- MODULE CloudSpool -----------------------------
(***************************************************************************)
(* What the machine owes the cloud relay: the outbound spool, the sockets  *)
(* that drain it, the content key its rows are sealed under and the        *)
(* revocation of a viewer, which moves that key.                           *)
(*                                                                         *)
(* The spool is one table of rows under one mutex, numbered by a           *)
(* SequenceFence that is written with the mutex held.  Publishers reserve, *)
(* label and seal; a drain goroutine per socket hands rows to its socket;  *)
(* the reader settles them by the relay's receipts.  A terminal's viewer   *)
(* gets one frame at a time: the next one waits for the word on the last.  *)
(* Publishing and writing hold the key epoch shared; a revocation takes it *)
(* exclusively.  Bytes are counted as rows; Expire stands for the clock.   *)
(***************************************************************************)
EXTENDS SequenceFence, FiniteSets

CONSTANTS
  Answer, Snapshot, Terminal,   \* recipients: t/ answers, s/ values, term/ screens
  Window,                       \* rows written and not answered
  MaxConns, MaxCuts,            \* bounds: sockets opened, revocations tried
  MaxRows,                      \* bound: sequences handed out
  MaxTroubles,                  \* bound on the three together: see Bounded
  None

Recipient == Answer \cup Snapshot \cup Terminal
Epoch     == {"old", "new"}     \* the viewer's revocation moves the key once
Drain     == 1 .. MaxConns
M         == CHOOSE f \in Fence : TRUE

ASSUME SpoolAssumption ==
  /\ \A f, g \in Fence : f = g
  /\ Fence # {} /\ MaxConns \in Nat /\ MaxCuts \in Nat /\ MaxTroubles \in Nat /\ MaxRows \in Nat
  /\ None \notin Seqs

VARIABLES
  rows,     \* the spool's table
  pub,      \* each recipient's publisher: where it is, and its row
  awaits,   \* the frame each terminal's viewer waits for (framePending)
  heard,    \* history: how often a row's outcome was told
  sock,     \* the socket
  gen,      \* how many sockets were opened
  drain,    \* each socket's drain goroutine
  reader,   \* the row whose receipt the reader is telling, or None
  wrote,    \* history: the last row written to the socket
  key,      \* the installed key epoch and its lock
  disk      \* the stored key epoch, the revocation journal, the viewer's pin

spoolVars == <<rows, pub, awaits, heard>>
sockVars  == <<sock, gen, drain, reader, wrote>>
keyVars   == <<key, disk>>
vars      == <<fenceVars, spoolVars, sockVars, keyVars>>

----------------------------------------------------------------------------
(* The table. *)

NoRow     == [st |-> "none"]
RowStates == {"reserved", "ready", "sent", "acked", "rejected", "burned"}
Row       == [st : RowStates, to : Recipient, key : Epoch \cup {"rk", None},
              late : BOOLEAN, told : BOOLEAN]
In(tbl, sts)  == {s \in Seqs : tbl[s].st \in sts}
Owed(tbl)    == In(tbl, {"reserved", "ready", "sent"})
Least(S)      == CHOOSE s \in S : \A t \in S : s <= t

To(row, st)    == [row EXCEPT !.st = st, !.late = FALSE]
Late(tbl, sts) == {s \in In(tbl, sts) : tbl[s].late}
Burn(tbl, S)   == [s \in Seqs |-> IF s \in S THEN To(tbl[s], "burned") ELSE tbl[s]]
Forget(tbl, S) == [s \in Seqs |-> IF s \in S THEN NoRow ELSE tbl[s]]

(* The bounds: revocations and crashes count once, a failed write of the   *)
(* fence and a second socket twice; sequences are few.                     *)
Bounded(more) ==
  LET again == IF gen > 1 THEN gen - 1 ELSE 0
  IN  key.cuts + crashes + 2 * (faults + again) + more <= MaxTroubles

MoreRows == Cardinality({q \in Seqs : uses[SenderOf[M]][q] > 0}) < MaxRows

SpoolFree    == fence[M] # "writing"
TerminalHeld == \E r \in Terminal : pub[r].pc \notin {"idle", "over"}

(* collectLocked burns a reservation nobody sealed in time.  The receipts  *)
(* it lets go are kept here: one more receipt for such a row is an error   *)
(* there and nothing here, and its sequence is never used again.           *)
Collect(tbl) == Burn(tbl, Late(tbl, {"reserved"}))

(* ReserveLatestValue drops the recipient's older snapshots not yet sent. *)
Superseded(r) ==
  IF r \in Snapshot THEN {s \in In(rows, {"ready"}) : rows[s].to = r} ELSE {}

Reserved(tbl, r) ==
  [tbl EXCEPT ![nextSeq[M]] =
     [st |-> "reserved", to |-> r, key |-> None, late |-> FALSE, told |-> FALSE]]

(* StaleReservedAfter, SealedFrameFreshness, AttemptWindow: a row has been *)
(* reserved, ready or sent for that long.                                  *)
Expire(s) ==
  /\ s \in Owed(rows) /\ ~rows[s].late
  /\ rows' = [rows EXCEPT ![s].late = TRUE]
  /\ UNCHANGED <<fenceVars, pub, awaits, heard, sockVars, keyVars>>

----------------------------------------------------------------------------
(* Publishing: KeyEpoch.Use around Reserve, LabelKey, Seal. *)

KeyOpen == key.lock # "closing"
Usable  == KeyOpen /\ ~key.halted
Idle == [pc |-> "idle", seq |-> None]
PubAt(r, pc) == pub' = [pub EXCEPT ![r] = [(IF pc \in {"idle", "over"} THEN Idle ELSE @) EXCEPT !.pc = pc]]
PubEnds(r)   == PubAt(r, "idle")

(* A frame that was not published ends its watch. *)
PubFails(r)  == PubAt(r, IF r \in Terminal THEN "over" ELSE "idle")

(* sendTerminalFrame takes the terminal mutex for a registered connection  *)
(* with no frame pending; it keeps it to the end of the publish.           *)
TakeTerminal(r) ==
  /\ r \in Terminal /\ ~TerminalHeld /\ pub[r].pc = "idle"
  /\ sock # "none" /\ awaits[r] = None
  /\ PubAt(r, "entering")
  /\ UNCHANGED <<fenceVars, rows, awaits, heard, sockVars, keyVars>>

Entering(r) ==
  /\ KeyOpen
  /\ pub[r].pc = IF r \in Terminal THEN "entering" ELSE "idle"

PublishHalted(r) ==
  /\ Entering(r) /\ key.halted /\ r \in Terminal
  /\ PubFails(r)
  /\ UNCHANGED <<fenceVars, rows, awaits, heard, sockVars, keyVars>>

(* The caps on rows and bytes may refuse it; the older snapshots are gone  *)
(* then, too.  A sequence past the fence's ceiling writes the fence first. *)
Reserve(r) ==
  LET tbl == Collect(Forget(rows, Superseded(r))) IN
  /\ Entering(r) /\ ~key.halted
  /\ fence[M] = "open" /\ key.link = "ready"
  /\ \/ rows' = tbl /\ PubFails(r) /\ UNCHANGED fenceVars
     \/ /\ HandOut(M) /\ MoreRows
        /\ rows' = Reserved(tbl, r)
        /\ pub' = [pub EXCEPT ![r] = [pc |-> "reserved", seq |-> nextSeq[M]]]
     \/ /\ ReadFile(M) /\ MoreRows
        /\ rows' = tbl
        /\ pub' = [pub EXCEPT ![r] = [pc |-> "fencing", seq |-> nextSeq[M]]]
  /\ UNCHANGED <<awaits, heard, sockVars, keyVars>>

(* The rest of the reservation, with the spool's mutex held. *)
Fenced(r) ==
  /\ pub[r].pc = "fencing"
  /\ \/ WriteFile(M) /\ rows' = Reserved(rows, r) /\ PubAt(r, "reserved")
     \/ WriteFails(M) /\ Bounded(2) /\ rows' = rows /\ PubFails(r)
  /\ UNCHANGED <<awaits, heard, sockVars, keyVars>>

(* LabelKey, sealing and SealCorrelated.  A reservation burned meanwhile   *)
(* ends it; sealing may fail, and leaves the row reserved.                 *)
Label(r) == IF r \in Terminal THEN "rk" ELSE key.epoch

Seal(r, ok) ==
  LET s == pub[r].seq IN
  /\ SpoolFree /\ pub[r].pc = "reserved"
  /\ IF rows[s].st # "reserved" THEN UNCHANGED rows
     ELSE LET labelled == [rows[s] EXCEPT !.key = Label(r)]
          IN  rows' = [rows EXCEPT ![s] = IF ok THEN To(labelled, "ready") ELSE labelled]
  /\ IF ~ok \/ rows[s].st # "reserved" THEN PubFails(r)
     ELSE PubAt(r, IF r \in Terminal THEN "sealed" ELSE "idle")
  /\ UNCHANGED <<fenceVars, awaits, heard, sockVars, keyVars>>

(* framePending, before the terminal mutex is let go. *)
Await(r) ==
  /\ pub[r].pc = "sealed"
  /\ awaits' = [awaits EXCEPT ![r] = pub[r].seq]
  /\ PubEnds(r)
  /\ UNCHANGED <<fenceVars, rows, heard, sockVars, keyVars>>

----------------------------------------------------------------------------
(* Telling a row's waiter: OnSettled, terminalReceiptSettled. *)

(* Mutant: the mutex of the terminals is not taken. *)
TellUnlocked(s, outcome) ==
  LET waiting == {r \in Terminal : awaits[r] = s} IN
  /\ heard' = [heard EXCEPT ![s] = IF @ = 2 THEN 2 ELSE @ + 1]
  /\ awaits' = [r \in Terminal |-> IF r \in waiting THEN None ELSE awaits[r]]
  /\ pub' = [r \in Recipient |-> IF r \in waiting /\ outcome = "refused"
                                THEN [Idle EXCEPT !.pc = "over"] ELSE pub[r]]

Tell(s, outcome) ==
  LET waiting == {r \in Terminal : awaits[r] = s} IN
  /\ ~TerminalHeld
  /\ heard' = [heard EXCEPT ![s] = IF @ = 2 THEN 2 ELSE @ + 1]
  /\ awaits' = [r \in Terminal |-> IF r \in waiting THEN None ELSE awaits[r]]
  /\ pub' = [r \in Recipient |-> IF r \in waiting /\ outcome = "refused"
                                THEN [Idle EXCEPT !.pc = "over"] ELSE pub[r]]

----------------------------------------------------------------------------
(* The drain of a socket. *)

Mine(g)  == g = gen /\ sock # "none"      \* the session of g has not returned

(* Mutant: a drain writes to whatever socket is the current one. *)
AliveNow(g) == sock = "up"

Alive(g) == g = gen /\ sock = "up"
DrainTo(g, d) == drain' = [drain EXCEPT ![g] = d]
Off      == [pc |-> "off", todo |-> {}, row |-> None, next |-> "off"]
At(pc)   == [Off EXCEPT !.pc = pc]
Untold(tbl)  == {s \in In(tbl, {"burned"}) : ~tbl[s].told}
AllTold(tbl) == [s \in Seqs |-> IF s \in Untold(tbl) THEN [tbl[s] EXCEPT !.told = TRUE] ELSE tbl[s]]
Tells(S, next)  == IF S = {} THEN At(next) ELSE [At("tell") EXCEPT !.todo = S, !.next = next]
Telling(tbl, next) == Tells(Untold(tbl), next)
Sendable(s)  == rows[s].key \in {"rk", key.epoch}

(* RetireKeys: what is owed under a key that is not this one's is burned. *)
RetireKeys(epoch) == Burn(rows, {s \in Owed(rows) : rows[s].key \notin {"rk", epoch}})

(* The list of what to re-send is taken once, and walked in order while    *)
(* the key allows it; a row of an older key takes its kind with it.        *)
Resending(S) == IF S = {} THEN At("tick") ELSE [At("resend") EXCEPT !.todo = S]

InFlight(g) ==
  /\ SpoolFree /\ drain[g].pc = "start"
  /\ DrainTo(g, Resending(In(rows, {"sent"})))
  /\ UNCHANGED <<fenceVars, spoolVars, sock, gen, reader, wrote, keyVars>>

Resend(g) ==
  LET s == Least(drain[g].todo) IN
  /\ SpoolFree /\ drain[g].pc = "resend" /\ KeyOpen
  /\ DrainTo(g, IF key.halted THEN At("tick")
                ELSE IF rows[s].st = "sent" /\ Sendable(s)
                THEN [drain[g] EXCEPT !.pc = "rewriting", !.todo = @ \ {s}, !.row = s]
                ELSE Resending(drain[g].todo \ {s}))
  /\ rows' = IF ~key.halted /\ rows[s].st = "sent" /\ ~Sendable(s)
             THEN RetireKeys(key.epoch) ELSE rows
  /\ UNCHANGED <<fenceVars, pub, awaits, heard, sock, gen, reader, wrote, keyVars>>

(* drainOnce, until the session is over: BurnExpired and TakeBurned. *)
Tick(g) ==
  LET tbl == Burn(rows, Late(rows, {"sent"})) IN
  /\ SpoolFree /\ drain[g].pc = "tick" /\ Mine(g)
  /\ rows' = AllTold(tbl)
  /\ DrainTo(g, Telling(tbl, "send"))
  /\ UNCHANGED <<fenceVars, pub, awaits, heard, sock, gen, reader, wrote, keyVars>>

Leave(g) ==
  /\ drain[g].pc = "tick" /\ ~Mine(g)
  /\ DrainTo(g, Off)
  /\ UNCHANGED <<fenceVars, spoolVars, sock, gen, reader, wrote, keyVars>>

TellBurned(g) ==
  LET s == Least(drain[g].todo) IN
  /\ drain[g].pc = "tell"
  /\ Tell(s, "burned")
  /\ DrainTo(g, Tells(drain[g].todo \ {s}, drain[g].next))
  /\ UNCHANGED <<fenceVars, rows, sock, gen, reader, wrote, keyVars>>

(* normalizeReadyLocked: of a recipient's snapshots the newest stays, and  *)
(* what was sealed too long ago is burned.  What is sealed under an older  *)
(* key burns when it comes to the head.                                    *)
Outdated ==
  {s \in In(rows, {"ready"}) :
     \/ rows[s].late
     \/ rows[s].to \in Snapshot
        /\ \E t \in In(rows, {"ready"}) : t > s /\ rows[t].to = rows[s].to}

OldKeyed(head) ==
  {s \in head : \A t \in head : t <= s => rows[t].st = "ready" /\ ~Sendable(t)}

BurnedAtSend ==
  LET gone == Late(rows, {"reserved"}) \cup Outdated
  IN  gone \cup OldKeyed(In(rows, {"reserved", "ready"}) \ gone)

(* Mutant: what is sealed overtakes what is not. *)
HeadReady(tbl) ==
  LET owed == In(tbl, {"ready"}) IN
  IF owed = {} \/ Cardinality(In(tbl, {"sent"})) >= Window THEN {} ELSE {Least(owed)}

(* SendNextKeyed: the lowest row, unless it is still unsealed or the       *)
(* window is full.                                                         *)
Head(tbl) ==
  LET owed == In(tbl, {"reserved", "ready"}) IN
  IF owed = {} \/ Cardinality(In(tbl, {"sent"})) >= Window THEN {}
  ELSE {Least(owed)} \cap In(tbl, {"ready"})

SendNext(g) ==
  /\ SpoolFree /\ drain[g].pc = "send" /\ Usable
  /\ \E tbl \in {Burn(rows, BurnedAtSend)} :
     IF Head(tbl) = {}
     THEN /\ rows' = AllTold(tbl)
          /\ DrainTo(g, Telling(tbl, "tick"))
     ELSE \E s \in Head(tbl) :
            /\ rows' = [tbl EXCEPT ![s] = To(@, "sent")]
            /\ DrainTo(g, [At("writing") EXCEPT !.row = s])
  /\ UNCHANGED <<fenceVars, pub, awaits, heard, sock, gen, reader, wrote, keyVars>>

SendHalted(g) ==
  /\ SpoolFree /\ drain[g].pc = "send" /\ KeyOpen /\ key.halted
  /\ rows' = AllTold(rows)
  /\ DrainTo(g, Telling(rows, "tick"))
  /\ UNCHANGED <<fenceVars, pub, awaits, heard, sock, gen, reader, wrote, keyVars>>

Writing(g) == drain[g].pc \in {"writing", "rewriting"}

(* The row's bytes go out on the socket. *)
Write(g) ==
  /\ Writing(g) /\ Alive(g)
  /\ wrote' = drain[g].row
  /\ DrainTo(g, IF drain[g].pc = "writing" THEN At("send") ELSE Resending(drain[g].todo))
  /\ UNCHANGED <<fenceVars, spoolVars, sock, gen, reader, keyVars>>

(* Or not, or not all of them: the row stays sent, the socket is given up. *)
WriteLost(g) ==
  /\ Writing(g)
  /\ sock' = IF g = gen /\ sock = "up" THEN "broken" ELSE sock
  /\ DrainTo(g, Off)
  /\ UNCHANGED <<fenceVars, spoolVars, gen, reader, wrote, keyVars>>

----------------------------------------------------------------------------
(* The socket and its reader. *)

NoReceipt == [seq |-> None, outcome |-> "none"]

(* Mutant: the receipt's word is taken as the row's state. *)
SettledRaw(outcome) == outcome

Settled(outcome) == IF outcome = "delivered" THEN "acked" ELSE "rejected"

(* Mutant: a late receipt revives a burned row. *)
ReceiptLate(s, outcome) ==
  /\ SpoolFree /\ reader = NoReceipt /\ sock = "up"
  /\ rows[s].st \in {"sent", "burned"}
  /\ rows' = [rows EXCEPT ![s] = To(@, Settled(outcome))]
  /\ reader' = [seq |-> s, outcome |-> outcome]
  /\ UNCHANGED <<fenceVars, pub, awaits, heard, sock, gen, drain, wrote, keyVars>>

(* Settle: only a sent row moves, whatever the relay repeats. *)
Receipt(s, outcome) ==
  /\ SpoolFree /\ reader = NoReceipt /\ sock = "up"
  /\ rows[s].st = "sent"
  /\ rows' = [rows EXCEPT ![s] = To(@, Settled(outcome))]
  /\ reader' = [seq |-> s, outcome |-> outcome]
  /\ UNCHANGED <<fenceVars, pub, awaits, heard, sock, gen, drain, wrote, keyVars>>

ReceiptTold ==
  /\ reader # NoReceipt /\ Tell(reader.seq, reader.outcome)
  /\ reader' = NoReceipt
  /\ UNCHANGED <<fenceVars, rows, sock, gen, drain, wrote, keyVars>>

Connect ==
  /\ sock = "none" /\ gen < MaxConns /\ key.link = "ready"
  /\ Bounded(IF gen = 0 THEN 0 ELSE 2)
  /\ sock' = "up" /\ gen' = gen + 1
  /\ drain' = [drain EXCEPT ![gen + 1] = At("start")]
  /\ wrote' = None
  /\ UNCHANGED <<fenceVars, spoolVars, reader, keyVars>>

(* The reader finds out: demote, and closeAllTerminalConnections. *)
Disconnect ==
  /\ sock # "none" /\ reader = NoReceipt /\ ~TerminalHeld
  /\ sock' = "none"
  /\ awaits' = [r \in Terminal |-> None]
  /\ pub' = [r \in Recipient |-> IF r \in Terminal THEN Idle ELSE pub[r]]
  /\ UNCHANGED <<fenceVars, rows, heard, gen, drain, reader, wrote, keyVars>>

----------------------------------------------------------------------------
(* Revoking the viewer: revokeContentViewerWithJournal, resumeRevocation.  *)

(* Whether a publish or a write holds the epoch shared. *)
InUse ==
  \/ \E r \in Recipient : pub[r].pc \notin {"idle", "over", "entering"}
  \/ \E g \in Drain : Writing(g)

(* KeyEpoch.Recover asks for the lock; whoever comes later waits.  A boot  *)
(* with an intent in the journal resumes it before the link serves.        *)
Revoke ==
  /\ key.lock = "open" /\ fence[M] # "closed" /\ key.cuts < MaxCuts /\ Bounded(1)
  /\ disk.pinned \/ disk.journal
  /\ key' = [key EXCEPT !.lock = "closing", !.cuts = @ + 1]
  /\ UNCHANGED <<fenceVars, spoolVars, sockVars, disk>>

(* With the lock held: the journal, the pin, the rotation (which answers   *)
(* the same epoch when it is asked again), the frames owed, each durable   *)
(* before the next.  An error after n of them halts the epoch.             *)
Done == 5

(* Mutant: the pin goes before the intent is written. *)
DurablePinFirst(n) == [journal |-> disk.journal \/ n >= 2,
                       pinned  |-> disk.pinned /\ n < 1,
                       stored  |-> IF n >= 3 THEN "new" ELSE disk.stored]

Durable(n) == [journal |-> disk.journal \/ n >= 1,
               pinned  |-> disk.pinned /\ n < 2,
               stored  |-> IF n >= 3 THEN "new" ELSE disk.stored]

Cut(n) ==
  /\ SpoolFree /\ key.lock = "closing" /\ ~InUse
  /\ disk' = Durable(n)
  /\ rows' = IF n >= 4 /\ key.epoch = "old" THEN RetireKeys("new") ELSE rows
  /\ key' = IF n = Done
            THEN [key EXCEPT !.lock = "finishing", !.epoch = "new", !.halted = FALSE]
            ELSE [key EXCEPT !.lock = "open", !.halted = TRUE]
  /\ UNCHANGED <<fenceVars, pub, awaits, heard, sockVars>>

(* CompleteRevocation, which may fail and may leave the intent. *)
Complete(ok, left) ==
  /\ key.lock = "finishing" /\ (ok => ~left)
  /\ disk' = [disk EXCEPT !.journal = left]
  /\ key' = [key EXCEPT !.lock = "open", !.link = IF ok THEN "ready" ELSE @]
  /\ UNCHANGED <<fenceVars, spoolVars, sockVars>>

----------------------------------------------------------------------------
(* The daemon starts, and ends. *)

(* Mutant: the link serves whatever the journal says. *)
LinkAtOnce == "ready"

LinkAtBoot == IF disk.journal THEN "resuming" ELSE "ready"

Boot ==
  /\ Open(M)
  /\ key' = [key EXCEPT !.epoch = disk.stored, !.lock = "open", !.halted = FALSE, !.link = LinkAtBoot]
  /\ UNCHANGED <<spoolVars, sockVars, disk>>

Crash ==
  /\ Ends({M}) /\ Bounded(1)
  /\ rows' = [s \in Seqs |-> NoRow]
  /\ pub' = [r \in Recipient |-> Idle]
  /\ awaits' = [r \in Terminal |-> None]
  /\ heard' = [s \in Seqs |-> 0]
  /\ sock' = "none" /\ gen' = 0 /\ reader' = NoReceipt /\ wrote' = None
  /\ drain' = [g \in Drain |-> Off]
  /\ key' = [key EXCEPT !.lock = "open", !.halted = FALSE, !.link = "down"]
  /\ UNCHANGED disk

Init ==
  /\ FenceInit
  /\ rows = [s \in Seqs |-> NoRow]
  /\ pub = [r \in Recipient |-> Idle]
  /\ awaits = [r \in Terminal |-> None]
  /\ heard = [s \in Seqs |-> 0]
  /\ sock = "none" /\ gen = 0 /\ reader = NoReceipt /\ wrote = None
  /\ drain = [g \in Drain |-> Off]
  /\ key = [epoch |-> "old", lock |-> "open", halted |-> FALSE, link |-> "down", cuts |-> 0]
  /\ disk = [journal |-> FALSE, pinned |-> TRUE, stored |-> "old"]

Publish(r) == PublishHalted(r) \/ Reserve(r)

(* What a publisher does once it has a row. *)
Publishing(r) ==
  \/ Fenced(r) \/ Await(r)
  \/ \E ok \in BOOLEAN : Seal(r, ok)

DrainStep(g) ==
  \/ InFlight(g) \/ Resend(g) \/ TellBurned(g) \/ Leave(g)
  \/ Tick(g) \/ SendNext(g) \/ SendHalted(g) \/ Write(g) \/ WriteLost(g)

Revoking ==
  \/ \E n \in 0 .. Done : Cut(n)
  \/ \E ok, left \in BOOLEAN : Complete(ok, left)

Next ==
  \/ \E r \in Recipient : TakeTerminal(r) \/ Publish(r) \/ Publishing(r)
  \/ \E g \in Drain : DrainStep(g)
  \/ \E s \in Seqs : Expire(s) \/ \E outcome \in {"delivered", "refused"} : Receipt(s, outcome)
  \/ ReceiptTold \/ Disconnect \/ Connect
  \/ Revoke \/ Revoking
  \/ Boot \/ Crash

Spec == Init /\ [][Next]_vars

(* Goroutines are scheduled and mutexes are fair; the relay need not       *)
(* answer.  Deadlines pass.                                                *)
Fairness ==
  /\ \A r \in Recipient : WF_vars(Publishing(r) \/ (r \in Terminal /\ Publish(r)))
  /\ \A g \in Drain : WF_vars(DrainStep(g))
  /\ WF_vars(ReceiptTold \/ (sock = "broken" /\ Disconnect))
  /\ WF_vars(Revoking)
  /\ \A s \in Seqs : WF_vars(Expire(s))

FairSpec == Spec /\ Fairness

----------------------------------------------------------------------------
TypeOK ==
  /\ FenceTypeOK
  /\ rows \in [Seqs -> Row \cup {NoRow}]
  /\ pub \in [Recipient -> [pc : {"idle", "over", "entering", "fencing", "reserved", "sealed"},
                            seq : Seqs \cup {None}]]
  /\ awaits \in [Terminal -> Seqs \cup {None}]
  /\ heard \in [Seqs -> 0 .. 2]
  /\ sock \in {"none", "up", "broken"} /\ gen \in 0 .. MaxConns
  /\ drain \in [Drain -> [pc : {"off", "start", "resend", "rewriting", "tick", "tell", "send", "writing"},
                          todo : SUBSET Seqs, row : Seqs \cup {None}, next : {"off", "send", "tick"}]]
  /\ reader \in [seq : Seqs \cup {None}, outcome : {"none", "delivered", "refused"}]
  /\ wrote \in Seqs \cup {None}
  /\ key \in [epoch : Epoch, lock : {"open", "closing", "finishing"}, halted : BOOLEAN,
              link : {"down", "resuming", "ready"}, cuts : 0 .. MaxCuts]
  /\ disk \in [journal : BOOLEAN, pinned : BOOLEAN, stored : Epoch]

(* What was handed to a socket was handed over in the order of its         *)
(* sequences: nothing below a sent row is still to be sealed or sent       *)
(* (SendNextKeyed: a hole the receiver's replay window can never fill).    *)
SentInOrder ==
  \A s \in In(rows, {"sent"}), t \in In(rows, {"reserved", "ready"}) : s < t

(* One socket sees a sequence once, and never a lower one after a higher,  *)
(* re-sent rows and an old socket's drain included (drain: "must not be    *)
(* able to cause a second write").                                         *)
WritesAscend ==
  [][\A g \in Drain : Write(g) => wrote = None \/ wrote < drain[g].row]_vars

(* A row's waiter hears its outcome once, though a receipt and the         *)
(* burning of the row race and the relay repeats itself.                   *)
HeardOnce == \A s \in Seqs : heard[s] <= 1

(* What is being written is sealed under the key the store holds now, and  *)
(* never, once the viewer's pin is gone, under the one it knows: not       *)
(* during a revocation, not after it failed half way, not after a restart. *)
RevokedReadsNothing ==
  \A g \in Drain : Writing(g) /\ rows[drain[g].row] # NoRow =>
    /\ rows[drain[g].row].key \in {"rk", disk.stored}
    /\ ~disk.pinned => rows[drain[g].row].key # "old"

(* A viewer without its pin whose intent is no longer in the journal has   *)
(* cost the machine its key: no crash leaves a revocation half done and    *)
(* forgotten.                                                              *)
RevokedIsRotated == ~disk.pinned => disk.journal \/ disk.stored = "new"

(* A viewer that waits for the word on its frame gets it, or loses its     *)
(* connection, whatever the relay does, unless the key is halted: burned   *)
(* rows are told, the mutex of the terminals, the lock of the key and the  *)
(* spool's are never waited for in a circle.                               *)
FrameEnds ==
  \A r \in Terminal : []<>(awaits[r] = None \/ key.halted)
=============================================================================

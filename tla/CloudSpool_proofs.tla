-------------------------- MODULE CloudSpool_proofs --------------------------
(***************************************************************************)
(* The spool hands sequences out as its fence does, a revocation is never  *)
(* left half done and forgotten, and what goes to the relay goes in order, *)
(* once to a socket, under the key the store holds, and is told once.      *)
(*                                                                         *)
(* FenceInv and RevInv are inductive on their own.  The rest is SpoolInv:  *)
(* RowsFit (what was sent lies below what is still to be), TellsFit (whose *)
(* word a row's is to give), WritesFit (what a drain has left to write     *)
(* lies above what its socket has had) and KeysFit (a key that may write   *)
(* is the stored one).  Every step keeps the rows in order, one lemma per  *)
(* action; what most of them share is in OrderKept, TellsKept, WritesKept  *)
(* and KeysKept.                                                           *)
(***************************************************************************)
EXTENDS CloudSpool, WellFoundedInduction, TLAPS

-----------------------------------------------------------------------------
(* A file with one fence: no sequence is handed out twice, whatever fails. *)
(* The argument is where the used sequences end: below the counter while   *)
(* the fence is open, below the file's ceiling once its process is gone.   *)

OneFence == \A f, g \in Fence : f = g

(* What memory and file say of each other, and of what was handed out. *)
Covered(f) ==
  /\ fence[f] # "closed" =>
       /\ ceiling[f] = file[SenderOf[f]]
       /\ nextSeq[f] <= ceiling[f]
       /\ \A q \in Seqs : uses[SenderOf[f]][q] > 0 => q < nextSeq[f]
  /\ fence[f] = "closed" =>
       \A q \in Seqs : uses[SenderOf[f]][q] > 0 => q < file[SenderOf[f]]
  /\ fence[f] = "writing" => InDomain(f)

FenceInv ==
  /\ FenceTypeOK
  /\ \A f \in Fence : Covered(f)
  /\ NeverReused

LEMMA FenceStart == FenceInit => FenceInv
  BY FenceAssumption
  DEF FenceInit, FenceInv, FenceTypeOK, NoFile, Covered, NeverReused, Seqs

(* A counter above everything used takes a sequence nobody had. *)
LEMMA TakenOnce ==
  ASSUME FenceInv, NEW f \in Fence, fence[f] # "closed", InDomain(f), Take(f)
  PROVE  /\ nextSeq' \in [Fence -> Nat] /\ nextSeq'[f] = nextSeq[f] + 1
         /\ uses' \in [Sender -> [Seqs -> 0 .. 2]]
         /\ \A q \in Seqs : uses'[SenderOf[f]][q] > 0 => q < nextSeq'[f]
         /\ NeverReused'
<1> DEFINE s == SenderOf[f]
           q0 == nextSeq[f]
<1>1. s \in Sender /\ q0 \in Seqs /\ uses \in [Sender -> [Seqs -> 0 .. 2]]
      /\ nextSeq \in [Fence -> Nat]
  BY FenceAssumption DEF FenceInv, FenceTypeOK, InDomain, Seqs
<1>2. uses[s][q0] = 0
  <2>1. ~(uses[s][q0] > 0)
    BY <1>1 DEF FenceInv, Covered, Seqs
  <2> QED BY <1>1, <2>1
<1>3. uses' = [uses EXCEPT ![s] = [uses[s] EXCEPT ![q0] = 1]]
  BY <1>1, <1>2 DEF Take
<1>4. uses' \in [Sender -> [Seqs -> 0 .. 2]]
  BY <1>1, <1>3
<1>5. /\ \A t \in Sender, q \in Seqs : t # s \/ q # q0 => uses'[t][q] = uses[t][q]
      /\ uses'[s][q0] = 1
  BY <1>1, <1>3
<1>6. nextSeq' \in [Fence -> Nat] /\ nextSeq'[f] = q0 + 1
  BY <1>1 DEF Take
<1>7. \A q \in Seqs : uses'[s][q] > 0 => q < q0 + 1
  BY <1>1, <1>5 DEF FenceInv, Covered, Seqs
<1>8. NeverReused'
  BY <1>1, <1>5 DEF FenceInv, NeverReused
<1> QED BY <1>4, <1>6, <1>7, <1>8

LEMMA FenceStep ==
  ASSUME OneFence, FenceInv, [FenceNext]_fenceVars
  PROVE  FenceInv'
<1> USE FenceAssumption
<1>1. ASSUME NEW f \in Fence, Open(f) PROVE FenceInv'
  BY <1>1 DEF OneFence, FenceInv, FenceTypeOK, Covered, NeverReused, InDomain, Open
<1>2. ASSUME NEW f \in Fence, HandOut(f) PROVE FenceInv'
  <2>1. FenceTypeOK'
    BY <1>2, TakenOnce DEF FenceInv, FenceTypeOK, HandOut
  <2>2. Covered(f)'
    BY <1>2, TakenOnce DEF FenceInv, FenceTypeOK, HandOut, Covered
  <2> QED BY <1>2, <2>1, <2>2, TakenOnce DEF OneFence, FenceInv, HandOut
<1>3. ASSUME NEW f \in Fence, ReadFile(f) PROVE FenceInv'
  <2>1. \A read \in {file} \cup Unread : read \in [Sender -> Nat]
    BY DEF FenceInv, FenceTypeOK, Unread, NoFile
  <2>2. FenceTypeOK'
    BY <1>3, <2>1 DEF FenceInv, FenceTypeOK, ReadFile
  <2>3. Covered(f)'
    BY <1>3 DEF FenceInv, FenceTypeOK, Covered, ReadFile, InDomain
  <2> QED BY <1>3, <2>2, <2>3 DEF OneFence, FenceInv, ReadFile, NeverReused
<1>4. ASSUME NEW f \in Fence, WriteFile(f) PROVE FenceInv'
  <2>1. InDomain(f) /\ fence[f] # "closed" /\ Take(f)
    BY <1>4 DEF FenceInv, Covered, WriteFile
  <2>2. Written(f) \in [Sender -> Nat] /\ Written(f)[SenderOf[f]] = nextSeq[f] + Block
    BY DEF FenceInv, FenceTypeOK, Written
  <2>3. FenceTypeOK'
    BY <1>4, <2>1, <2>2, TakenOnce DEF FenceInv, FenceTypeOK, WriteFile
  <2>4. Covered(f)'
    BY <1>4, <2>1, <2>2, TakenOnce DEF FenceInv, FenceTypeOK, WriteFile, Covered
  <2> QED BY <2>1, <2>3, <2>4, TakenOnce DEF OneFence, FenceInv
<1>5. ASSUME NEW f \in Fence, WriteFails(f) PROVE FenceInv'
  BY <1>5 DEF OneFence, FenceInv, FenceTypeOK, Covered, NeverReused, InDomain, WriteFails
<1>6. ASSUME NEW F \in SUBSET Fence, Ends(F) PROVE FenceInv'
  <2>1. FenceTypeOK'
    BY <1>6 DEF FenceInv, FenceTypeOK, Ends
  <2>2. ASSUME NEW f \in Fence PROVE Covered(f)'
    BY <1>6 DEF FenceInv, FenceTypeOK, Covered, InDomain, Seqs, Ends
  <2> QED BY <1>6, <2>1, <2>2 DEF FenceInv, NeverReused, Ends
<1>7. CASE UNCHANGED fenceVars
  BY <1>7 DEF FenceInv, FenceTypeOK, Covered, NeverReused, InDomain, fenceVars
<1> QED BY <1>1, <1>2, <1>3, <1>4, <1>5, <1>6, <1>7 DEF FenceNext

(* FileFence with NewSpool: as long as the file has one fence, nothing a   *)
(* process does, no failing write and no restart hands a sequence out      *)
(* again.                                                                  *)
THEOREM FenceHolds == ASSUME OneFence PROVE FenceSpec => []NeverReused
<1>1. FenceInv /\ [FenceNext]_fenceVars => FenceInv'
  BY FenceStep
<1>2. FenceInv => NeverReused
  BY DEF FenceInv
<1> QED BY FenceStart, <1>1, <1>2, PTL DEF FenceSpec

-----------------------------------------------------------------------------
(* The spool's machine has one fence, and its steps are the fence's.       *)

LEMMA TheMachine == M \in Fence /\ OneFence /\ M \in {M} /\ {M} \in (SUBSET Fence) \ {{}}
<1>1. \E f \in Fence : TRUE
  BY SpoolAssumption
<1>2. M \in Fence
  BY <1>1 DEF M
<1>3. {M} # {} /\ {M} \subseteq Fence
  BY <1>2
<1>4. {M} \in (SUBSET Fence) \ {{}} /\ M \in {M}
  BY <1>3
<1>5. OneFence
  BY SpoolAssumption DEF OneFence
<1> QED BY <1>2, <1>4, <1>5

(* Every step of the spool is one of its fence, or leaves it alone. *)
LEMMA StepOfFence == [Next]_vars => [FenceNext]_fenceVars
<1> SUFFICES ASSUME [Next]_vars PROVE [FenceNext]_fenceVars
  OBVIOUS
<1> USE TheMachine DEF FenceNext
<1>1. ASSUME NEW r \in Recipient, TakeTerminal(r) \/ PublishHalted(r) PROVE UNCHANGED fenceVars
  BY <1>1 DEF TakeTerminal, PublishHalted
<1>2. ASSUME NEW r \in Recipient, Reserve(r) PROVE [FenceNext]_fenceVars
  BY <1>2 DEF Reserve
<1>3. ASSUME NEW r \in Recipient, Publishing(r) PROVE [FenceNext]_fenceVars
  <2>1. CASE Fenced(r)
    BY <2>1 DEF Fenced
  <2>2. CASE Await(r)
    BY <2>2 DEF Await
  <2>3. ASSUME NEW ok \in BOOLEAN, Seal(r, ok) PROVE UNCHANGED fenceVars
    BY <2>3 DEF Seal
  <2> QED BY <1>3, <2>1, <2>2, <2>3 DEF Publishing
<1>4. ASSUME NEW g \in Drain, DrainStep(g) PROVE UNCHANGED fenceVars
  BY <1>4 DEF DrainStep, InFlight, Resend, TellBurned, Leave, Tick, SendNext, SendHalted,
              Write, WriteLost
<1>5. ASSUME NEW s \in Seqs, Expire(s) PROVE UNCHANGED fenceVars
  BY <1>5 DEF Expire
<1>6. ASSUME NEW s \in Seqs, NEW o \in {"delivered", "refused"}, Receipt(s, o)
      PROVE  UNCHANGED fenceVars
  BY <1>6 DEF Receipt
<1>7. CASE ReceiptTold \/ Disconnect \/ Connect \/ Revoke
  BY <1>7 DEF ReceiptTold, Disconnect, Connect, Revoke
<1>8. CASE Revoking
  BY <1>8 DEF Revoking, Cut, Complete
<1>9. CASE Boot
  BY <1>9 DEF Boot
<1>10. CASE Crash
  BY <1>10 DEF Crash
<1>11. CASE UNCHANGED vars
  BY <1>11 DEF vars
<1> QED BY <1>1, <1>2, <1>3, <1>4, <1>5, <1>6, <1>7, <1>8, <1>9, <1>10, <1>11
        DEF Next, Publish

(* The detailed spool implements the fence alone: the table, the sockets   *)
(* and the revocations never touch a counter but through the fence.        *)
THEOREM SpoolIsFenced == Spec => FenceSpec
<1>1. Init => FenceInit
  BY DEF Init
<1> QED BY <1>1, StepOfFence, PTL DEF Spec, FenceSpec

(* A sequence, once reserved, is never reused: not after a restart, not    *)
(* after a failing write of the fence (spool.go, invariant 1).             *)
THEOREM SpoolNeverReuses == Spec => []NeverReused
  BY SpoolIsFenced, FenceHolds, TheMachine, PTL

----------------------------------------------------------------------------
(* The revocation. *)

(* Only a rotation that is stored lets the intent be taken from the        *)
(* journal, and a stored rotation is never taken back.                     *)
RevInv ==
  /\ disk \in [journal : BOOLEAN, pinned : BOOLEAN, stored : Epoch]
  /\ RevokedIsRotated
  /\ key.lock = "finishing" => disk.stored = "new"
  /\ key \in [epoch : Epoch, lock : {"open", "closing", "finishing"}, halted : BOOLEAN,
              link : {"down", "resuming", "ready"}, cuts : Nat]

LEMMA RevStart == Init => RevInv
  BY SpoolAssumption DEF Init, RevInv, RevokedIsRotated, Epoch

LEMMA CutKeeps == ASSUME RevInv, NEW n \in 0 .. Done, Cut(n) PROVE RevInv'
<1> USE DEF RevInv, RevokedIsRotated, Epoch, Done
<1>1. disk' = Durable(n)
  BY DEF Cut
<1>2. disk' \in [journal : BOOLEAN, pinned : BOOLEAN, stored : {"old", "new"}] /\ RevokedIsRotated'
  BY <1>1 DEF Durable
<1>3. CASE n = Done
  <2>1. disk'.stored = "new" /\ key' = [key EXCEPT !.lock = "finishing", !.epoch = "new", !.halted = FALSE]
    BY <1>1, <1>3 DEF Durable, Cut
  <2> QED BY <1>2, <2>1
<1>4. CASE n # Done
  <2>1. key' = [key EXCEPT !.lock = "open", !.halted = TRUE]
    BY <1>4 DEF Cut
  <2> QED BY <1>2, <2>1
<1> QED BY <1>3, <1>4

LEMMA CompleteKeeps ==
  ASSUME RevInv, NEW ok \in BOOLEAN, NEW left \in BOOLEAN, Complete(ok, left) PROVE RevInv'
  BY DEF RevInv, RevokedIsRotated, Epoch, Complete

LEMMA RevKeeps == RevInv /\ [Next]_vars => RevInv'
<1> SUFFICES ASSUME RevInv, [Next]_vars PROVE RevInv'
  OBVIOUS
<1>0. ASSUME UNCHANGED keyVars PROVE RevInv'
  BY <1>0 DEF RevInv, RevokedIsRotated, keyVars
<1>1. ASSUME NEW r \in Recipient, TakeTerminal(r) \/ Publish(r) \/ Publishing(r) PROVE UNCHANGED keyVars
  <2>1. ASSUME NEW ok \in BOOLEAN, Seal(r, ok) PROVE UNCHANGED keyVars
    BY <2>1 DEF Seal
  <2> QED BY <1>1, <2>1 DEF TakeTerminal, Publish, PublishHalted, Reserve, Publishing, Fenced, Await
<1>2. ASSUME NEW g \in Drain, DrainStep(g) PROVE UNCHANGED keyVars
  BY <1>2 DEF DrainStep, InFlight, Resend, TellBurned, Leave, Tick, SendNext, SendHalted, Write, WriteLost
<1>3. ASSUME NEW s \in Seqs, Expire(s) \/ \E o \in {"delivered", "refused"} : Receipt(s, o) PROVE UNCHANGED keyVars
  BY <1>3 DEF Expire, Receipt
<1>4. CASE ReceiptTold \/ Disconnect \/ Connect
  BY <1>0, <1>4 DEF ReceiptTold, Disconnect, Connect
<1>5. CASE Revoke
  <2>1. key.cuts \in Nat /\ key.cuts + 1 \in Nat /\ UNCHANGED disk
    BY <1>5 DEF Revoke, RevInv
  <2>2. key' = [key EXCEPT !.lock = "closing", !.cuts = key.cuts + 1]
    BY <1>5 DEF Revoke, RevInv
  <2> QED BY <2>1, <2>2 DEF RevInv, RevokedIsRotated
<1>6. CASE Revoking
  BY <1>6, CutKeeps, CompleteKeeps DEF Revoking
<1>7. CASE Boot
  BY <1>7 DEF Boot, LinkAtBoot, RevInv, RevokedIsRotated
<1>8. CASE Crash
  BY <1>8 DEF Crash, RevInv, RevokedIsRotated
<1>9. CASE UNCHANGED vars
  BY <1>0, <1>9 DEF vars
<1> QED BY <1>0, <1>1, <1>2, <1>3, <1>4, <1>5, <1>6, <1>7, <1>8, <1>9 DEF Next

(* A viewer without its pin is still in the journal or has cost the        *)
(* machine its key, wherever a revocation failed or a daemon died          *)
(* (revokeContentViewerWithJournal, resumeRevocation).                     *)
THEOREM RevocationKept == Spec => []RevokedIsRotated
<1>1. RevInv => RevokedIsRotated
  BY DEF RevInv
<1> QED BY <1>1, RevStart, RevKeeps, PTL DEF Spec

----------------------------------------------------------------------------
(* The table. *)

Table == [Seqs -> Row \cup {NoRow}]

(* What a row comes to without its publisher, its socket or the relay.     *)
Fades(a, b) ==
  \/ b = a
  \/ a.st = "ready" /\ b = NoRow
  \/ /\ a.st \in {"reserved", "ready", "sent"} /\ b.st = "burned"
     /\ a \in Row /\ b \in Row /\ b.key = a.key /\ b.told = a.told

LEMMA RowTo ==
  ASSUME NEW row \in Row, NEW st \in RowStates
  PROVE  /\ To(row, st) \in Row
         /\ To(row, st).st = st /\ To(row, st).key = row.key /\ To(row, st).told = row.told
  BY DEF To, Row

LEMMA IsRow ==
  ASSUME NEW tbl \in Table, NEW s \in Seqs
  PROVE  /\ tbl[s] \in Row <=> tbl[s].st # "none"
         /\ tbl[s].st = "none" => tbl[s] = NoRow
         /\ tbl[s].st \in RowStates \cup {"none"}
  BY DEF Table, Row, NoRow, RowStates

LEMMA BurnFades ==
  ASSUME NEW tbl \in Table, NEW S, S \subseteq Owed(tbl)
  PROVE  /\ Burn(tbl, S) \in Table
         /\ \A s \in Seqs : Fades(tbl[s], Burn(tbl, S)[s])
         /\ \A s \in Seqs : s \notin S => Burn(tbl, S)[s] = tbl[s]
         /\ \A s \in S : s \in Seqs /\ Burn(tbl, S)[s].st = "burned"
<1>1. ASSUME NEW s \in S PROVE s \in Seqs /\ tbl[s] \in Row /\ tbl[s].st \in {"reserved", "ready", "sent"}
  BY <1>1, IsRow DEF Owed, In
<1>2. \A s \in S : To(tbl[s], "burned") \in Row /\ To(tbl[s], "burned").st = "burned"
                  /\ To(tbl[s], "burned").key = tbl[s].key /\ To(tbl[s], "burned").told = tbl[s].told
  BY <1>1, RowTo DEF RowStates
<1>3. Burn(tbl, S) = [s \in Seqs |-> IF s \in S THEN To(tbl[s], "burned") ELSE tbl[s]]
  BY DEF Burn
<1>4. Burn(tbl, S) \in Table
  BY <1>2, <1>3 DEF Table
<1>5. \A s \in Seqs : Burn(tbl, S)[s] = IF s \in S THEN To(tbl[s], "burned") ELSE tbl[s]
  BY <1>3
<1> QED BY <1>1, <1>2, <1>4, <1>5 DEF Fades

LEMMA ForgetFades ==
  ASSUME NEW tbl \in Table, NEW S, S \subseteq In(tbl, {"ready"})
  PROVE  /\ Forget(tbl, S) \in Table
         /\ \A s \in Seqs : Forget(tbl, S)[s] = tbl[s] \/ (tbl[s].st = "ready" /\ Forget(tbl, S)[s] = NoRow)
  BY DEF Forget, Table, In

(* Told: the flag alone. *)
LEMMA AllToldIs ==
  ASSUME NEW tbl \in Table
  PROVE  /\ AllTold(tbl) \in Table
         /\ \A s \in Seqs : AllTold(tbl)[s].st = tbl[s].st
         /\ \A s \in Seqs : tbl[s].st # "none" =>
              AllTold(tbl)[s].key = tbl[s].key /\ AllTold(tbl)[s].told = (tbl[s].told \/ s \in Untold(tbl))
         /\ Untold(tbl) \subseteq Seqs
<1>1. \A s \in Untold(tbl) : s \in Seqs /\ tbl[s] \in Row
  BY IsRow DEF Untold, In
<1>2. \A s \in Untold(tbl) : /\ [tbl[s] EXCEPT !.told = TRUE] \in Row
                            /\ [tbl[s] EXCEPT !.told = TRUE].st = tbl[s].st
                            /\ [tbl[s] EXCEPT !.told = TRUE].key = tbl[s].key
                            /\ [tbl[s] EXCEPT !.told = TRUE].told = TRUE
  BY <1>1 DEF Row
<1>3. AllTold(tbl) = [s \in Seqs |-> IF s \in Untold(tbl) THEN [tbl[s] EXCEPT !.told = TRUE] ELSE tbl[s]]
  BY DEF AllTold
<1>4. AllTold(tbl) \in Table
  BY <1>2, <1>3 DEF Table
<1>5. \A s \in Seqs : AllTold(tbl)[s] = IF s \in Untold(tbl) THEN [tbl[s] EXCEPT !.told = TRUE] ELSE tbl[s]
  BY <1>3
<1>6. ASSUME NEW s \in Seqs, tbl[s].st # "none" PROVE tbl[s].told \in BOOLEAN
  BY <1>6, IsRow DEF Row
<1>7. ASSUME NEW s \in Seqs, tbl[s].st # "none"
      PROVE  AllTold(tbl)[s].told = (tbl[s].told \/ s \in Untold(tbl))
  <2>1. CASE s \in Untold(tbl)
    BY <1>2, <1>5, <2>1
  <2>2. CASE s \notin Untold(tbl)
    BY <1>5, <1>6, <1>7, <2>2
  <2> QED BY <2>1, <2>2
<1> QED BY <1>1, <1>2, <1>4, <1>5, <1>7

LEMMA LeastIs ==
  ASSUME NEW S \in SUBSET Seqs, S # {}
  PROVE  Least(S) \in S /\ \A t \in S : Least(S) <= t
<1>1. S \in SUBSET Nat
  BY FenceAssumption DEF Seqs
<1>2. \E n \in S : \A m \in S : n <= m
  <2>1. IsWellFoundedOn(OpToRel(<, Nat), Nat)
    BY NatLessThanWellFounded
  <2>2. PICK n \in S : \A m \in S : ~(<<m, n>> \in OpToRel(<, Nat))
    BY <1>1, <2>1, WFMin
  <2>3. \A m \in S : ~(m < n)
    BY <1>1, <2>2 DEF OpToRel
  <2> QED BY <1>1, <2>3
<1> QED BY <1>2 DEF Least


----------------------------------------------------------------------------
(* What is inductive.  Rows lie below the counter, and a row that was      *)
(* written, or is about to be, below every row that is still to be.        *)

Drains == [Drain -> [pc : {"off", "start", "resend", "rewriting", "tick", "tell", "send", "writing"},
                     todo : SUBSET Seqs, row : Seqs \cup {None}, next : {"off", "send", "tick"}]]

Gone(s)   == rows[s].st \in {"sent", "acked", "rejected", "burned"}
Over(s)   == rows[s].st \in {"acked", "rejected"}
ToldOf(s) == rows[s].st = "burned" /\ rows[s].told

Behind(s) == s < nextSeq[M] /\ \A t \in In(rows, {"reserved", "ready"}) : s < t

RowsFit ==
  /\ \A r \in Recipient : pub[r].pc \in {"fencing", "reserved", "sealed"} => pub[r].seq \in Seqs
  /\ \A s \in Seqs : rows[s].st # "none" => fence[M] # "closed" /\ s < nextSeq[M]
  /\ SentInOrder

(* A row's word is given by one goroutine: the reader for what the relay   *)
(* settled, one drain for what burned.                                     *)
TellsFit ==
  /\ \A s \in Seqs : rows[s].st # "none" /\ rows[s].told => rows[s].st = "burned"
  /\ \A s \in Seqs : heard[s] > 0 => Over(s) \/ ToldOf(s)
  /\ reader # NoReceipt => reader.seq \in Seqs /\ Over(reader.seq) /\ heard[reader.seq] = 0
  /\ \A g \in Drain : drain[g].pc = "tell" =>
       drain[g].todo # {} /\ \A s \in drain[g].todo : ToldOf(s) /\ heard[s] = 0
  /\ \A g, h \in Drain : drain[g].pc = "tell" /\ drain[h].pc = "tell" /\ g # h =>
       drain[g].todo \cap drain[h].todo = {}
  /\ HeardOnce

(* What a drain still has to write lies ahead of what its socket has.      *)
Ahead(g) ==
  /\ Writing(g) => wrote < drain[g].row
  /\ drain[g].pc \in {"resend", "rewriting"} => \A t \in drain[g].todo : wrote < t

ToWrite(g) ==
  /\ drain[g].pc = "resend" => drain[g].todo # {}
  /\ Writing(g) => drain[g].row \in Seqs /\ Gone(drain[g].row) /\ Behind(drain[g].row)
  /\ drain[g].pc \in {"resend", "rewriting"} => \A t \in drain[g].todo : Gone(t) /\ Behind(t)
  /\ drain[g].pc = "rewriting" => \A t \in drain[g].todo : drain[g].row < t

WritesFit ==
  /\ wrote # None => gen # 0 /\ Behind(wrote) /\ drain[gen].pc # "start" /\ Ahead(gen)
  /\ \A g \in Drain : ToWrite(g)

(* A key that may seal and write is the stored one; what is being written  *)
(* is sealed under it, and no revocation can pass while it is.             *)
Readable(s) ==
  /\ rows[s].key \in {"rk", disk.stored}
  /\ ~disk.pinned => rows[s].key # "old"

KeysFit ==
  /\ fence[M] = "closed" =>
       /\ key.link = "down" /\ key.lock = "open" /\ wrote = None
       /\ \A g \in Drain : drain[g].pc = "off"
  /\ key.link = "down" => fence[M] = "closed"
  /\ \A g \in Drain : drain[g].pc # "off" => key.link = "ready"
  /\ key.link # "down" /\ ~key.halted => key.epoch = disk.stored
  /\ key.link = "ready" /\ ~key.halted => disk.pinned \/ disk.stored = "new"
  /\ \A g \in Drain : Writing(g) => Readable(drain[g].row)

SpoolInv == FenceInv /\ RevInv /\ TypeOK /\ RowsFit /\ TellsFit /\ WritesFit /\ KeysFit


----------------------------------------------------------------------------
(* How a row may move when nobody sends it, and what that leaves true.     *)

Turns(s) ==
  \/ rows'[s].st = rows[s].st
  \/ rows[s].st = "ready" /\ rows'[s].st = "none"
  \/ rows[s].st = "reserved" /\ rows'[s].st \in {"ready", "burned"}
  \/ rows[s].st = "ready" /\ rows'[s].st = "burned"
  \/ rows[s].st = "sent" /\ rows'[s].st \in {"burned", "acked", "rejected"}
  \/ /\ rows[s].st = "none" /\ rows'[s].st = "reserved"
     /\ s = nextSeq[M] /\ nextSeq'[M] = s + 1 /\ fence[M] # "closed"

Keeps(s) ==
  /\ Turns(s)
  /\ Gone(s) => rows'[s].key = rows[s].key
  /\ ToldOf(s) => rows'[s].told
  /\ rows'[s].st # "none" /\ rows'[s].told => rows'[s].st = "burned"

FenceStays ==
  /\ nextSeq[M] \in Nat /\ nextSeq'[M] \in Nat /\ nextSeq'[M] >= nextSeq[M]
  /\ (fence'[M] = "closed") <=> (fence[M] = "closed")

PubsFit == \A r \in Recipient : pub[r].pc \in {"fencing", "reserved", "sealed"} => pub[r].seq \in Seqs

LEMMA SeqsAreNats == Seqs \in SUBSET Nat
  BY FenceAssumption DEF Seqs

LEMMA FenceSame ==
  ASSUME FenceInv, UNCHANGED fenceVars
  PROVE  FenceStays
  BY TheMachine DEF FenceInv, FenceTypeOK, fenceVars, FenceStays

LEMMA OrderKept ==
  ASSUME RowsFit, FenceStays, \A s \in Seqs : Turns(s), PubsFit'
  PROVE  /\ RowsFit'
         /\ \A s \in Seqs : Behind(s) => Behind(s)'
         /\ \A s \in Seqs : Gone(s) => Gone(s)'
<1> USE SeqsAreNats
<1>1. \A s \in Seqs : rows'[s].st # "none" => fence'[M] # "closed" /\ s < nextSeq'[M]
  BY DEF Turns, RowsFit, FenceStays
<1>2. \A t \in Seqs : rows'[t].st \in {"reserved", "ready"} =>
        rows[t].st \in {"reserved", "ready"} \/ t = nextSeq[M]
  BY DEF Turns
<1>3. \A s \in Seqs : rows'[s].st = "sent" => rows[s].st = "sent"
  BY DEF Turns
<1>4. ASSUME NEW s \in Seqs, Behind(s) PROVE Behind(s)'
  <2>1. s < nextSeq'[M]
    BY <1>4 DEF Behind, FenceStays
  <2>2. ASSUME NEW t \in Seqs, rows'[t].st \in {"reserved", "ready"} PROVE s < t
    BY <1>2, <1>4, <2>2 DEF Behind, In
  <2> QED BY <2>1, <2>2 DEF Behind, In
<1>5. SentInOrder'
  <2> SUFFICES ASSUME NEW s \in Seqs, NEW t \in Seqs, rows'[s].st = "sent", rows'[t].st \in {"reserved", "ready"}
               PROVE  s < t
    BY DEF SentInOrder, In
  <2>1. rows[s].st = "sent" /\ s < nextSeq[M]
    BY <1>3 DEF RowsFit
  <2> QED BY <1>2, <2>1 DEF RowsFit, SentInOrder, In
<1>6. \A s \in Seqs : Gone(s) => Gone(s)'
  BY DEF Turns, Gone
<1> QED BY <1>1, <1>4, <1>5, <1>6 DEF RowsFit, PubsFit

TellsStay(s) ==
  /\ Over(s) => Over(s)'
  /\ ToldOf(s) => ToldOf(s)'
  /\ rows'[s].st # "none" /\ rows'[s].told => rows'[s].st = "burned"

LEMMA KeepsTells == ASSUME NEW s \in Seqs, Keeps(s) PROVE TellsStay(s)
  BY DEF Keeps, Turns, Over, ToldOf, TellsStay

LEMMA TellsKept ==
  ASSUME TellsFit, \A s \in Seqs : TellsStay(s), UNCHANGED <<heard, reader>>,
         drain \in Drains,
         \A h \in Drain : drain'[h].pc = "tell" => drain'[h] = drain[h]
  PROVE  TellsFit'
<1>1. \A s \in Seqs : (Over(s) => Over(s)') /\ (ToldOf(s) => ToldOf(s)')
  BY DEF TellsStay
<1>2. \A s \in Seqs : rows'[s].st # "none" /\ rows'[s].told => rows'[s].st = "burned"
  BY DEF TellsStay
<1>3. \A s \in Seqs : heard'[s] > 0 => Over(s)' \/ ToldOf(s)'
  BY <1>1 DEF TellsFit
<1>4. reader' # NoReceipt => reader'.seq \in Seqs /\ Over(reader.seq)' /\ heard'[reader'.seq] = 0
  BY <1>1 DEF TellsFit
<1>5. ASSUME NEW g \in Drain, drain'[g].pc = "tell"
      PROVE  drain'[g].todo # {} /\ \A s \in drain'[g].todo : ToldOf(s)' /\ heard'[s] = 0
  <2>1. drain'[g] = drain[g] /\ drain[g].pc = "tell" /\ drain[g].todo \subseteq Seqs
    BY <1>5 DEF Drains
  <2> QED BY <1>1, <1>5, <2>1 DEF TellsFit
<1>6. ASSUME NEW g \in Drain, NEW h \in Drain, drain'[g].pc = "tell", drain'[h].pc = "tell", g # h
      PROVE  drain'[g].todo \cap drain'[h].todo = {}
  BY <1>6 DEF TellsFit
<1> QED BY <1>2, <1>3, <1>4, <1>5, <1>6 DEF TellsFit, HeardOnce

(* What a drain that writes nothing has to keep of it. *)
LEMMA Unwritten ==
  ASSUME NEW g \in Drain, drain'[g].pc \in {"off", "tick", "tell", "send"}
  PROVE  drain'[g].pc # "start" /\ ToWrite(g)' /\ Ahead(g)' /\ ~Writing(g)'
  BY DEF ToWrite, Ahead, Writing

LEMMA WritesKept ==
  ASSUME TypeOK, WritesFit, UNCHANGED <<wrote, gen>>,
         \A s \in Seqs : (Behind(s) => Behind(s)') /\ (Gone(s) => Gone(s)'),
         \A h \in Drain : (drain'[h] = drain[h])
                          \/ (drain'[h].pc # "start" /\ ToWrite(h)' /\ (wrote # None /\ h = gen => Ahead(h)'))
  PROVE  WritesFit'
<1>0. drain \in Drains
  BY DEF TypeOK, Drains
<1>1. wrote # None => wrote \in Seqs /\ gen \in Drain
  BY SpoolAssumption DEF WritesFit, TypeOK, Drain
<1>2. wrote' # None => gen' # 0 /\ Behind(wrote)' /\ drain'[gen].pc # "start" /\ Ahead(gen)'
  <2> SUFFICES ASSUME wrote # None PROVE gen' # 0 /\ Behind(wrote)' /\ drain'[gen].pc # "start" /\ Ahead(gen)'
    OBVIOUS
  <2>1. gen' # 0 /\ Behind(wrote)'
    BY <1>1 DEF WritesFit
  <2>2. CASE drain'[gen] = drain[gen]
    BY <1>1, <2>1, <2>2 DEF WritesFit, Ahead, Writing
  <2>3. CASE drain'[gen].pc # "start" /\ Ahead(gen)'
    BY <2>1, <2>3
  <2> QED BY <1>1, <2>2, <2>3
<1>3. ASSUME NEW g \in Drain PROVE ToWrite(g)'
  <2>1. CASE drain'[g] = drain[g]
    <3>1. drain[g].todo \subseteq Seqs
      BY <1>0 DEF Drains
    <3> QED BY <2>1, <3>1 DEF WritesFit, ToWrite, Writing
  <2>2. CASE ToWrite(g)'
    BY <2>2
  <2> QED BY <2>1, <2>2
<1> QED BY <1>2, <1>3 DEF WritesFit

LEMMA KeysKept ==
  ASSUME KeysFit, WritesFit, FenceStays, UNCHANGED key, wrote' = wrote \/ fence[M] # "closed",
         disk'.stored = disk.stored, disk'.pinned = disk.pinned,
         \A s \in Seqs : Gone(s) => rows'[s].key = rows[s].key,
         \A h \in Drain : (drain'[h] = drain[h])
                          \/ ((Writing(h)' => Readable(drain[h].row)') /\ (drain'[h].pc # "off" => key.link = "ready"))
  PROVE  KeysFit'
<1>1. fence'[M] = "closed" => key'.link = "down" /\ key'.lock = "open" /\ wrote' = None
                            /\ \A g \in Drain : drain'[g].pc = "off"
  BY DEF KeysFit, FenceStays
<1>2. \A g \in Drain : drain'[g].pc # "off" => key'.link = "ready"
  BY DEF KeysFit
<1>3. ASSUME NEW g \in Drain, Writing(g)', drain'[g] = drain[g] PROVE Readable(drain[g].row)'
  <2>1. Writing(g)
    BY <1>3 DEF Writing
  <2>2. drain[g].row \in Seqs /\ Gone(drain[g].row) /\ Readable(drain[g].row)
    BY <2>1 DEF WritesFit, ToWrite, KeysFit
  <2> QED BY <1>3, <2>2 DEF Readable
<1>4. /\ key'.link # "down" /\ ~key'.halted => key'.epoch = disk'.stored
      /\ key'.link = "ready" /\ ~key'.halted => disk'.pinned \/ disk'.stored = "new"
      /\ key'.link = "down" => fence'[M] = "closed"
  BY DEF KeysFit, FenceStays
<1>5. \A g \in Drain : Writing(g)' => Readable(drain[g].row)'
  BY <1>3
<1> QED BY <1>1, <1>2, <1>4, <1>5 DEF KeysFit

(* Of a step that writes nothing and tells nothing. *)
LEMMA Still ==
  ASSUME SpoolInv, FenceStays, PubsFit', \A s \in Seqs : Keeps(s),
         UNCHANGED <<heard, reader, wrote, gen>>,
         \A h \in Drain : (drain'[h] = drain[h]) \/ drain'[h].pc \in {"off", "tick", "send"}
  PROVE  RowsFit' /\ TellsFit' /\ WritesFit'
<1>0. TypeOK /\ RowsFit /\ TellsFit /\ WritesFit
  BY DEF SpoolInv
<1>1. RowsFit' /\ \A s \in Seqs : (Behind(s) => Behind(s)') /\ (Gone(s) => Gone(s)')
  BY <1>0, OrderKept DEF Keeps
<1>2. TellsFit'
  <2>1. drain \in Drains
    BY <1>0 DEF TypeOK, Drains
  <2>2. \A h \in Drain : drain'[h].pc = "tell" => drain'[h] = drain[h]
    OBVIOUS
  <2> QED BY <1>0, <2>1, <2>2, KeepsTells, TellsKept
<1>3. WritesFit'
  BY <1>0, <1>1, Unwritten, WritesKept
<1> QED BY <1>1, <1>2, <1>3

LEMMA Quiet ==
  ASSUME SpoolInv, FenceStays, PubsFit', \A s \in Seqs : Keeps(s),
         UNCHANGED <<heard, reader, wrote, gen, keyVars>>,
         \A h \in Drain : (drain'[h] = drain[h])
                          \/ (drain'[h].pc \in {"off", "tick", "send"} /\ drain[h].pc # "off")
  PROVE  RowsFit' /\ TellsFit' /\ WritesFit' /\ KeysFit'
<1>1. RowsFit' /\ TellsFit' /\ WritesFit'
  BY Still
<1>2. KeysFit'
  <2>1. \A h \in Drain : (drain'[h] = drain[h])
                         \/ ((Writing(h)' => Readable(drain[h].row)') /\ (drain'[h].pc # "off" => key.link = "ready"))
    BY Unwritten DEF SpoolInv, KeysFit
  <2>2. \A s \in Seqs : Gone(s) => rows'[s].key = rows[s].key
    BY DEF Keeps
  <2>3. UNCHANGED <<key, wrote>> /\ disk'.stored = disk.stored /\ disk'.pinned = disk.pinned
    BY DEF keyVars
  <2>4. KeysFit /\ WritesFit
    BY DEF SpoolInv
  <2> QED BY <2>1, <2>2, <2>3, <2>4, KeysKept
<1> QED BY <1>1, <1>2


Fits == TypeOK /\ RowsFit /\ TellsFit /\ WritesFit /\ KeysFit

LEMMA FadesKeeps ==
  ASSUME TypeOK, TellsFit, NEW s \in Seqs, rows' \in Table, Fades(rows[s], rows'[s])
  PROVE  Keeps(s)
<1>1. rows[s].st \in RowStates \cup {"none"}
  BY IsRow DEF TypeOK, Table
<1>2. CASE rows'[s] = rows[s]
  BY <1>2 DEF TellsFit, Keeps, Turns, Gone, ToldOf
<1>3. CASE rows[s].st = "ready" /\ rows'[s] = NoRow
  BY <1>3 DEF Keeps, Turns, Gone, ToldOf, NoRow
<1>4. CASE /\ rows[s].st \in {"reserved", "ready", "sent"} /\ rows'[s].st = "burned"
           /\ rows'[s].key = rows[s].key
  BY <1>4 DEF Keeps, Turns, Gone, ToldOf
<1> QED BY <1>2, <1>3, <1>4 DEF Fades

LEMMA RowsSame ==
  ASSUME TypeOK, TellsFit, UNCHANGED rows
  PROVE  \A s \in Seqs : Keeps(s)
<1>1. rows' \in Table /\ \A s \in Seqs : Fades(rows[s], rows'[s])
  BY DEF TypeOK, Table, Fades
<1> QED BY <1>1, FadesKeeps

Pubs == [Recipient -> [pc : {"idle", "over", "entering", "fencing", "reserved", "sealed"},
                       seq : Seqs \cup {None}]]

LEMMA PubMoves ==
  ASSUME pub \in Pubs, PubsFit, NEW r \in Recipient,
         NEW pc \in {"idle", "over", "entering", "fencing", "reserved", "sealed"}, PubAt(r, pc),
         pc \in {"fencing", "reserved", "sealed"} => pub[r].pc \in {"fencing", "reserved", "sealed"}
  PROVE  pub' \in Pubs /\ PubsFit'
<1> DEFINE p == [(IF pc \in {"idle", "over"} THEN Idle ELSE pub[r]) EXCEPT !.pc = pc]
<1>1. /\ pub' = [pub EXCEPT ![r] = p]
  BY DEF PubAt, Pubs
<1>2. p \in [pc : {"idle", "over", "entering", "fencing", "reserved", "sealed"}, seq : Seqs \cup {None}]
  BY DEF Idle, Pubs
<1>3. p.pc = pc /\ (pc \notin {"idle", "over"} => p.seq = pub[r].seq)
  BY DEF Idle, Pubs
<1> HIDE DEF p
<1>4. pub' \in Pubs
  BY <1>1, <1>2 DEF Pubs
<1>5. \A q \in Recipient : pub'[q] = IF q = r THEN p ELSE pub[q]
  BY <1>1 DEF Pubs
<1> QED BY <1>3, <1>4, <1>5 DEF PubsFit

LEMMA PubFailsMoves ==
  ASSUME pub \in Pubs, PubsFit, NEW r \in Recipient, PubFails(r)
  PROVE  pub' \in Pubs /\ PubsFit'
<1>1. PubAt(r, "over") \/ PubAt(r, "idle")
  BY DEF PubFails
<1>2. CASE PubAt(r, "over")
  BY <1>2, PubMoves
<1>3. CASE PubAt(r, "idle")
  BY <1>3, PubMoves
<1> QED BY <1>1, <1>2, <1>3

(* A step of the publishers, or the clock: rows only move on, and nothing  *)
(* of the sockets or the key changes.                                      *)
LEMMA PublisherStep ==
  ASSUME SpoolInv, FenceInv', FenceStays, rows' \in Table, pub' \in Pubs, PubsFit',
         \A s \in Seqs : Keeps(s), awaits' \in [Terminal -> Seqs \cup {None}],
         UNCHANGED <<heard, sockVars, keyVars>>
  PROVE  Fits'
<1>1. UNCHANGED <<heard, reader, wrote, gen, drain, sock, key, disk>>
  BY DEF sockVars, keyVars
<1>2. RowsFit' /\ TellsFit' /\ WritesFit' /\ KeysFit'
  BY <1>1, Quiet DEF keyVars
<1>3. TypeOK'
  BY <1>1 DEF SpoolInv, TypeOK, FenceInv, Table, Pubs
<1> QED BY <1>2, <1>3 DEF Fits

LEMMA Known ==
  ASSUME SpoolInv
  PROVE  /\ TypeOK /\ RowsFit /\ TellsFit /\ WritesFit /\ KeysFit /\ FenceInv
         /\ rows \in Table /\ pub \in Pubs /\ PubsFit /\ drain \in Drains
         /\ awaits \in [Terminal -> Seqs \cup {None}]
         /\ nextSeq[M] \in Nat /\ M \in Fence
  BY TheMachine DEF SpoolInv, TypeOK, Table, Pubs, PubsFit, Drains, RowsFit, FenceTypeOK

LEMMA TakeTerminalFits ==
  ASSUME SpoolInv, FenceInv', NEW r \in Recipient, TakeTerminal(r) \/ PublishHalted(r) \/ Await(r)
  PROVE  Fits'
<1>1. UNCHANGED <<fenceVars, rows, heard, sockVars, keyVars>>
  BY DEF TakeTerminal, PublishHalted, Await
<1>2. FenceStays /\ \A s \in Seqs : Keeps(s)
  BY <1>1, Known, FenceSame, RowsSame
<1>3. CASE TakeTerminal(r)
  BY <1>1, <1>2, <1>3, Known, PubMoves, PublisherStep DEF TakeTerminal
<1>4. CASE PublishHalted(r)
  BY <1>1, <1>2, <1>4, Known, PubFailsMoves, PublisherStep DEF PublishHalted
<1>5. CASE Await(r)
  <2>1. pub' \in Pubs /\ PubsFit'
    BY <1>5, Known, PubMoves DEF Await, PubEnds
  <2>2. pub[r].seq \in Seqs
    BY <1>5, Known DEF Await, PubsFit
  <2>3. awaits' \in [Terminal -> Seqs \cup {None}]
    BY <1>5, <2>2, Known DEF Await
  <2> QED BY <1>1, <1>2, <2>1, <2>3, Known, PublisherStep
<1> QED BY <1>3, <1>4, <1>5

LEMMA ExpireFits ==
  ASSUME SpoolInv, FenceInv', NEW s \in Seqs, Expire(s)
  PROVE  Fits'
<1>1. UNCHANGED <<fenceVars, pub, awaits, heard, sockVars, keyVars>>
  BY DEF Expire
<1>2. rows[s] \in Row /\ rows[s].st \in {"reserved", "ready", "sent"}
  BY Known, IsRow DEF Expire, Owed, In
<1>3. rows' = [rows EXCEPT ![s] = [rows[s] EXCEPT !.late = TRUE]]
  BY Known DEF Expire, Table
<1> DEFINE row == [rows[s] EXCEPT !.late = TRUE]
<1>4. row \in Row /\ row.st = rows[s].st /\ row.key = rows[s].key /\ row.told = rows[s].told
  BY <1>2 DEF Row
<1> HIDE DEF row
<1>5. rows' \in Table /\ \A t \in Seqs : rows'[t] = IF t = s THEN row ELSE rows[t]
  BY <1>3, <1>4, Known DEF row, Table
<1>6. \A t \in Seqs : Keeps(t)
  BY <1>2, <1>4, <1>5, Known DEF Keeps, Turns, Gone, ToldOf, TellsFit
<1> QED BY <1>1, <1>5, <1>6, Known, FenceSame, PublisherStep DEF PubsFit

LEMMA SealFits ==
  ASSUME SpoolInv, FenceInv', NEW r \in Recipient, NEW ok \in BOOLEAN, Seal(r, ok)
  PROVE  Fits'
<1> DEFINE s == pub[r].seq
<1>1. UNCHANGED <<fenceVars, awaits, heard, sockVars, keyVars>>
  BY DEF Seal
<1>2. s \in Seqs
  BY Known DEF Seal, PubsFit
<1>3. pub' \in Pubs /\ PubsFit'
  <2>1. PubFails(r) \/ PubAt(r, "sealed") \/ PubAt(r, "idle")
    BY DEF Seal
  <2>2. pub[r].pc = "reserved"
    BY DEF Seal
  <2>3. CASE PubFails(r)
    BY <2>3, Known, PubFailsMoves
  <2>4. CASE PubAt(r, "sealed")
    BY <2>2, <2>4, Known, PubMoves
  <2>5. CASE PubAt(r, "idle")
    BY <2>5, Known, PubMoves
  <2> QED BY <2>1, <2>3, <2>4, <2>5
<1>4. CASE rows[s].st # "reserved"
  <2>1. UNCHANGED rows
    BY <1>4 DEF Seal
  <2> QED BY <1>1, <1>3, <2>1, Known, FenceSame, RowsSame, PublisherStep
<1>5. CASE rows[s].st = "reserved"
  <2>1. rows[s] \in Row
    BY <1>2, <1>5, Known, IsRow
  <2> DEFINE labelled == [rows[s] EXCEPT !.key = Label(r)]
             row == IF ok THEN To(labelled, "ready") ELSE labelled
  <2>2. labelled \in Row /\ labelled.st = "reserved" /\ labelled.told = rows[s].told
    BY <1>5, <2>1, Known DEF Row, Label, TypeOK
  <2>3. row \in Row /\ row.st \in {"reserved", "ready"} /\ row.told = rows[s].told
    <3>1. To(labelled, "ready") \in Row /\ To(labelled, "ready").st = "ready"
          /\ To(labelled, "ready").told = labelled.told
      BY <2>2, RowTo DEF RowStates
    <3> HIDE DEF labelled
    <3> QED BY <2>2, <3>1
  <2>4. rows' = [rows EXCEPT ![s] = row]
    BY <1>5 DEF Seal
  <2> HIDE DEF row, labelled
  <2>5. rows' \in Table /\ \A t \in Seqs : rows'[t] = IF t = s THEN row ELSE rows[t]
    BY <1>2, <2>3, <2>4, Known DEF Table
  <2>6. ~rows[s].told
    BY <1>2, <1>5, <2>1, Known DEF TellsFit, Row
  <2>7. \A t \in Seqs : Keeps(t)
    BY <1>5, <2>3, <2>5, <2>6, Known DEF Keeps, Turns, Gone, ToldOf, TellsFit
  <2> QED BY <1>1, <1>3, <2>5, <2>7, Known, FenceSame, PublisherStep
<1> QED BY <1>4, <1>5


(* What a reservation clears before it takes its sequence. *)
LEMMA Cleared ==
  ASSUME SpoolInv, NEW r \in Recipient
  PROVE  /\ Collect(Forget(rows, Superseded(r))) \in Table
         /\ \A s \in Seqs : Fades(rows[s], Collect(Forget(rows, Superseded(r)))[s])
<1> DEFINE one == Forget(rows, Superseded(r))
           two == Collect(one)
<1>1. Superseded(r) \subseteq In(rows, {"ready"})
  BY DEF Superseded
<1>2. one \in Table /\ \A s \in Seqs : one[s] = rows[s] \/ (rows[s].st = "ready" /\ one[s] = NoRow)
  BY <1>1, Known, ForgetFades
<1> HIDE DEF one
<1>3. Late(one, {"reserved"}) \subseteq Owed(one)
  BY DEF Late, In, Owed
<1>4. two \in Table /\ \A s \in Seqs : Fades(one[s], two[s])
  BY <1>2, <1>3, BurnFades DEF Collect
<1>5. \A s \in Seqs : Fades(rows[s], two[s])
  BY <1>2, <1>4 DEF Fades, NoRow
<1> QED BY <1>4, <1>5 DEF one

LEMMA Reserving ==
  ASSUME SpoolInv, NEW r \in Recipient, NEW tbl \in Table, \A s \in Seqs : Fades(rows[s], tbl[s]),
         fence[M] # "closed", fence'[M] # "closed", InDomain(M), Take(M), rows' = Reserved(tbl, r)
  PROVE  FenceStays /\ rows' \in Table /\ \A s \in Seqs : Keeps(s)
<1> DEFINE n == nextSeq[M]
           row == [st |-> "reserved", to |-> r, key |-> None, late |-> FALSE, told |-> FALSE]
<1>1. n \in Seqs /\ n \in Nat
  BY Known, FenceAssumption DEF InDomain, Seqs
<1>2. nextSeq'[M] = n + 1
  BY Known DEF Take, FenceInv, FenceTypeOK
<1>3. row \in Row /\ row.st = "reserved" /\ ~row.told
  BY DEF Row, RowStates
<1>4. rows' = [tbl EXCEPT ![n] = row]
  BY DEF Reserved
<1> HIDE DEF row
<1>5. rows' \in Table /\ \A s \in Seqs : rows'[s] = IF s = n THEN row ELSE tbl[s]
  BY <1>1, <1>3, <1>4 DEF Table
<1>6. rows[n].st = "none"
  BY <1>1, Known DEF RowsFit
<1>7. Keeps(n)
  BY <1>1, <1>2, <1>3, <1>5, <1>6 DEF Keeps, Turns, Gone, ToldOf
<1>8. ASSUME NEW s \in Seqs, s # n PROVE Keeps(s)
  <2>1. Fades(rows[s], rows'[s])
    BY <1>5, <1>8
  <2> QED BY <1>5, <2>1, Known, FadesKeeps
<1> QED BY <1>1, <1>2, <1>5, <1>7, <1>8 DEF FenceStays

LEMMA ReserveFits ==
  ASSUME SpoolInv, FenceInv', NEW r \in Recipient, Reserve(r)
  PROVE  Fits'
<1> DEFINE tbl == Collect(Forget(rows, Superseded(r)))
<1>1. tbl \in Table /\ \A s \in Seqs : Fades(rows[s], tbl[s])
  BY Cleared
<1>2. fence[M] = "open" /\ UNCHANGED <<awaits, heard, sockVars, keyVars>>
  BY DEF Reserve
<1>3. CASE rows' = tbl /\ PubFails(r) /\ UNCHANGED fenceVars
  BY <1>1, <1>2, <1>3, Known, FenceSame, FadesKeeps, PubFailsMoves, PublisherStep
<1>4. CASE /\ HandOut(M) /\ rows' = Reserved(tbl, r)
           /\ pub' = [pub EXCEPT ![r] = [pc |-> "reserved", seq |-> nextSeq[M]]]
  <2>1. InDomain(M) /\ Take(M) /\ fence' = fence
    BY <1>4 DEF HandOut
  <2>2. nextSeq[M] \in Seqs
    BY <2>1, Known, FenceAssumption DEF InDomain, Seqs
  <2>3. pub' \in Pubs /\ PubsFit'
    BY <1>4, <2>2, Known DEF Pubs, PubsFit
  <2>4. FenceStays /\ rows' \in Table /\ \A s \in Seqs : Keeps(s)
    BY <1>1, <1>2, <1>4, <2>1, Reserving
  <2> QED BY <1>2, <2>3, <2>4, Known, PublisherStep
<1>5. CASE /\ ReadFile(M) /\ rows' = tbl
           /\ pub' = [pub EXCEPT ![r] = [pc |-> "fencing", seq |-> nextSeq[M]]]
  <2>1. InDomain(M) /\ nextSeq' = nextSeq /\ fence' = [fence EXCEPT ![M] = "writing"]
    BY <1>5 DEF ReadFile
  <2>2. nextSeq[M] \in Seqs
    BY <2>1, Known, FenceAssumption DEF InDomain, Seqs
  <2>3. pub' \in Pubs /\ PubsFit'
    BY <1>5, <2>2, Known DEF Pubs, PubsFit
  <2>4. FenceStays
    BY <1>2, <2>1, Known DEF FenceStays, FenceInv, FenceTypeOK
  <2>5. rows' \in Table /\ \A s \in Seqs : Keeps(s)
    BY <1>1, <1>5, Known, FadesKeeps
  <2> QED BY <1>2, <2>3, <2>4, <2>5, Known, PublisherStep
<1> QED BY <1>3, <1>4, <1>5 DEF Reserve

LEMMA FencedFits ==
  ASSUME SpoolInv, FenceInv', NEW r \in Recipient, Fenced(r)
  PROVE  Fits'
<1>1. pub[r].pc = "fencing" /\ UNCHANGED <<awaits, heard, sockVars, keyVars>>
  BY DEF Fenced
<1>2. CASE WriteFile(M) /\ rows' = Reserved(rows, r) /\ PubAt(r, "reserved")
  <2>1. fence[M] = "writing" /\ Take(M) /\ fence' = [fence EXCEPT ![M] = "open"]
    BY <1>2 DEF WriteFile
  <2>2. InDomain(M) /\ fence'[M] # "closed"
    BY <2>1, Known DEF FenceInv, FenceTypeOK, Covered
  <2>3. pub' \in Pubs /\ PubsFit'
    BY <1>1, <1>2, Known, PubMoves
  <2>4. FenceStays /\ rows' \in Table /\ \A s \in Seqs : Keeps(s)
    BY <1>2, <2>1, <2>2, Known, Reserving DEF Fades
  <2> QED BY <1>1, <2>3, <2>4, Known, PublisherStep
<1>3. CASE WriteFails(M) /\ rows' = rows /\ PubFails(r)
  <2>1. fence[M] = "writing" /\ nextSeq' = nextSeq /\ fence' = [fence EXCEPT ![M] = "open"]
    BY <1>3 DEF WriteFails
  <2>2. FenceStays
    BY <2>1, Known DEF FenceStays, FenceInv, FenceTypeOK
  <2> QED BY <1>1, <1>3, <2>2, Known, RowsSame, PubFailsMoves, PublisherStep
<1> QED BY <1>2, <1>3 DEF Fenced

----------------------------------------------------------------------------
(* The drains. *)

DrainAt == [pc : {"off", "start", "resend", "rewriting", "tick", "tell", "send", "writing"},
            todo : SUBSET Seqs, row : Seqs \cup {None}, next : {"off", "send", "tick"}]

LEMMA DrainMoves ==
  ASSUME SpoolInv, NEW g \in Drain, NEW d \in DrainAt, DrainTo(g, d)
  PROVE  drain' \in Drains /\ drain'[g] = d /\ \A h \in Drain : h # g => drain'[h] = drain[h]
  BY Known DEF DrainTo, Drains, DrainAt

LEMMA AtIs ==
  ASSUME NEW pc \in {"off", "start", "resend", "rewriting", "tick", "tell", "send", "writing"}
  PROVE  At(pc) \in DrainAt /\ At(pc).pc = pc
  BY DEF At, Off, DrainAt

LEMMA TellsIs ==
  ASSUME NEW S \in SUBSET Seqs, NEW next \in {"off", "send", "tick"}
  PROVE  /\ Tells(S, next) \in DrainAt
         /\ S = {} => Tells(S, next).pc = next
         /\ S # {} => Tells(S, next).pc = "tell" /\ Tells(S, next).todo = S
  BY DEF Tells, At, Off, DrainAt

LEMMA ResendingIs ==
  ASSUME NEW S \in SUBSET Seqs
  PROVE  /\ Resending(S) \in DrainAt
         /\ S = {} => Resending(S).pc = "tick"
         /\ S # {} => Resending(S).pc = "resend" /\ Resending(S).todo = S
  BY DEF Resending, At, Off, DrainAt

(* A step of the drain g that moves rows and itself, and tells nobody. *)
LEMMA DrainStepFits ==
  ASSUME SpoolInv, FenceInv', NEW g \in Drain, drain[g].pc # "off",
         UNCHANGED <<fenceVars, pub, awaits, heard, gen, reader, wrote, keyVars>>,
         sock' \in {"none", "up", "broken"}, rows' \in Table, RowsFit', TellsFit',
         \A s \in Seqs : (Behind(s) => Behind(s)') /\ (Gone(s) => Gone(s)' /\ rows'[s].key = rows[s].key),
         drain' \in Drains, \A h \in Drain : h # g => drain'[h] = drain[h],
         drain'[g].pc # "start", ToWrite(g)', wrote # None /\ g = gen => Ahead(g)',
         Writing(g)' => Readable(drain[g].row)'
  PROVE  Fits'
<1>1. WritesFit'
  <2>1. \A h \in Drain : (drain'[h] = drain[h])
                         \/ (drain'[h].pc # "start" /\ ToWrite(h)' /\ (wrote # None /\ h = gen => Ahead(h)'))
    OBVIOUS
  <2> QED BY <2>1, Known, WritesKept
<1>2. KeysFit'
  <2>1. key.link = "ready"
    BY Known DEF KeysFit
  <2>2. UNCHANGED <<key, wrote>> /\ disk'.stored = disk.stored /\ disk'.pinned = disk.pinned
    BY DEF keyVars
  <2> QED BY <2>1, <2>2, Known, FenceSame, KeysKept
<1>3. TypeOK'
  BY Known DEF TypeOK, FenceInv, Table, Drains, keyVars
<1> QED BY <1>1, <1>2, <1>3 DEF Fits

(* The rows let go, and the drain idle. *)
LEMMA DrainRests ==
  ASSUME SpoolInv, FenceInv', NEW g \in Drain, drain[g].pc # "off",
         UNCHANGED <<fenceVars, pub, awaits, heard, gen, reader, wrote, keyVars>>,
         sock' \in {"none", "up", "broken"}, rows' \in Table, \A s \in Seqs : Keeps(s),
         NEW d \in DrainAt, d.pc \in {"off", "tick", "send"}, DrainTo(g, d)
  PROVE  Fits'
<1>1. drain' \in Drains /\ drain'[g] = d /\ \A h \in Drain : h # g => drain'[h] = drain[h]
  BY DrainMoves
<1>2. \A h \in Drain : (drain'[h] = drain[h])
                       \/ (drain'[h].pc \in {"off", "tick", "send"} /\ drain[h].pc # "off")
  BY <1>1
<1>3. PubsFit'
  BY Known DEF PubsFit
<1>4. RowsFit' /\ TellsFit' /\ WritesFit' /\ KeysFit'
  BY <1>2, <1>3, Known, FenceSame, Quiet
<1>5. TypeOK'
  BY <1>1, Known DEF TypeOK, FenceInv, Table, Drains, keyVars
<1> QED BY <1>4, <1>5 DEF Fits

LEMMA LeaveFits ==
  ASSUME SpoolInv, FenceInv', NEW g \in Drain, Leave(g) \/ WriteLost(g)
  PROVE  Fits'
<1>1. DrainTo(g, Off) /\ UNCHANGED <<fenceVars, spoolVars, gen, reader, wrote, keyVars>> /\ drain[g].pc # "off"
  BY DEF Leave, WriteLost, Writing
<1>2. sock' \in {"none", "up", "broken"}
  BY Known DEF Leave, WriteLost, TypeOK
<1>3. Off \in DrainAt /\ Off.pc = "off"
  BY DEF Off, DrainAt
<1>4. rows' \in Table /\ \A s \in Seqs : Keeps(s)
  BY <1>1, Known, RowsSame DEF spoolVars
<1> QED BY <1>1, <1>2, <1>3, <1>4, DrainRests DEF spoolVars

(* The list of what a new socket sends again. *)
LEMMA InFlightFits ==
  ASSUME SpoolInv, FenceInv', NEW g \in Drain, InFlight(g)
  PROVE  Fits'
<1> DEFINE S == In(rows, {"sent"})
<1>1. drain[g].pc = "start" /\ DrainTo(g, Resending(S))
      /\ UNCHANGED <<fenceVars, spoolVars, sock, gen, reader, wrote, keyVars>>
  BY DEF InFlight
<1>2. S \in SUBSET Seqs
  BY DEF In
<1>3. rows' \in Table /\ sock' \in {"none", "up", "broken"} /\ \A s \in Seqs : Keeps(s)
  BY <1>1, Known, RowsSame DEF spoolVars, TypeOK
<1>4. CASE S = {}
  BY <1>1, <1>2, <1>3, <1>4, ResendingIs, DrainRests DEF spoolVars
<1>5. CASE S # {}
  <2>1. drain' \in Drains /\ drain'[g] = Resending(S) /\ \A h \in Drain : h # g => drain'[h] = drain[h]
    BY <1>1, <1>2, ResendingIs, DrainMoves
  <2>2. drain'[g].pc = "resend" /\ drain'[g].todo = S
    BY <1>2, <1>5, <2>1, ResendingIs
  <2>3. \A t \in S : Gone(t) /\ Behind(t)
    BY Known DEF Gone, Behind, RowsFit, SentInOrder, In
  <2>4. RowsFit' /\ TellsFit'
        /\ \A s \in Seqs : (Behind(s) => Behind(s)') /\ (Gone(s) => Gone(s)' /\ rows'[s].key = rows[s].key)
    <3>1. PubsFit'
      BY <1>1, Known DEF PubsFit, spoolVars
    <3>2. RowsFit' /\ \A s \in Seqs : (Behind(s) => Behind(s)') /\ (Gone(s) => Gone(s)')
      BY <1>1, <1>3, <3>1, Known, FenceSame, OrderKept DEF Keeps
    <3>3. \A h \in Drain : drain'[h].pc = "tell" => drain'[h] = drain[h]
      BY <2>1, <2>2
    <3>4. TellsFit'
      BY <1>1, <1>3, <3>3, Known, KeepsTells, TellsKept DEF spoolVars
    <3> QED BY <1>3, <3>2, <3>4 DEF Keeps
  <2>5. ToWrite(g)' /\ ~Writing(g)'
    BY <1>2, <1>5, <2>2, <2>3, <2>4 DEF ToWrite, Writing
  <2>6. ~(wrote # None /\ g = gen)
    BY <1>1, Known DEF WritesFit
  <2> QED BY <1>1, <1>3, <2>1, <2>2, <2>4, <2>5, <2>6, DrainStepFits DEF spoolVars
<1> QED BY <1>4, <1>5

(* What is sealed under a key no longer installed. *)
LEMMA Retired ==
  ASSUME SpoolInv, NEW epoch
  PROVE  RetireKeys(epoch) \in Table /\ \A s \in Seqs : Fades(rows[s], RetireKeys(epoch)[s])
<1> DEFINE S == {s \in Owed(rows) : rows[s].key \notin {"rk", epoch}}
<1>1. S \subseteq Owed(rows)
  OBVIOUS
<1>2. RetireKeys(epoch) = Burn(rows, S)
  BY DEF RetireKeys
<1> HIDE DEF S
<1> QED BY <1>1, <1>2, Known, BurnFades

(* A row the installed key may send is sealed for those who may read it. *)
LEMMA SendableReadable ==
  ASSUME SpoolInv, NEW g \in Drain, drain[g].pc # "off", ~key.halted, NEW s \in Seqs, Sendable(s)
  PROVE  Readable(s)
<1>1. key.link = "ready" /\ key.epoch = disk.stored /\ (disk.pinned \/ disk.stored = "new")
  BY Known DEF KeysFit
<1> QED BY <1>1 DEF Sendable, Readable

(* What the rows keep when they only turn. *)
LEMMA TurnsKeep ==
  ASSUME SpoolInv, UNCHANGED <<fenceVars, pub, heard, reader>>, \A s \in Seqs : Keeps(s)
  PROVE  /\ RowsFit'
         /\ \A s \in Seqs : (Behind(s) => Behind(s)') /\ (Gone(s) => Gone(s)' /\ rows'[s].key = rows[s].key)
         /\ (\A h \in Drain : drain'[h].pc = "tell" => drain'[h] = drain[h]) => TellsFit'
<1>1. PubsFit'
  BY Known DEF PubsFit
<1>2. RowsFit' /\ \A s \in Seqs : (Behind(s) => Behind(s)') /\ (Gone(s) => Gone(s)')
  BY <1>1, Known, FenceSame, OrderKept DEF Keeps
<1>3. ASSUME \A h \in Drain : drain'[h].pc = "tell" => drain'[h] = drain[h] PROVE TellsFit'
  BY <1>3, Known, KeepsTells, TellsKept
<1> QED BY <1>2, <1>3 DEF Keeps

LEMMA ResendFits ==
  ASSUME SpoolInv, FenceInv', NEW g \in Drain, Resend(g)
  PROVE  Fits'
<1> DEFINE todo == drain[g].todo
           s == Least(todo)
           rest == todo \ {s}
<1>1. drain[g].pc = "resend" /\ UNCHANGED <<fenceVars, pub, awaits, heard, sock, gen, reader, wrote, keyVars>>
  BY DEF Resend
<1>2. todo \in SUBSET Seqs /\ todo # {} /\ \A t \in todo : Gone(t) /\ Behind(t)
  BY <1>1, Known DEF Drains, WritesFit, ToWrite
<1>3. s \in todo /\ s \in Seqs /\ \A t \in rest : t \in todo /\ s < t
  <2>1. s \in todo /\ \A t \in todo : s <= t
    BY <1>2, LeastIs
  <2> HIDE DEF s
  <2>2. \A t \in todo : t \in Nat
    BY <1>2, SeqsAreNats
  <2> QED BY <1>2, <2>1, <2>2
<1>4. wrote # None /\ g = gen => wrote < s /\ \A t \in rest : wrote < t
  BY <1>1, <1>3, Known DEF WritesFit, Ahead
<1>5. rows' \in Table /\ \A t \in Seqs : Keeps(t)
  <2>1. rows' = rows \/ rows' = RetireKeys(key.epoch)
    BY DEF Resend
  <2> QED BY <2>1, Known, RowsSame, Retired, FadesKeeps
<1>6. sock' \in {"none", "up", "broken"}
  BY <1>1, Known DEF TypeOK
<1>7. rest \in SUBSET Seqs
  BY <1>2
<1>8. CASE DrainTo(g, At("tick"))
  BY <1>1, <1>5, <1>6, <1>8, AtIs, DrainRests
<1>9. CASE DrainTo(g, Resending(rest))
  <2>1. CASE rest = {}
    BY <1>1, <1>5, <1>6, <1>7, <1>9, <2>1, ResendingIs, DrainRests
  <2>2. CASE rest # {}
    <3>1. drain' \in Drains /\ drain'[g] = Resending(rest) /\ \A h \in Drain : h # g => drain'[h] = drain[h]
      BY <1>7, <1>9, ResendingIs, DrainMoves
    <3>2. drain'[g].pc = "resend" /\ drain'[g].todo = rest
      BY <1>7, <2>2, <3>1, ResendingIs
    <3>3. \A h \in Drain : drain'[h].pc = "tell" => drain'[h] = drain[h]
      BY <3>1, <3>2
    <3>4. ToWrite(g)' /\ ~Writing(g)' /\ (wrote # None /\ g = gen => Ahead(g)')
      BY <1>1, <1>2, <1>3, <1>4, <1>5, <2>2, <3>2, TurnsKeep DEF ToWrite, Writing, Ahead
    <3> QED BY <1>1, <1>5, <1>6, <3>1, <3>2, <3>3, <3>4, TurnsKeep, DrainStepFits
  <2> QED BY <2>1, <2>2
<1>10. CASE /\ ~key.halted /\ Sendable(s)
            /\ DrainTo(g, [drain[g] EXCEPT !.pc = "rewriting", !.todo = rest, !.row = s])
  <2> DEFINE d == [drain[g] EXCEPT !.pc = "rewriting", !.todo = rest, !.row = s]
  <2>1. d \in DrainAt /\ d.pc = "rewriting" /\ d.todo = rest /\ d.row = s
    BY <1>3, <1>7, Known DEF Drains, DrainAt
  <2> HIDE DEF d
  <2>2. drain' \in Drains /\ drain'[g] = d /\ \A h \in Drain : h # g => drain'[h] = drain[h]
    BY <1>10, <2>1, DrainMoves DEF d
  <2>3. \A h \in Drain : drain'[h].pc = "tell" => drain'[h] = drain[h]
    BY <2>1, <2>2
  <2>4. ToWrite(g)' /\ (wrote # None /\ g = gen => Ahead(g)')
    BY <1>1, <1>2, <1>3, <1>4, <1>5, <2>1, <2>2, TurnsKeep DEF ToWrite, Writing, Ahead
  <2>5. Readable(s)
    BY <1>1, <1>3, <1>10, SendableReadable
  <2>6. Readable(drain[g].row)'
    BY <1>1, <1>2, <1>3, <1>5, <2>1, <2>2, <2>5, TurnsKeep DEF Readable, keyVars
  <2> QED BY <1>1, <1>5, <1>6, <2>1, <2>2, <2>3, <2>4, <2>6, TurnsKeep, DrainStepFits
<1> QED BY <1>8, <1>9, <1>10 DEF Resend

----------------------------------------------------------------------------
(* Telling what burned. *)

(* TakeBurned: the drain takes the word of every burned row nobody told of *)
(* yet; marking them told is what keeps another drain from it.             *)
LEMMA TellingFits ==
  ASSUME SpoolInv, FenceInv', NEW g \in Drain, drain[g].pc \in {"tick", "send"},
         NEW tbl \in Table, \A s \in Seqs : Fades(rows[s], tbl[s]), rows' = AllTold(tbl),
         NEW next \in {"send", "tick"}, DrainTo(g, Telling(tbl, next)),
         UNCHANGED <<fenceVars, pub, awaits, heard, sock, gen, reader, wrote, keyVars>>
  PROVE  Fits'
<1> DEFINE S == Untold(tbl)
<1>1. /\ rows' \in Table /\ S \in SUBSET Seqs
      /\ \A s \in Seqs : rows'[s].st = tbl[s].st
      /\ \A s \in Seqs : tbl[s].st # "none" =>
           rows'[s].key = tbl[s].key /\ rows'[s].told = (tbl[s].told \/ s \in S)
  BY AllToldIs
<1>2. \A s \in S : tbl[s].st = "burned" /\ ~tbl[s].told
  BY DEF Untold, In
<1> HIDE DEF S
<1>3. ASSUME NEW s \in Seqs PROVE Keeps(s)
  <2>1. CASE tbl[s] = rows[s] /\ rows[s].st # "none"
    <3>1. rows'[s].st = rows[s].st /\ rows'[s].key = rows[s].key
      BY <1>1, <2>1
    <3>2. rows'[s].told = (rows[s].told \/ s \in S)
      BY <1>1, <2>1
    <3>3. ToldOf(s) => rows'[s].told
      BY <3>2 DEF ToldOf
    <3>4. rows'[s].told => rows[s].st = "burned"
      BY <1>2, <2>1, <3>2, Known DEF TellsFit
    <3> QED BY <3>1, <3>3, <3>4 DEF Keeps, Turns
  <2>2. CASE tbl[s] = rows[s] /\ rows[s].st = "none"
    BY <1>1, <2>2 DEF Keeps, Turns, Gone, ToldOf
  <2>3. CASE rows[s].st = "ready" /\ tbl[s] = NoRow
    BY <1>1, <2>3 DEF Keeps, Turns, Gone, ToldOf, NoRow
  <2>4. CASE /\ rows[s].st \in {"reserved", "ready", "sent"} /\ tbl[s].st = "burned"
             /\ tbl[s].key = rows[s].key
    BY <1>1, <2>4 DEF Keeps, Turns, Gone, ToldOf
  <2> QED BY <2>1, <2>2, <2>3, <2>4 DEF Fades
<1>4. Tells(S, next) \in DrainAt /\ DrainTo(g, Tells(S, next))
  BY <1>1, TellsIs DEF Telling, S
<1>5. CASE S = {}
  <2>1. Tells(S, next).pc \in {"off", "tick", "send"} /\ sock' \in {"none", "up", "broken"}
    BY <1>1, <1>5, TellsIs, Known DEF TypeOK
  <2> QED BY <1>1, <1>3, <1>4, <2>1, DrainRests
<1>6. CASE S # {}
  <2>1. drain' \in Drains /\ drain'[g] = Tells(S, next) /\ \A h \in Drain : h # g => drain'[h] = drain[h]
    BY <1>4, DrainMoves
  <2>2. drain'[g].pc = "tell" /\ drain'[g].todo = S
    BY <1>1, <1>6, <2>1, TellsIs
  <2>3. ASSUME NEW s \in S PROVE ToldOf(s)' /\ heard[s] = 0 /\ ~ToldOf(s)
    <3>1. s \in Seqs /\ tbl[s].st = "burned" /\ ~tbl[s].told
      BY <1>1, <1>2
    <3>2. ToldOf(s)'
      BY <1>1, <3>1 DEF ToldOf
    <3>3. ~ToldOf(s) /\ ~Over(s)
      BY <3>1 DEF ToldOf, Over, Fades
    <3>4. heard[s] \in Nat
      BY <3>1, Known DEF TypeOK
    <3> QED BY <3>1, <3>2, <3>3, <3>4, Known DEF TellsFit
  <2>4. \A s \in Seqs : TellsStay(s)
    BY <1>3, KeepsTells
  <2>5. TellsFit'
    <3>1. \A s \in Seqs : (Over(s) => Over(s)') /\ (ToldOf(s) => ToldOf(s)')
                         /\ (rows'[s].st # "none" /\ rows'[s].told => rows'[s].st = "burned")
      BY <2>4 DEF TellsStay
    <3>2. \A s \in Seqs : heard'[s] > 0 => Over(s)' \/ ToldOf(s)'
      BY <3>1, Known DEF TellsFit
    <3>3. reader' # NoReceipt => reader'.seq \in Seqs /\ Over(reader.seq)' /\ heard'[reader'.seq] = 0
      BY <3>1, Known DEF TellsFit
    <3>4. ASSUME NEW h \in Drain, drain'[h].pc = "tell"
          PROVE  drain'[h].todo # {} /\ \A s \in drain'[h].todo : ToldOf(s)' /\ heard'[s] = 0
      <4>1. CASE h = g
        BY <1>6, <2>2, <2>3, <4>1
      <4>2. CASE h # g
        <5>1. drain'[h] = drain[h] /\ drain[h].pc = "tell" /\ drain[h].todo \subseteq Seqs
          BY <2>1, <3>4, <4>2, Known DEF Drains
        <5> QED BY <3>1, <5>1, Known DEF TellsFit
      <4> QED BY <4>1, <4>2
    <3>5. ASSUME NEW h \in Drain, drain'[h].pc = "tell", h # g
          PROVE  drain'[h].todo \cap S = {}
      <4>1. drain'[h] = drain[h] /\ \A s \in drain[h].todo : ToldOf(s)
        BY <2>1, <3>5, Known DEF TellsFit
      <4> QED BY <2>3, <4>1
    <3>6. ASSUME NEW h \in Drain, NEW k \in Drain, drain'[h].pc = "tell", drain'[k].pc = "tell", h # k
          PROVE  drain'[h].todo \cap drain'[k].todo = {}
      <4>1. CASE h = g
        BY <2>2, <3>5, <3>6, <4>1
      <4>2. CASE k = g
        BY <2>2, <3>5, <3>6, <4>2
      <4>3. CASE h # g /\ k # g
        BY <2>1, <3>6, <4>3, Known DEF TellsFit
      <4> QED BY <4>1, <4>2, <4>3
    <3> QED BY <3>1, <3>2, <3>3, <3>4, <3>6, Known DEF TellsFit, HeardOnce
  <2>6. drain'[g].pc # "start" /\ ToWrite(g)' /\ Ahead(g)' /\ ~Writing(g)'
    BY <2>2, Unwritten
  <2>7. sock' \in {"none", "up", "broken"} /\ drain[g].pc # "off"
    BY Known DEF TypeOK
  <2> QED BY <1>1, <1>3, <2>1, <2>5, <2>6, <2>7, TurnsKeep, DrainStepFits
<1> QED BY <1>5, <1>6

LEMMA TickFits ==
  ASSUME SpoolInv, FenceInv', NEW g \in Drain, Tick(g)
  PROVE  Fits'
<1> DEFINE tbl == Burn(rows, Late(rows, {"sent"}))
<1>1. Late(rows, {"sent"}) \subseteq Owed(rows)
  BY DEF Late, In, Owed
<1>2. tbl \in Table /\ \A s \in Seqs : Fades(rows[s], tbl[s])
  BY <1>1, Known, BurnFades
<1>3. /\ rows' = AllTold(tbl) /\ DrainTo(g, Telling(tbl, "send")) /\ drain[g].pc = "tick"
      /\ UNCHANGED <<fenceVars, pub, awaits, heard, sock, gen, reader, wrote, keyVars>>
  BY DEF Tick
<1> HIDE DEF tbl
<1> QED BY <1>2, <1>3, TellingFits

LEMMA SendHaltedFits ==
  ASSUME SpoolInv, FenceInv', NEW g \in Drain, SendHalted(g)
  PROVE  Fits'
<1>1. /\ rows' = AllTold(rows) /\ DrainTo(g, Telling(rows, "tick")) /\ drain[g].pc = "send"
      /\ UNCHANGED <<fenceVars, pub, awaits, heard, sock, gen, reader, wrote, keyVars>>
  BY DEF SendHalted
<1> QED BY <1>1, Known, TellingFits DEF Fades

----------------------------------------------------------------------------
(* Sending the head. *)

LEMMA BurnedAtSendFades ==
  ASSUME SpoolInv
  PROVE  /\ Burn(rows, BurnedAtSend) \in Table
         /\ \A s \in Seqs : Fades(rows[s], Burn(rows, BurnedAtSend)[s])
         /\ \A s \in Seqs : s \notin BurnedAtSend => Burn(rows, BurnedAtSend)[s] = rows[s]
         /\ \A s \in BurnedAtSend : s \in Seqs /\ Burn(rows, BurnedAtSend)[s].st = "burned"
<1>1. BurnedAtSend \subseteq Owed(rows)
  BY DEF BurnedAtSend, Late, Outdated, OldKeyed, In, Owed
<1> QED BY <1>1, Known, BurnFades

(* The head is the lowest row that is still to be sealed or sent, and the  *)
(* installed key may send it: a head it may not was burned with its kind.  *)
LEMMA HeadIs ==
  ASSUME SpoolInv, NEW s \in Head(Burn(rows, BurnedAtSend))
  PROVE  /\ s \in Seqs /\ rows[s].st = "ready" /\ Burn(rows, BurnedAtSend)[s] = rows[s] /\ Sendable(s)
         /\ \A t \in In(Burn(rows, BurnedAtSend), {"reserved", "ready"}) : t # s => s < t
<1> DEFINE tbl == Burn(rows, BurnedAtSend)
           owed == In(tbl, {"reserved", "ready"})
           gone == Late(rows, {"reserved"}) \cup Outdated
           head == In(rows, {"reserved", "ready"}) \ gone
<1>1. owed \in SUBSET Seqs
  BY DEF In
<1>2. owed # {} /\ s = Least(owed) /\ s \in In(tbl, {"ready"})
  BY DEF Head
<1>3. s \in Seqs /\ tbl[s].st = "ready" /\ \A t \in owed : s <= t
  BY <1>1, <1>2, LeastIs DEF In
<1>4. s \notin BurnedAtSend /\ tbl[s] = rows[s]
  BY <1>3, BurnedAtSendFades
<1>5. \A t \in owed : t # s => s < t
  <2>1. \A t \in owed : t \in Nat /\ s \in Nat /\ s <= t
    BY <1>1, <1>3, SeqsAreNats
  <2> QED BY <2>1
<1>6. Sendable(s)
  <2>1. s \in head /\ s \notin OldKeyed(head) /\ rows[s].st = "ready"
    BY <1>3, <1>4 DEF BurnedAtSend, In
  <2>2. PICK t \in head : t <= s /\ ~(rows[t].st = "ready" /\ ~Sendable(t))
    BY <2>1 DEF OldKeyed
  <2>3. t \in Seqs /\ rows[t].st \in {"reserved", "ready"} /\ t \notin gone
    BY <2>2 DEF In
  <2>4. t \notin OldKeyed(head)
    BY <2>2, <2>3, SeqsAreNats DEF OldKeyed
  <2>5. t \notin BurnedAtSend
    BY <2>3, <2>4 DEF BurnedAtSend
  <2>6. t \in owed
    BY <2>3, <2>5, BurnedAtSendFades DEF In
  <2>7. t = s
    BY <1>3, <2>2, <2>3, <2>6, SeqsAreNats
  <2> QED BY <2>1, <2>2, <2>7
<1> QED BY <1>3, <1>4, <1>5, <1>6

LEMMA SendHead ==
  ASSUME SpoolInv, FenceInv', NEW g \in Drain, drain[g].pc = "send", ~key.halted,
         NEW s \in Head(Burn(rows, BurnedAtSend)),
         rows' = [Burn(rows, BurnedAtSend) EXCEPT ![s] = To(@, "sent")],
         DrainTo(g, [At("writing") EXCEPT !.row = s]),
         UNCHANGED <<fenceVars, pub, awaits, heard, sock, gen, reader, wrote, keyVars>>
  PROVE  Fits'
<1> DEFINE tbl == Burn(rows, BurnedAtSend)
           row == To(tbl[s], "sent")
           d == [At("writing") EXCEPT !.row = s]
<1>1. /\ s \in Seqs /\ rows[s].st = "ready" /\ tbl[s] = rows[s] /\ Sendable(s)
      /\ \A t \in In(tbl, {"reserved", "ready"}) : t # s => s < t
  BY HeadIs
<1>2. tbl \in Table /\ \A t \in Seqs : Fades(rows[t], tbl[t])
  BY BurnedAtSendFades
<1>3. rows' = [tbl EXCEPT ![s] = row]
  BY <1>1, <1>2 DEF Table
<1> HIDE DEF tbl
<1>4. row \in Row /\ row.st = "sent" /\ row.key = rows[s].key /\ row.told = rows[s].told
  BY <1>1, <1>2, IsRow, RowTo DEF RowStates
<1>5. ~rows[s].told
  BY <1>1, Known DEF TellsFit
<1> HIDE DEF row
<1>6. rows' \in Table /\ \A t \in Seqs : rows'[t] = IF t = s THEN row ELSE tbl[t]
  BY <1>1, <1>2, <1>3, <1>4 DEF Table
<1>7. ASSUME NEW t \in Seqs, t # s PROVE Keeps(t) /\ (rows'[t].st = "sent" => rows[t].st = "sent")
                                        /\ (rows'[t].st # "none" => rows[t].st # "none")
                                        /\ (rows'[t].st \in {"reserved", "ready"} => rows[t].st \in {"reserved", "ready"} /\ s < t)
  <2>1. Fades(rows[t], rows'[t])
    BY <1>2, <1>6, <1>7
  <2>2. rows'[t].st \in {"reserved", "ready"} => s < t
    BY <1>1, <1>6, <1>7 DEF In
  <2>3. Keeps(t)
    BY <1>6, <2>1, Known, FadesKeeps
  <2>4. /\ rows'[t].st = "sent" => rows[t].st = "sent"
        /\ rows'[t].st # "none" => rows[t].st # "none"
        /\ rows'[t].st \in {"reserved", "ready"} => rows[t].st \in {"reserved", "ready"}
    BY <2>1 DEF Fades, NoRow
  <2> QED BY <2>2, <2>3, <2>4
<1>8. \A t \in Seqs : (Gone(t) => Gone(t)' /\ rows'[t].key = rows[t].key) /\ TellsStay(t)
  <2>1. (Gone(s) => Gone(s)' /\ rows'[s].key = rows[s].key) /\ TellsStay(s)
    BY <1>1, <1>4, <1>5, <1>6 DEF Gone, TellsStay, Over, ToldOf
  <2>2. ASSUME NEW t \in Seqs, t # s PROVE (Gone(t) => Gone(t)' /\ rows'[t].key = rows[t].key) /\ TellsStay(t)
    BY <1>7, <2>2, KeepsTells DEF Keeps, Turns, Gone
  <2> QED BY <2>1, <2>2
<1>9. ASSUME NEW t \in Seqs, Behind(t) PROVE Behind(t)'
  BY <1>4, <1>6, <1>7, <1>9, Known DEF Behind, In, fenceVars
<1>10. RowsFit'
  <2>1. \A t \in Seqs : rows'[t].st # "none" => fence'[M] # "closed" /\ t < nextSeq'[M]
    BY <1>1, <1>7, Known DEF RowsFit, fenceVars
  <2>2. SentInOrder'
    <3> SUFFICES ASSUME NEW t \in Seqs, NEW u \in Seqs, rows'[t].st = "sent", rows'[u].st \in {"reserved", "ready"}
                 PROVE  t < u
      BY DEF SentInOrder, In
    <3>1. u # s
      BY <1>4, <1>6
    <3> QED BY <1>7, <3>1, Known DEF RowsFit, SentInOrder, In
  <2> QED BY <2>1, <2>2, Known DEF RowsFit
<1>11. d \in DrainAt /\ d.pc = "writing" /\ d.row = s
  BY <1>1 DEF At, Off, DrainAt
<1>12. drain' \in Drains /\ drain'[g] = d /\ \A h \in Drain : h # g => drain'[h] = drain[h]
  BY <1>11, DrainMoves
<1> HIDE DEF d
<1>13. TellsFit'
  BY <1>8, <1>11, <1>12, Known, TellsKept
<1>14. ToWrite(g)' /\ (wrote # None /\ g = gen => Ahead(g)')
  <2>1. Gone(s)' /\ Behind(s)'
    <3>1. s < nextSeq'[M]
      BY <1>1, Known DEF RowsFit, fenceVars
    <3>2. rows'[s].st = "sent"
      BY <1>1, <1>4, <1>6
    <3>3. \A t \in Seqs : rows'[t].st \in {"reserved", "ready"} => s < t
      BY <1>7, <3>2
    <3> QED BY <3>1, <3>2, <3>3 DEF Gone, Behind, In
  <2>2. wrote # None => wrote < s
    BY <1>1, Known DEF WritesFit, Behind, In
  <2> QED BY <1>1, <1>11, <1>12, <2>1, <2>2 DEF ToWrite, Ahead, Writing
<1>15. Readable(drain[g].row)'
  <2>1. Readable(s)
    BY <1>1, SendableReadable
  <2> QED BY <1>4, <1>6, <1>11, <1>12, <1>1, <2>1 DEF Readable, keyVars
<1>16. sock' \in {"none", "up", "broken"} /\ drain'[g].pc # "start"
  BY <1>11, <1>12, Known DEF TypeOK
<1> QED BY <1>6, <1>8, <1>9, <1>10, <1>12, <1>13, <1>14, <1>15, <1>16, DrainStepFits

LEMMA SendNextFits ==
  ASSUME SpoolInv, FenceInv', NEW g \in Drain, SendNext(g)
  PROVE  Fits'
<1> DEFINE tbl == Burn(rows, BurnedAtSend)
<1>1. drain[g].pc = "send" /\ ~key.halted
      /\ UNCHANGED <<fenceVars, pub, awaits, heard, sock, gen, reader, wrote, keyVars>>
  BY DEF SendNext, Usable
<1>2. CASE rows' = AllTold(tbl) /\ DrainTo(g, Telling(tbl, "tick"))
  <2>1. tbl \in Table /\ \A s \in Seqs : Fades(rows[s], tbl[s])
    BY BurnedAtSendFades
  <2> HIDE DEF tbl
  <2> QED BY <1>1, <1>2, <2>1, TellingFits
<1>3. ASSUME NEW s \in Head(tbl), rows' = [tbl EXCEPT ![s] = To(@, "sent")],
             DrainTo(g, [At("writing") EXCEPT !.row = s])
      PROVE  Fits'
  BY <1>1, <1>3, SendHead
<1> QED BY <1>2, <1>3 DEF SendNext

(* The row goes out: what the socket has had is the row its drain was on,  *)
(* and what that drain has left lies above it.                             *)
LEMMA WriteFits ==
  ASSUME SpoolInv, FenceInv', NEW g \in Drain, Write(g)
  PROVE  Fits'
<1> DEFINE d == IF drain[g].pc = "writing" THEN At("send") ELSE Resending(drain[g].todo)
<1>1. /\ Writing(g) /\ g = gen /\ wrote' = drain[g].row /\ DrainTo(g, d)
      /\ UNCHANGED <<fenceVars, spoolVars, sock, gen, reader, keyVars>>
  BY DEF Write, Alive
<1>2. /\ drain[g].row \in Seqs /\ Gone(drain[g].row) /\ Behind(drain[g].row) /\ drain[g].todo \in SUBSET Seqs
      /\ drain[g].pc = "rewriting" => \A t \in drain[g].todo : Gone(t) /\ Behind(t) /\ drain[g].row < t
  BY <1>1, Known DEF WritesFit, ToWrite, Drains
<1>3. /\ d \in DrainAt /\ d.pc \in {"send", "tick", "resend"}
      /\ d.pc = "resend" => d.todo = drain[g].todo /\ d.todo # {} /\ drain[g].pc = "rewriting"
  BY <1>1, <1>2, AtIs, ResendingIs DEF Writing
<1> HIDE DEF d
<1>4. drain' \in Drains /\ drain'[g] = d /\ \A h \in Drain : h # g => drain'[h] = drain[h]
  BY <1>1, <1>3, DrainMoves
<1>5. UNCHANGED <<fenceVars, rows, pub, heard, reader, awaits, keyVars, sock, gen>>
  BY <1>1 DEF spoolVars
<1>6. \A s \in Seqs : Keeps(s)
  BY <1>5, Known, RowsSame
<1>7. RowsFit' /\ TellsFit' /\ \A s \in Seqs : (Behind(s) => Behind(s)') /\ (Gone(s) => Gone(s)')
  BY <1>3, <1>4, <1>5, <1>6, TurnsKeep
<1>8. WritesFit'
  <2>1. gen' # 0 /\ Behind(wrote)' /\ drain'[gen].pc # "start"
    BY <1>1, <1>2, <1>3, <1>4, <1>7 DEF Drain
  <2>2. Ahead(gen)' /\ ToWrite(g)'
    BY <1>1, <1>2, <1>3, <1>4, <1>7 DEF Ahead, ToWrite, Writing
  <2>3. ASSUME NEW h \in Drain, h # g PROVE ToWrite(h)'
    <3>1. drain'[h] = drain[h] /\ drain[h].todo \subseteq Seqs
      BY <1>4, <2>3, Known DEF Drains
    <3>2. ToWrite(h)
      BY Known DEF WritesFit
    <3>3. \A s \in Seqs : (Behind(s) => Behind(s)') /\ (Gone(s) => Gone(s)')
      BY <1>7
    <3> QED BY <3>1, <3>2, <3>3 DEF ToWrite, Writing
  <2>4. \A h \in Drain : ToWrite(h)'
    BY <2>2, <2>3
  <2>5. Ahead(gen)'
    BY <2>2
  <2> QED BY <1>5, <2>1, <2>4, <2>5 DEF WritesFit
<1>9. KeysFit'
  <2>1. key.link = "ready" /\ fence[M] # "closed"
    BY <1>1, Known DEF KeysFit, Writing
  <2>2. UNCHANGED key /\ disk'.stored = disk.stored /\ disk'.pinned = disk.pinned
    BY <1>5 DEF keyVars
  <2>3. ~Writing(g)'
    BY <1>3, <1>4 DEF Writing
  <2> QED BY <1>4, <1>5, <1>6, <2>1, <2>2, <2>3, Known, FenceSame, KeysKept DEF Keeps
<1>10. TypeOK'
  BY <1>1, <1>2, <1>4, <1>5, Known DEF TypeOK, FenceInv, Drains, keyVars
<1> QED BY <1>7, <1>8, <1>9, <1>10 DEF Fits

----------------------------------------------------------------------------
(* Receipts, and giving a row's word to its waiter. *)

LEMMA ReceiptFits ==
  ASSUME SpoolInv, FenceInv', NEW s \in Seqs, NEW outcome \in {"delivered", "refused"}, Receipt(s, outcome)
  PROVE  Fits'
<1> DEFINE row == To(rows[s], Settled(outcome))
<1>1. /\ rows[s].st = "sent" /\ reader = NoReceipt /\ rows' = [rows EXCEPT ![s] = row]
      /\ reader' = [seq |-> s, outcome |-> outcome]
      /\ UNCHANGED <<fenceVars, pub, awaits, heard, sock, gen, drain, wrote, keyVars>>
  BY Known DEF Receipt, Table
<1>2. /\ row \in Row /\ row.st \in {"acked", "rejected"} /\ row.key = rows[s].key
      /\ row.told = rows[s].told /\ ~rows[s].told
  <2>1. Settled(outcome) \in {"acked", "rejected"}
    BY DEF Settled
  <2>2. rows[s] \in Row /\ ~rows[s].told
    BY <1>1, Known, IsRow DEF TellsFit
  <2> QED BY <2>1, <2>2, RowTo DEF RowStates
<1> HIDE DEF row
<1>3. rows' \in Table /\ \A t \in Seqs : rows'[t] = IF t = s THEN row ELSE rows[t]
  BY <1>1, <1>2, Known DEF Table
<1>4. ASSUME NEW t \in Seqs PROVE Keeps(t)
  <2>1. CASE t = s
    BY <1>1, <1>2, <1>3, <2>1 DEF Keeps, Turns, Gone, ToldOf
  <2>2. CASE t # s
    BY <1>3, <2>2, Known, FadesKeeps DEF Fades
  <2> QED BY <2>1, <2>2
<1>5. PubsFit'
  BY <1>1, Known DEF PubsFit
<1>6. RowsFit' /\ \A t \in Seqs : (Behind(t) => Behind(t)') /\ (Gone(t) => Gone(t)')
  BY <1>1, <1>4, <1>5, Known, FenceSame, OrderKept DEF Keeps
<1>7. TellsFit'
  <2>1. \A t \in Seqs : (Over(t) => Over(t)') /\ (ToldOf(t) => ToldOf(t)')
                       /\ (rows'[t].st # "none" /\ rows'[t].told => rows'[t].st = "burned")
    BY <1>4, KeepsTells DEF TellsStay
  <2>2. \A t \in Seqs : heard'[t] > 0 => Over(t)' \/ ToldOf(t)'
    BY <1>1, <2>1, Known DEF TellsFit
  <2>3. reader'.seq \in Seqs /\ Over(reader.seq)' /\ heard'[reader'.seq] = 0
    <3>1. reader'.seq = s /\ Over(s)'
      BY <1>1, <1>2, <1>3 DEF Over
    <3>2. heard[s] \in Nat /\ ~(heard[s] > 0)
      BY <1>1, Known DEF TellsFit, TypeOK, Over, ToldOf
    <3> QED BY <1>1, <3>1, <3>2
  <2>4. ASSUME NEW g \in Drain, drain'[g].pc = "tell"
        PROVE  drain'[g].todo # {} /\ \A t \in drain'[g].todo : ToldOf(t)' /\ heard'[t] = 0
    <3>1. drain'[g] = drain[g] /\ drain[g].pc = "tell" /\ drain[g].todo \subseteq Seqs
      BY <1>1, <2>4, Known DEF Drains
    <3> QED BY <1>1, <2>1, <3>1, Known DEF TellsFit
  <2>5. \A g, h \in Drain : drain'[g].pc = "tell" /\ drain'[h].pc = "tell" /\ g # h =>
          drain'[g].todo \cap drain'[h].todo = {}
    BY <1>1, Known DEF TellsFit
  <2>6. HeardOnce'
    BY <1>1, Known DEF TellsFit, HeardOnce
  <2> QED BY <2>1, <2>2, <2>3, <2>4, <2>5, <2>6 DEF TellsFit
<1>8. WritesFit'
  BY <1>1, <1>6, Known, WritesKept
<1>9. KeysFit'
  <2>1. UNCHANGED key /\ disk'.stored = disk.stored /\ disk'.pinned = disk.pinned
    BY <1>1 DEF keyVars
  <2> QED BY <1>1, <1>4, <2>1, Known, FenceSame, KeysKept DEF Keeps
<1>10. TypeOK'
  BY <1>1, <1>3, Known DEF TypeOK, FenceInv, Table, keyVars
<1> QED BY <1>6, <1>7, <1>8, <1>9, <1>10 DEF Fits

(* A row heard of for the first time. *)
LEMMA TellMoves ==
  ASSUME SpoolInv, NEW s \in Seqs, heard[s] = 0, NEW outcome, Tell(s, outcome)
  PROVE  /\ pub' \in Pubs /\ PubsFit' /\ awaits' \in [Terminal -> Seqs \cup {None}]
         /\ heard' \in [Seqs -> 0 .. 2] /\ heard'[s] = 1 /\ \A t \in Seqs : t # s => heard'[t] = heard[t]
<1> DEFINE waiting == {r \in Terminal : awaits[r] = s}
<1>1. /\ heard' = [heard EXCEPT ![s] = IF heard[s] = 2 THEN 2 ELSE heard[s] + 1]
      /\ awaits' = [r \in Terminal |-> IF r \in waiting THEN None ELSE awaits[r]]
      /\ pub' = [r \in Recipient |-> IF r \in waiting /\ outcome = "refused"
                                    THEN [Idle EXCEPT !.pc = "over"] ELSE pub[r]]
  BY Known DEF Tell, TypeOK
<1>2. heard \in [Seqs -> 0 .. 2]
  BY Known DEF TypeOK
<1>3. heard' \in [Seqs -> 0 .. 2] /\ heard'[s] = 1 /\ \A t \in Seqs : t # s => heard'[t] = heard[t]
  BY <1>1, <1>2
<1> HIDE DEF waiting
<1>4. awaits' \in [Terminal -> Seqs \cup {None}]
  BY <1>1, Known
<1>5. \A r \in Recipient : pub'[r] = pub[r] \/ pub'[r] = [Idle EXCEPT !.pc = "over"]
  BY <1>1
<1>6. pub' \in Pubs
  BY <1>1, Known DEF Pubs, Idle
<1>7. PubsFit'
  BY <1>5, Known DEF PubsFit, Idle
<1> QED BY <1>3, <1>4, <1>6, <1>7

(* What a telling leaves alone. *)
LEMMA ToldFits ==
  ASSUME SpoolInv, FenceInv', UNCHANGED <<fenceVars, rows, sock, gen, wrote, keyVars>>, PubsFit', TellsFit',
         drain' \in Drains,
         \A h \in Drain : (drain'[h] = drain[h])
                          \/ (drain'[h].pc \in {"off", "tick", "tell", "send"} /\ drain[h].pc # "off"),
         pub' \in Pubs, awaits' \in [Terminal -> Seqs \cup {None}], heard' \in [Seqs -> 0 .. 2],
         reader' = reader \/ reader' = NoReceipt
  PROVE  Fits'
<1>1. \A s \in Seqs : Keeps(s)
  BY Known, RowsSame
<1>2. RowsFit' /\ \A s \in Seqs : (Behind(s) => Behind(s)') /\ (Gone(s) => Gone(s)')
  BY <1>1, Known, FenceSame, OrderKept DEF Keeps
<1>3. WritesFit'
  BY <1>2, Known, Unwritten, WritesKept
<1>4. KeysFit'
  <2>1. UNCHANGED key /\ disk'.stored = disk.stored /\ disk'.pinned = disk.pinned
    BY DEF keyVars
  <2>2. \A h \in Drain : (drain'[h] = drain[h])
                         \/ ((Writing(h)' => Readable(drain[h].row)') /\ (drain'[h].pc # "off" => key.link = "ready"))
    BY Known, Unwritten DEF KeysFit
  <2> QED BY <1>1, <2>1, <2>2, Known, FenceSame, KeysKept DEF Keeps
<1>5. TypeOK'
  BY Known DEF TypeOK, FenceInv, Table, Pubs, Drains, NoReceipt, keyVars
<1> QED BY <1>2, <1>3, <1>4, <1>5 DEF Fits

LEMMA TellBurnedFits ==
  ASSUME SpoolInv, FenceInv', NEW g \in Drain, TellBurned(g)
  PROVE  Fits'
<1> DEFINE todo == drain[g].todo
           s == Least(todo)
           rest == todo \ {s}
           next == drain[g].next
<1>1. /\ drain[g].pc = "tell" /\ Tell(s, "burned") /\ DrainTo(g, Tells(rest, next))
      /\ UNCHANGED <<fenceVars, rows, sock, gen, reader, wrote, keyVars>>
  BY DEF TellBurned
<1>2. todo \in SUBSET Seqs /\ todo # {} /\ next \in {"off", "send", "tick"}
      /\ \A t \in todo : ToldOf(t) /\ heard[t] = 0
  BY <1>1, Known DEF Drains, TellsFit
<1>3. s \in todo
  BY <1>2, LeastIs
<1> HIDE DEF s
<1>4. s \in Seqs /\ heard[s] = 0 /\ ToldOf(s) /\ rest \in SUBSET Seqs
  BY <1>2, <1>3
<1>5. /\ pub' \in Pubs /\ PubsFit' /\ awaits' \in [Terminal -> Seqs \cup {None}]
      /\ heard' \in [Seqs -> 0 .. 2] /\ heard'[s] = 1 /\ \A t \in Seqs : t # s => heard'[t] = heard[t]
  BY <1>1, <1>4, TellMoves
<1>6. drain' \in Drains /\ drain'[g] = Tells(rest, next) /\ \A h \in Drain : h # g => drain'[h] = drain[h]
  BY <1>1, <1>2, <1>4, TellsIs, DrainMoves
<1>7. /\ drain'[g].pc \in {"off", "tick", "tell", "send"}
      /\ drain'[g].pc = "tell" => drain'[g].todo = rest /\ rest # {}
  BY <1>2, <1>4, <1>6, TellsIs
<1>8. TellsFit'
  <2>1. \A t \in Seqs : (Over(t)' <=> Over(t)) /\ (ToldOf(t)' <=> ToldOf(t))
    BY <1>1 DEF Over, ToldOf
  <2>2. \A t \in Seqs : rows'[t].st # "none" /\ rows'[t].told => rows'[t].st = "burned"
    BY <1>1, Known DEF TellsFit
  <2>3. ASSUME NEW t \in Seqs, heard'[t] > 0 PROVE Over(t)' \/ ToldOf(t)'
    BY <1>4, <1>5, <2>1, <2>3, Known DEF TellsFit
  <2>4. reader' # NoReceipt => reader'.seq \in Seqs /\ Over(reader.seq)' /\ heard'[reader'.seq] = 0
    <3> SUFFICES ASSUME reader # NoReceipt
                 PROVE  reader.seq \in Seqs /\ Over(reader.seq)' /\ heard'[reader.seq] = 0
      BY <1>1
    <3>1. reader.seq \in Seqs /\ Over(reader.seq) /\ heard[reader.seq] = 0
      BY Known DEF TellsFit
    <3>2. reader.seq # s
      BY <1>4, <3>1 DEF Over, ToldOf
    <3> QED BY <1>1, <1>5, <3>1, <3>2 DEF Over
  <2>5. ASSUME NEW h \in Drain, drain'[h].pc = "tell"
        PROVE  drain'[h].todo # {} /\ \A t \in drain'[h].todo : ToldOf(t)' /\ heard'[t] = 0
    <3>1. CASE h = g
      <4>1. drain'[h].todo = rest /\ rest # {}
        BY <1>7, <2>5, <3>1
      <4>2. \A t \in rest : t \in Seqs /\ t # s /\ ToldOf(t) /\ heard[t] = 0
        BY <1>2
      <4> QED BY <1>5, <2>1, <4>1, <4>2
    <3>2. CASE h # g
      <4>1. drain'[h] = drain[h] /\ drain[h].pc = "tell"
        BY <1>6, <2>5, <3>2
      <4>2. drain[h].todo # {} /\ \A t \in drain[h].todo : t \in Seqs /\ ToldOf(t) /\ heard[t] = 0
        BY <4>1, Known DEF TellsFit, Drains
      <4>3. s \notin drain[h].todo
        BY <1>1, <1>3, <3>2, <4>1, Known DEF TellsFit
      <4> QED BY <1>5, <2>1, <4>1, <4>2, <4>3
    <3> QED BY <3>1, <3>2
  <2>6. ASSUME NEW h \in Drain, drain'[h].pc = "tell" PROVE drain[h].pc = "tell" /\ drain'[h].todo \subseteq drain[h].todo
    BY <1>1, <1>6, <1>7, <2>6
  <2>7. \A h, k \in Drain : drain'[h].pc = "tell" /\ drain'[k].pc = "tell" /\ h # k =>
          drain'[h].todo \cap drain'[k].todo = {}
    BY <2>6, Known DEF TellsFit
  <2>8. HeardOnce'
    BY <1>5, Known DEF TellsFit, HeardOnce
  <2> QED BY <1>1, <2>2, <2>3, <2>4, <2>5, <2>7, <2>8 DEF TellsFit
<1> QED BY <1>1, <1>5, <1>6, <1>7, <1>8, ToldFits

LEMMA ReceiptToldFits ==
  ASSUME SpoolInv, FenceInv', ReceiptTold
  PROVE  Fits'
<1> DEFINE s == reader.seq
<1>1. /\ reader # NoReceipt /\ Tell(s, reader.outcome) /\ reader' = NoReceipt
      /\ UNCHANGED <<fenceVars, rows, sock, gen, drain, wrote, keyVars>>
  BY DEF ReceiptTold
<1>2. s \in Seqs /\ Over(s) /\ heard[s] = 0
  BY <1>1, Known DEF TellsFit
<1>3. /\ pub' \in Pubs /\ PubsFit' /\ awaits' \in [Terminal -> Seqs \cup {None}]
      /\ heard' \in [Seqs -> 0 .. 2] /\ heard'[s] = 1 /\ \A t \in Seqs : t # s => heard'[t] = heard[t]
  BY <1>1, <1>2, TellMoves
<1>4. TellsFit'
  <2>1. \A t \in Seqs : (Over(t)' <=> Over(t)) /\ (ToldOf(t)' <=> ToldOf(t))
    BY <1>1 DEF Over, ToldOf
  <2>2. \A t \in Seqs : rows'[t].st # "none" /\ rows'[t].told => rows'[t].st = "burned"
    BY <1>1, Known DEF TellsFit
  <2>3. ASSUME NEW t \in Seqs, heard'[t] > 0 PROVE Over(t)' \/ ToldOf(t)'
    BY <1>2, <1>3, <2>1, <2>3, Known DEF TellsFit
  <2>4. ASSUME NEW h \in Drain, drain'[h].pc = "tell"
        PROVE  drain'[h].todo # {} /\ \A t \in drain'[h].todo : ToldOf(t)' /\ heard'[t] = 0
    <3>1. drain'[h] = drain[h] /\ drain[h].pc = "tell"
      BY <1>1, <2>4
    <3>2. drain[h].todo # {} /\ \A t \in drain[h].todo : t \in Seqs /\ ToldOf(t) /\ heard[t] = 0
      BY <3>1, Known DEF TellsFit, Drains
    <3>3. s \notin drain[h].todo
      BY <1>2, <3>2 DEF Over, ToldOf
    <3> QED BY <1>3, <2>1, <3>1, <3>2, <3>3
  <2>5. \A h, k \in Drain : drain'[h].pc = "tell" /\ drain'[k].pc = "tell" /\ h # k =>
          drain'[h].todo \cap drain'[k].todo = {}
    BY <1>1, Known DEF TellsFit
  <2>6. HeardOnce'
    BY <1>3, Known DEF TellsFit, HeardOnce
  <2> QED BY <1>1, <2>2, <2>3, <2>4, <2>5, <2>6 DEF TellsFit
<1> QED BY <1>1, <1>3, <1>4, Known, ToldFits

----------------------------------------------------------------------------
(* The socket, the revocation, and the daemon. *)

LEMMA ConnectFits ==
  ASSUME SpoolInv, FenceInv', Connect
  PROVE  Fits'
<1>1. /\ gen < MaxConns /\ key.link = "ready" /\ sock' = "up" /\ gen' = gen + 1 /\ wrote' = None
      /\ drain' = [drain EXCEPT ![gen + 1] = At("start")]
      /\ UNCHANGED <<fenceVars, rows, pub, awaits, heard, reader, keyVars>>
  BY DEF Connect, spoolVars
<1>2. gen \in Nat /\ gen + 1 \in Drain /\ gen + 1 \in 0 .. MaxConns
  BY <1>1, Known, SpoolAssumption DEF TypeOK, Drain
<1>3. At("start") \in DrainAt /\ At("start").pc = "start"
  BY AtIs
<1>4. drain' \in Drains /\ \A h \in Drain : drain'[h] = drain[h] \/ drain'[h].pc = "start"
  BY <1>1, <1>2, <1>3, Known DEF Drains, DrainAt
<1>5. \A s \in Seqs : Keeps(s)
  BY <1>1, Known, RowsSame
<1>6. RowsFit' /\ TellsFit' /\ \A s \in Seqs : (Behind(s) => Behind(s)') /\ (Gone(s) => Gone(s)')
  BY <1>1, <1>4, <1>5, TurnsKeep
<1>7. WritesFit'
  <2>1. ASSUME NEW h \in Drain PROVE ToWrite(h)'
    <3>1. CASE drain'[h].pc = "start"
      BY <3>1 DEF ToWrite, Writing
    <3>2. CASE drain'[h] = drain[h]
      <4>1. drain[h].todo \subseteq Seqs /\ ToWrite(h)
        BY Known DEF Drains, WritesFit
      <4> QED BY <1>6, <3>2, <4>1 DEF ToWrite, Writing
    <3> QED BY <1>4, <3>1, <3>2
  <2> QED BY <1>1, <2>1 DEF WritesFit
<1>8. KeysFit'
  <2>1. UNCHANGED key /\ disk'.stored = disk.stored /\ disk'.pinned = disk.pinned
    BY <1>1 DEF keyVars
  <2>2. fence[M] # "closed"
    BY <1>1, Known DEF KeysFit
  <2>3. \A h \in Drain : (drain'[h] = drain[h])
                         \/ ((Writing(h)' => Readable(drain[h].row)') /\ (drain'[h].pc # "off" => key.link = "ready"))
    BY <1>1, <1>4 DEF Writing
  <2> QED BY <1>1, <1>5, <2>1, <2>2, <2>3, Known, FenceSame, KeysKept DEF Keeps
<1>9. TypeOK'
  BY <1>1, <1>2, <1>4, Known DEF TypeOK, FenceInv, Drains, keyVars
<1> QED BY <1>6, <1>7, <1>8, <1>9 DEF Fits

LEMMA DisconnectFits ==
  ASSUME SpoolInv, FenceInv', Disconnect
  PROVE  Fits'
<1>1. /\ sock' = "none" /\ awaits' = [r \in Terminal |-> None]
      /\ pub' = [r \in Recipient |-> IF r \in Terminal THEN Idle ELSE pub[r]]
      /\ UNCHANGED <<fenceVars, rows, heard, gen, drain, reader, wrote, keyVars>>
  BY DEF Disconnect
<1>2. pub' \in Pubs
  BY <1>1, Known DEF Pubs, Idle
<1>3. PubsFit'
  BY <1>1, Known DEF PubsFit, Idle
<1>4. RowsFit' /\ TellsFit' /\ WritesFit' /\ KeysFit'
  BY <1>1, <1>3, Known, FenceSame, RowsSame, Quiet
<1>5. TypeOK'
  BY <1>1, <1>2, Known DEF TypeOK, FenceInv, Pubs, keyVars
<1> QED BY <1>4, <1>5 DEF Fits

LEMMA UnchangedFits ==
  ASSUME SpoolInv, FenceInv', UNCHANGED vars
  PROVE  Fits'
<1>1. UNCHANGED <<fenceVars, rows, pub, awaits, heard, sock, gen, drain, reader, wrote, keyVars>>
  BY DEF vars, spoolVars, sockVars
<1>2. PubsFit'
  BY <1>1, Known DEF PubsFit
<1>3. RowsFit' /\ TellsFit' /\ WritesFit' /\ KeysFit'
  BY <1>1, <1>2, Known, FenceSame, RowsSame, Quiet
<1>4. TypeOK'
  BY <1>1, Known DEF TypeOK, FenceInv, keyVars
<1> QED BY <1>3, <1>4 DEF Fits

(* A step of the revocation, which moves the key and at most retires rows. *)
LEMMA RevokingFits ==
  ASSUME SpoolInv, FenceInv', RevInv', UNCHANGED <<fenceVars, pub, awaits, heard, sockVars>>,
         rows' \in Table, \A s \in Seqs : Keeps(s), key'.cuts \in 0 .. MaxCuts, KeysFit'
  PROVE  Fits'
<1>1. UNCHANGED <<reader, wrote, gen, drain, sock>>
  BY DEF sockVars
<1>2. PubsFit'
  BY Known DEF PubsFit
<1>3. RowsFit' /\ TellsFit' /\ WritesFit'
  BY <1>1, <1>2, Known, FenceSame, Still
<1>4. key' \in [epoch : Epoch, lock : {"open", "closing", "finishing"}, halted : BOOLEAN,
                link : {"down", "resuming", "ready"}, cuts : 0 .. MaxCuts]
  BY DEF RevInv
<1>5. TypeOK'
  BY <1>1, <1>4, Known DEF TypeOK, FenceInv, Table, RevInv
<1> QED BY <1>3, <1>5 DEF Fits

LEMMA RevokeFits ==
  ASSUME SpoolInv, FenceInv', RevInv', Revoke
  PROVE  Fits'
<1>1. /\ fence[M] # "closed" /\ key.cuts < MaxCuts
      /\ key' = [key EXCEPT !.lock = "closing", !.cuts = key.cuts + 1]
      /\ UNCHANGED <<fenceVars, rows, pub, awaits, heard, sockVars, disk>>
  BY Known DEF Revoke, spoolVars, TypeOK
<1>2. /\ key'.link = key.link /\ key'.halted = key.halted /\ key'.epoch = key.epoch
      /\ key'.cuts \in 0 .. MaxCuts
  BY <1>1, Known, SpoolAssumption DEF TypeOK
<1>3. KeysFit'
  <2>1. \A g \in Drain : Writing(g)' => Readable(drain[g].row)'
    BY <1>1, Known DEF KeysFit, Writing, Readable, sockVars
  <2> QED BY <1>1, <1>2, <2>1, Known DEF KeysFit, sockVars, fenceVars
<1>4. rows' \in Table /\ \A s \in Seqs : Keeps(s)
  BY <1>1, Known, RowsSame
<1> QED BY <1>1, <1>2, <1>3, <1>4, RevokingFits

LEMMA CutFits ==
  ASSUME SpoolInv, FenceInv', RevInv', NEW n \in 0 .. Done, Cut(n)
  PROVE  Fits'
<1>1. /\ key.lock = "closing" /\ ~InUse /\ disk' = Durable(n)
      /\ UNCHANGED <<fenceVars, pub, awaits, heard, sockVars>>
      /\ rows' = rows \/ rows' = RetireKeys("new")
  BY DEF Cut
<1>2. rows' \in Table /\ \A s \in Seqs : Keeps(s)
  BY <1>1, Known, RowsSame, Retired, FadesKeeps
<1>3. fence[M] # "closed" /\ \A g \in Drain : ~Writing(g)
  BY <1>1, Known DEF KeysFit, InUse
<1>4. /\ key'.link = key.link /\ key'.cuts = key.cuts
      /\ n # Done => key'.halted
      /\ n = Done => key'.epoch = "new" /\ disk'.stored = "new"
  BY <1>1, Known DEF Cut, Durable, Done, TypeOK
<1>5. KeysFit'
  <2>1. \A g \in Drain : ~Writing(g)' /\ drain'[g] = drain[g]
    BY <1>1, <1>3 DEF Writing, sockVars
  <2>2. fence'[M] # "closed" /\ wrote' = wrote
    BY <1>1, <1>3 DEF fenceVars, sockVars
  <2>3. \A g \in Drain : drain'[g].pc # "off" => key'.link = "ready"
    BY <1>4, <2>1, Known DEF KeysFit
  <2>4. key'.link # "down"
    BY <1>3, <1>4, Known DEF KeysFit
  <2>5. /\ ~key'.halted => key'.epoch = disk'.stored
        /\ ~key'.halted => disk'.stored = "new"
    BY <1>4
  <2> QED BY <2>1, <2>2, <2>3, <2>4, <2>5 DEF KeysFit
<1>6. key'.cuts \in 0 .. MaxCuts
  BY <1>4, Known DEF TypeOK
<1> QED BY <1>1, <1>2, <1>5, <1>6, RevokingFits

LEMMA CompleteFits ==
  ASSUME SpoolInv, FenceInv', RevInv', NEW ok \in BOOLEAN, NEW left \in BOOLEAN, Complete(ok, left)
  PROVE  Fits'
<1>1. /\ key.lock = "finishing" /\ disk' = [disk EXCEPT !.journal = left]
      /\ key' = [key EXCEPT !.lock = "open", !.link = IF ok THEN "ready" ELSE key.link]
      /\ UNCHANGED <<fenceVars, rows, pub, awaits, heard, sockVars>>
  BY Known DEF Complete, spoolVars, TypeOK
<1>2. /\ disk'.stored = disk.stored /\ disk'.pinned = disk.pinned
      /\ key'.halted = key.halted /\ key'.epoch = key.epoch /\ key'.cuts = key.cuts
      /\ key'.link \in {"ready", key.link}
  BY <1>1, Known DEF TypeOK
<1>3. fence[M] # "closed" /\ disk.stored = "new" /\ key.link # "down"
  BY <1>1, Known DEF KeysFit, SpoolInv, RevInv
<1>4. KeysFit'
  <2>1. \A g \in Drain : Writing(g)' => Readable(drain[g].row)'
    BY <1>1, <1>2, Known DEF KeysFit, Writing, Readable, sockVars
  <2>2. fence'[M] # "closed" /\ key'.link # "down"
    BY <1>1, <1>2, <1>3 DEF fenceVars
  <2>3. \A g \in Drain : drain'[g].pc # "off" => key'.link = "ready"
    BY <1>1, <1>2, Known DEF KeysFit, sockVars
  <2>4. ~key'.halted => key'.epoch = disk'.stored
    BY <1>2, <1>3, Known DEF KeysFit
  <2> QED BY <1>2, <1>3, <2>1, <2>2, <2>3, <2>4 DEF KeysFit
<1>5. rows' \in Table /\ \A s \in Seqs : Keeps(s)
  BY <1>1, Known, RowsSame
<1>6. key'.cuts \in 0 .. MaxCuts
  BY <1>2, Known DEF TypeOK
<1> QED BY <1>1, <1>4, <1>5, <1>6, RevokingFits

(* Nothing of a daemon is there before its fence is open. *)
LEMMA BootFits ==
  ASSUME SpoolInv, FenceInv', RevInv', Boot
  PROVE  Fits'
<1>1. /\ fence[M] = "closed" /\ fence' = [fence EXCEPT ![M] = "open"]
      /\ key' = [key EXCEPT !.epoch = disk.stored, !.lock = "open", !.halted = FALSE, !.link = LinkAtBoot]
      /\ UNCHANGED <<rows, pub, awaits, heard, sock, gen, drain, reader, wrote, disk>>
  BY DEF Boot, Open, spoolVars, sockVars
<1>2. \A s \in Seqs : rows[s].st = "none"
  BY <1>1, Known DEF RowsFit
<1>3. wrote = None /\ \A g \in Drain : drain[g].pc = "off"
  BY <1>1, Known DEF KeysFit
<1>4. RowsFit'
  BY <1>1, <1>2, Known DEF RowsFit, SentInOrder, In
<1>5. TellsFit'
  BY <1>1, <1>2, <1>3, Known DEF TellsFit, HeardOnce, Over, ToldOf
<1>6. WritesFit'
  <2>1. \A g \in Drain : ToWrite(g)'
    BY <1>1, <1>3 DEF ToWrite, Writing
  <2> QED BY <1>1, <1>3, <2>1 DEF WritesFit
<1>7. KeysFit'
  <2>1. key'.epoch = disk.stored /\ key'.link \in {"resuming", "ready"} /\ (key'.link = "ready" => ~disk.journal)
    BY <1>1, Known DEF LinkAtBoot, TypeOK
  <2>2. ~disk.journal => disk.pinned \/ disk.stored = "new"
    BY DEF SpoolInv, RevInv, RevokedIsRotated
  <2>3. fence'[M] = "open"
    BY <1>1, Known DEF FenceInv, FenceTypeOK
  <2> QED BY <1>1, <1>3, <2>1, <2>2, <2>3 DEF KeysFit, Writing
<1>8. TypeOK'
  <2>1. key' \in [epoch : Epoch, lock : {"open", "closing", "finishing"}, halted : BOOLEAN,
                  link : {"down", "resuming", "ready"}, cuts : 0 .. MaxCuts]
    BY <1>1, Known DEF LinkAtBoot, TypeOK
  <2> QED BY <1>1, <2>1, Known DEF TypeOK, FenceInv
<1> QED BY <1>4, <1>5, <1>6, <1>7, <1>8 DEF Fits

(* What a daemon that starts, or has ended, has in memory. *)
Blank ==
  /\ FenceInv /\ rows = [s \in Seqs |-> NoRow] /\ pub = [r \in Recipient |-> Idle]
  /\ awaits = [r \in Terminal |-> None] /\ heard = [s \in Seqs |-> 0]
  /\ sock = "none" /\ gen = 0 /\ reader = NoReceipt /\ wrote = None /\ drain = [g \in Drain |-> Off]
  /\ fence[M] = "closed" /\ key.link = "down" /\ key.lock = "open"
  /\ key \in [epoch : Epoch, lock : {"open", "closing", "finishing"}, halted : BOOLEAN,
              link : {"down", "resuming", "ready"}, cuts : 0 .. MaxCuts]
  /\ disk \in [journal : BOOLEAN, pinned : BOOLEAN, stored : Epoch]

LEMMA BlankFits == Blank => Fits
<1> SUFFICES ASSUME Blank PROVE Fits
  OBVIOUS
<1> USE DEF Blank
<1>1. TypeOK
  BY SpoolAssumption DEF FenceInv, TypeOK, NoReceipt, Idle, Off
<1>2. \A s \in Seqs : rows[s].st = "none" /\ heard[s] = 0
  BY DEF NoRow
<1>3. \A g \in Drain : drain[g].pc = "off"
  BY DEF Off
<1>4. RowsFit
  BY <1>2 DEF RowsFit, SentInOrder, In, Idle
<1>5. TellsFit
  BY <1>2, <1>3 DEF TellsFit, HeardOnce
<1>6. WritesFit
  BY <1>3 DEF WritesFit, ToWrite, Writing
<1>7. KeysFit
  BY <1>3 DEF KeysFit, Writing
<1> QED BY <1>1, <1>4, <1>5, <1>6, <1>7 DEF Fits

LEMMA CrashFits ==
  ASSUME SpoolInv, FenceInv', RevInv', Crash
  PROVE  Fits'
<1>1. Blank'
  <2>1. /\ rows' = [s \in Seqs |-> NoRow] /\ pub' = [r \in Recipient |-> Idle]
        /\ awaits' = [r \in Terminal |-> None] /\ heard' = [s \in Seqs |-> 0]
        /\ sock' = "none" /\ gen' = 0 /\ reader' = NoReceipt /\ wrote' = None /\ drain' = [g \in Drain |-> Off]
    BY DEF Crash
  <2>2. key' = [key EXCEPT !.lock = "open", !.halted = FALSE, !.link = "down"] /\ disk' = disk
    BY DEF Crash
  <2>3. fence'[M] = "closed"
    BY TheMachine DEF Crash, Ends
  <2>4. /\ key' \in [epoch : Epoch, lock : {"open", "closing", "finishing"}, halted : BOOLEAN,
                     link : {"down", "resuming", "ready"}, cuts : 0 .. MaxCuts]
        /\ key'.link = "down" /\ key'.lock = "open"
        /\ disk' \in [journal : BOOLEAN, pinned : BOOLEAN, stored : Epoch]
    BY <2>2, Known DEF TypeOK
  <2> QED BY <2>1, <2>3, <2>4 DEF Blank
<1>2. Blank' => Fits'
  BY BlankFits, PTL
<1> QED BY <1>1, <1>2

LEMMA SpoolStarts == Init => SpoolInv
<1> SUFFICES ASSUME Init PROVE SpoolInv
  OBVIOUS
<1>1. FenceInv /\ RevInv
  BY FenceStart, RevStart DEF Init
<1>2. fence[M] = "closed"
  BY TheMachine DEF Init, FenceInit
<1>3. Blank
  BY <1>1, <1>2, SpoolAssumption DEF Init, Blank, Epoch
<1> QED BY <1>1, <1>3, BlankFits DEF SpoolInv, Fits

(* One step of the spool, by who takes it. *)
LEMMA SpoolKept == SpoolInv /\ [Next]_vars => SpoolInv'
<1> SUFFICES ASSUME SpoolInv, [Next]_vars PROVE SpoolInv'
  OBVIOUS
<1>1. FenceInv'
  BY StepOfFence, FenceStep, TheMachine DEF SpoolInv
<1>2. RevInv'
  BY RevKeeps DEF SpoolInv
<1>3. ASSUME NEW r \in Recipient, TakeTerminal(r) \/ Publish(r) \/ Publishing(r) PROVE Fits'
  <2>1. CASE TakeTerminal(r) \/ PublishHalted(r) \/ Await(r)
    BY <1>1, <2>1, TakeTerminalFits
  <2>2. CASE Reserve(r)
    BY <1>1, <2>2, ReserveFits
  <2>3. CASE Fenced(r)
    BY <1>1, <2>3, FencedFits
  <2>4. ASSUME NEW ok \in BOOLEAN, Seal(r, ok) PROVE Fits'
    BY <1>1, <2>4, SealFits
  <2> QED BY <1>3, <2>1, <2>2, <2>3, <2>4 DEF Publish, Publishing
<1>4. ASSUME NEW g \in Drain, DrainStep(g) PROVE Fits'
  <2>1. CASE InFlight(g) \/ Resend(g) \/ Leave(g) \/ WriteLost(g)
    BY <1>1, <2>1, InFlightFits, ResendFits, LeaveFits
  <2>2. CASE Tick(g) \/ SendNext(g) \/ SendHalted(g)
    BY <1>1, <2>2, TickFits, SendNextFits, SendHaltedFits
  <2>3. CASE TellBurned(g) \/ Write(g)
    BY <1>1, <2>3, TellBurnedFits, WriteFits
  <2> QED BY <1>4, <2>1, <2>2, <2>3 DEF DrainStep
<1>5. ASSUME NEW s \in Seqs, Expire(s) PROVE Fits'
  BY <1>1, <1>5, ExpireFits
<1>6. ASSUME NEW s \in Seqs, NEW outcome \in {"delivered", "refused"}, Receipt(s, outcome) PROVE Fits'
  BY <1>1, <1>6, ReceiptFits
<1>7. ASSUME ReceiptTold \/ Disconnect \/ Connect PROVE Fits'
  BY <1>1, <1>7, ReceiptToldFits, DisconnectFits, ConnectFits
<1>8. ASSUME Revoke PROVE Fits'
  BY <1>1, <1>2, <1>8, RevokeFits
<1>9. ASSUME Revoking PROVE Fits'
  BY <1>1, <1>2, <1>9, CutFits, CompleteFits DEF Revoking
<1>10. ASSUME Boot \/ Crash PROVE Fits'
  BY <1>1, <1>2, <1>10, BootFits, CrashFits
<1>11. ASSUME UNCHANGED vars PROVE Fits'
  BY <1>1, <1>11, UnchangedFits
<1>12. Fits'
  BY <1>3, <1>4, <1>5, <1>6, <1>7, <1>8, <1>9, <1>10, <1>11 DEF Next
<1> QED BY <1>1, <1>2, <1>12 DEF SpoolInv, Fits

(* Every reachable state of the spool satisfies SpoolInv: the rows, the     *)
(* sockets and what each recipient heard tell one story.                  *)
THEOREM SpoolHolds == Spec => []SpoolInv
  BY SpoolStarts, SpoolKept, PTL DEF Spec

----------------------------------------------------------------------------

(* Every variable keeps its type, at any number of rows, sockets,          *)
(* recipients and faults (the whole module).                               *)
THEOREM SpoolTyped == Spec => []TypeOK
<1>1. SpoolInv => TypeOK
  BY DEF SpoolInv
<1> QED BY <1>1, SpoolHolds, PTL

(* Nothing below a sent row is still to be sealed or sent, so no receiver  *)
(* is left with a hole its replay window cannot fill (SendNextKeyed).      *)
THEOREM InOrder == Spec => []SentInOrder
<1>1. SpoolInv => SentInOrder
  BY DEF SpoolInv, RowsFit
<1> QED BY <1>1, SpoolHolds, PTL

(* The relay's receipt and the burning of a row never both reach its       *)
(* waiter, and neither does twice (Settle, TakeBurned, TakeReplaced).      *)
THEOREM ToldOnce == Spec => []HeardOnce
<1>1. SpoolInv => HeardOnce
  BY DEF SpoolInv, TellsFit
<1> QED BY <1>1, SpoolHolds, PTL

(* What a drain is about to write is sealed under the stored key, never    *)
(* under the one a revoked viewer knows (KeyEpoch, SendNextKeyed).         *)
THEOREM NothingForRevoked == Spec => []RevokedReadsNothing
<1>1. SpoolInv => RevokedReadsNothing
  BY DEF SpoolInv, KeysFit, Readable, RevokedReadsNothing
<1> QED BY <1>1, SpoolHolds, PTL

(* One socket is given sequences in ascending order, each once, re-sent    *)
(* ones and an older socket's drain included (drain, drainOnce).           *)
THEOREM Ascending == Spec => WritesAscend
<1>1. SpoolInv => \A g \in Drain : Write(g) => wrote = None \/ wrote < drain[g].row
  <2> SUFFICES ASSUME SpoolInv, NEW g \in Drain, Write(g) PROVE wrote = None \/ wrote < drain[g].row
    OBVIOUS
  <2>1. g = gen /\ Writing(g)
    BY DEF Write, Alive
  <2> QED BY <2>1, Known DEF WritesFit, Ahead
<1> QED BY <1>1, SpoolHolds, PTL DEF WritesAscend

=============================================================================

-------------------------------- MODULE Lane --------------------------------
(***************************************************************************)
(* The per-key bounded lane every write to a terminal takes its turn in:   *)
(* one holder per key, and one ceiling on holders and waiters over all     *)
(* keys.                                                                   *)
(*                                                                         *)
(* A slot is made when its key is first wanted and forgotten when nobody   *)
(* refers to it, so the same key may have many slots over time.  The turn  *)
(* of a slot is a Go channel with room for one: a send that finds it full  *)
(* blocks, blocked senders are served in the order they came, and a        *)
(* receive hands the turn to the first of them at once.                    *)
(***************************************************************************)
EXTENDS Naturals, FiniteSets, Sequences

CONSTANTS
  Writer,  \* goroutines that write to terminals
  Key,     \* terminals
  SlotId,  \* slots in memory
  Limit,   \* holders and waiters the machine admits
  None     \* no key, no slot

ASSUME LaneAssumption ==
  /\ IsFiniteSet(Writer) /\ None \notin Key \cup SlotId
  /\ Limit \in Nat \ {0}

VARIABLES
  admitted,  \* Lanes.admitted
  keys,      \* Lanes.keys: the slot of each key
  refs,      \* slot.refs
  full,      \* whether the channel of each slot holds its token
  line,      \* the senders blocked on each slot, oldest first
  pc,        \* where each writer is
  key,       \* the key it asked for
  at         \* the slot it refers to

vars == <<admitted, keys, refs, full, line, pc, key, at>>

TypeOK ==
  /\ admitted \in 0 .. Limit
  /\ keys \in [Key -> SlotId \cup {None}]
  /\ refs \in [SlotId -> Nat]
  /\ full \in [SlotId -> BOOLEAN]
  /\ line \in [SlotId -> Seq(Writer)]
  /\ pc \in [Writer -> {"idle", "admitted", "blocked", "writing", "leaving"}]
  /\ key \in [Writer -> Key \cup {None}]
  /\ at \in [Writer -> SlotId \cup {None}]

Init ==
  /\ admitted = 0
  /\ keys = [k \in Key |-> None]
  /\ refs = [s \in SlotId |-> 0]
  /\ full = [s \in SlotId |-> FALSE]
  /\ line = [s \in SlotId |-> <<>>]
  /\ pc = [w \in Writer |-> "idle"]
  /\ key = [w \in Writer |-> None]
  /\ at = [w \in Writer |-> None]

-----------------------------------------------------------------------------
(* Mutant: the ceiling is passed by one.                                   *)
RoomForOneMore == admitted <= Limit

Room == admitted < Limit

(* A slot nobody refers to any more: what `new` may return.                *)
Unreferenced(s) ==
  /\ \A k \in Key : keys[k] # s
  /\ \A w \in Writer : at[w] # s

(* The slot of a key, made when there is none.                             *)
SlotFor(k) == IF keys[k] # None THEN {keys[k]} ELSE {s \in SlotId : Unreferenced(s)}

(* Acquire, up to the end of its critical section.  A machine that is full *)
(* refuses and changes nothing.                                            *)
Admit(w, k) ==
  /\ pc[w] = "idle" /\ Room
  /\ admitted' = admitted + 1
  /\ \E s \in SlotFor(k) :
       /\ keys' = [keys EXCEPT ![k] = s]
       /\ refs' = [refs EXCEPT ![s] = IF keys[k] = None THEN 1 ELSE @ + 1]
       /\ full' = [full EXCEPT ![s] = @ /\ keys[k] # None]
       /\ at' = [at EXCEPT ![w] = s]
  /\ key' = [key EXCEPT ![w] = k]
  /\ pc' = [pc EXCEPT ![w] = "admitted"]
  /\ UNCHANGED line

(* The select finds the channel empty, or blocks on it.                    *)
Send(w) ==
  /\ pc[w] = "admitted" /\ ~full[at[w]]
  /\ full' = [full EXCEPT ![at[w]] = TRUE]
  /\ pc' = [pc EXCEPT ![w] = "writing"]
  /\ UNCHANGED <<admitted, keys, refs, line, key, at>>

Block(w) ==
  /\ pc[w] = "admitted" /\ full[at[w]]
  /\ line' = [line EXCEPT ![at[w]] = Append(@, w)]
  /\ pc' = [pc EXCEPT ![w] = "blocked"]
  /\ UNCHANGED <<admitted, keys, refs, full, key, at>>

(* A line without its i-th sender.                                         *)
Without(q, i) == [j \in 1 .. Len(q) - 1 |-> IF j < i THEN q[j] ELSE q[j + 1]]

(* The caller's context ends first: before the send, with the channel      *)
(* empty or full, or while blocked on it.                                  *)
GiveUp(w) ==
  /\ \/ pc[w] = "admitted" /\ UNCHANGED line
     \/ /\ pc[w] = "blocked"
        /\ \E i \in 1 .. Len(line[at[w]]) :
             /\ line[at[w]][i] = w
             /\ line' = [line EXCEPT ![at[w]] = Without(@, i)]
  /\ pc' = [pc EXCEPT ![w] = "leaving"]
  /\ UNCHANGED <<admitted, keys, refs, full, key, at>>

(* Mutant: the token is not taken out.                                     *)
ReceiveForgotten(w) ==
  /\ pc[w] = "writing"
  /\ pc' = [pc EXCEPT ![w] = "leaving"]
  /\ UNCHANGED <<admitted, keys, refs, full, line, key, at>>

(* The release: the token is taken out, and the first blocked sender's is  *)
(* put in with it.  A second call of the same release does nothing.        *)
Receive(w) ==
  LET s == at[w] IN
  /\ pc[w] = "writing"
  /\ \/ /\ line[s] = <<>>
        /\ full' = [full EXCEPT ![s] = FALSE]
        /\ pc' = [pc EXCEPT ![w] = "leaving"]
        /\ UNCHANGED line
     \/ /\ line[s] # <<>>
        /\ line' = [line EXCEPT ![s] = Tail(@)]
        /\ pc' = [pc EXCEPT ![w] = "leaving", ![Head(line[s])] = "writing"]
        /\ UNCHANGED full
  /\ UNCHANGED <<admitted, keys, refs, key, at>>

(* Mutants of Forgets: a slot is forgotten with its first user; never.     *)
ForgetsEarly(w) == keys[key[w]] = at[w]
ForgetsNever(w) == FALSE

Forgets(w) == refs[at[w]] = 1 /\ keys[key[w]] = at[w]

(* leave.                                                                  *)
Leave(w) ==
  /\ pc[w] = "leaving"
  /\ admitted' = admitted - 1
  /\ refs' = [refs EXCEPT ![at[w]] = @ - 1]
  /\ keys' = [keys EXCEPT ![key[w]] = IF Forgets(w) THEN None ELSE @]
  /\ pc' = [pc EXCEPT ![w] = "idle"]
  /\ key' = [key EXCEPT ![w] = None]
  /\ at' = [at EXCEPT ![w] = None]
  /\ UNCHANGED <<full, line>>

Next ==
  \E w \in Writer :
    \/ \E k \in Key : Admit(w, k)
    \/ Send(w) \/ Block(w) \/ GiveUp(w) \/ Receive(w) \/ Leave(w)

Spec == Init /\ [][Next]_vars

(* A goroutine that can run does, and a write to a terminal ends: every    *)
(* adapter call has its own deadline, and every release is deferred.       *)
Fairness ==
  \A w \in Writer :
    WF_vars(Send(w) \/ Block(w)) /\ WF_vars(Receive(w)) /\ WF_vars(Leave(w))

FairSpec == Spec /\ Fairness

-----------------------------------------------------------------------------
(* Properties.                                                             *)

(* One writer to one terminal at a time, although a key's slot is thrown   *)
(* away and made again while others come and go: two writers never type    *)
(* into the same terminal.                                                 *)
OneWriter ==
  \A v, w \in Writer :
    pc[v] = "writing" /\ pc[w] = "writing" /\ key[v] = key[w] => v = w

Inside == {w \in Writer : pc[w] # "idle"}

(* The ceiling counts everybody who is inside, and never more than the     *)
(* limit are: no way out of Acquire leaks a place or gives one back twice. *)
CeilingCounts == admitted = Cardinality(Inside) /\ Cardinality(Inside) <= Limit

(* What makes them inductive: who is inside refers to the slot its key     *)
(* has; a slot has one key; refs counts who refers to it; at most one      *)
(* writer holds its token; and its line are those blocked on it.           *)
OnItsSlot ==
  \A w \in Writer :
    IF pc[w] = "idle" THEN at[w] = None /\ key[w] = None
    ELSE key[w] \in Key /\ at[w] \in SlotId /\ keys[key[w]] = at[w]

SlotsApart == \A j, k \in Key : keys[j] = keys[k] => j = k \/ keys[j] = None

Users(s) == {w \in Writer : at[w] = s}

RefsCount == \A s \in SlotId : refs[s] = Cardinality(Users(s))

TokenHeld ==
  \A v, w \in Writer :
    pc[v] = "writing" =>
      full[at[v]] /\ (pc[w] = "writing" /\ at[v] = at[w] => v = w)

LineBlocked ==
  \A s \in SlotId : \A i \in 1 .. Len(line[s]) :
    /\ pc[line[s][i]] = "blocked" /\ at[line[s][i]] = s
    /\ \A j \in 1 .. Len(line[s]) : line[s][i] = line[s][j] => i = j

IInv ==
  /\ TypeOK /\ OnItsSlot /\ SlotsApart /\ RefsCount /\ TokenHeld /\ LineBlocked
  /\ CeilingCounts

(* A slot is remembered exactly while somebody uses its key: the map of a  *)
(* daemon that has seen many terminals does not grow.                      *)
NoSlotLeft == \A k \in Key : keys[k] # None <=> \E w \in Inside : key[w] = k

(* Whoever is admitted gets its turn or gives up, past any number of       *)
(* writers that come later.                                                *)
TurnComes == \A w \in Writer : pc[w] = "admitted" ~> pc[w] \in {"writing", "leaving"}
=============================================================================

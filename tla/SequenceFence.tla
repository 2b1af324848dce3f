--------------------------- MODULE SequenceFence ---------------------------
(***************************************************************************)
(* The durable high-water mark of an outbound sequence counter.            *)
(*                                                                         *)
(* One file holds one ceiling per sender.  A fence is an open FileFence:   *)
(* it keeps its sender's ceiling in memory and writes the file, a block    *)
(* ahead, before it lets a sequence at the ceiling be handed out.  Its     *)
(* owner (the spool of a machine, the client of a viewer) keeps the        *)
(* counter and takes the file's ceiling for it when it opens.  Writing     *)
(* reads the whole file, changes one sender's entry and renames a new      *)
(* file into place; a fence's mutex is its own, so two fences on one file  *)
(* interleave between the reading and the renaming.                        *)
(***************************************************************************)
EXTENDS Naturals

CONSTANTS
  Fence,      \* the FileFences opened on one file
  Sender,     \* the identities the file keeps a ceiling for
  SenderOf,   \* the identity of each fence
  Block,      \* how far ahead of the counter the file is written
  MaxSeq,     \* the last sequence of the safe-integer domain; a bound
  MayMisread, \* whether reading the file before a write may fail
  MaxCrashes, \* bound: how often a fence's process ends
  MaxFaults   \* bound: how many writes of the file fail

ASSUME FenceAssumption ==
  /\ SenderOf \in [Fence -> Sender]
  /\ Block \in Nat \ {0}
  /\ MaxSeq \in Nat /\ MaxCrashes \in Nat /\ MaxFaults \in Nat /\ MayMisread \in BOOLEAN

VARIABLES
  file,      \* the ceilings on disk
  fence,     \* what each FileFence is at
  ceiling,   \* its ceiling in memory
  nextSeq,   \* its owner's counter
  record,    \* the file as writeLocked read it
  uses,      \* history: how often each sequence was handed out
  crashes,   \* processes that ended so far
  faults     \* writes that failed so far

fenceVars == <<file, fence, ceiling, nextSeq, record, uses, crashes, faults>>

Seqs    == 0 .. MaxSeq
NoFile  == [s \in Sender |-> 0]
Unread  == IF MayMisread THEN {NoFile} ELSE {}

FenceTypeOK ==
  /\ file \in [Sender -> Nat]
  /\ fence \in [Fence -> {"closed", "open", "writing"}]
  /\ ceiling \in [Fence -> Nat]
  /\ nextSeq \in [Fence -> Nat]
  /\ record \in [Fence -> [Sender -> Nat]]
  /\ uses \in [Sender -> [Seqs -> 0 .. 2]]
  /\ crashes \in 0 .. MaxCrashes /\ faults \in 0 .. MaxFaults

FenceInit ==
  /\ file = NoFile
  /\ fence = [f \in Fence |-> "closed"]
  /\ ceiling = [f \in Fence |-> 0]
  /\ nextSeq = [f \in Fence |-> 0]
  /\ record = [f \in Fence |-> NoFile]
  /\ uses = [s \in Sender |-> [q \in Seqs |-> 0]]
  /\ crashes = 0 /\ faults = 0

(* Mutant: the counter starts again at zero. *)
OpenFromZero(f) ==
  /\ fence[f] = "closed"
  /\ fence' = [fence EXCEPT ![f] = "open"]
  /\ ceiling' = [ceiling EXCEPT ![f] = file[SenderOf[f]]]
  /\ nextSeq' = [nextSeq EXCEPT ![f] = 0]
  /\ UNCHANGED <<file, record, uses, crashes, faults>>

(* NewSpool, NewViewerClient: the counter is the ceiling of the file. *)
Open(f) ==
  /\ fence[f] = "closed"
  /\ fence' = [fence EXCEPT ![f] = "open"]
  /\ ceiling' = [ceiling EXCEPT ![f] = file[SenderOf[f]]]
  /\ nextSeq' = [nextSeq EXCEPT ![f] = file[SenderOf[f]]]
  /\ UNCHANGED <<file, record, uses, crashes, faults>>

(* The counter moves, and its sequence belongs to somebody. *)
Take(f) ==
  /\ nextSeq' = [nextSeq EXCEPT ![f] = @ + 1]
  /\ uses' = [uses EXCEPT ![SenderOf[f]][nextSeq[f]] = IF @ = 2 THEN 2 ELSE @ + 1]

(* Past the safe-integer domain the reservation is refused. *)
InDomain(f) == nextSeq[f] <= MaxSeq

(* Covered by a block written earlier. *)
HandOut(f) ==
  /\ fence[f] = "open" /\ InDomain(f)
  /\ nextSeq[f] < ceiling[f]
  /\ Take(f)
  /\ UNCHANGED <<file, fence, ceiling, record, crashes, faults>>

(* The counter has caught up: the file is read, for the other senders; one *)
(* that cannot be read counts as empty.                                    *)
ReadFile(f) ==
  /\ fence[f] = "open" /\ InDomain(f)
  /\ nextSeq[f] >= ceiling[f]
  /\ \E read \in {file} \cup Unread : record' = [record EXCEPT ![f] = read]
  /\ fence' = [fence EXCEPT ![f] = "writing"]
  /\ UNCHANGED <<file, ceiling, nextSeq, uses, crashes, faults>>

Written(f) == [record[f] EXCEPT ![SenderOf[f]] = nextSeq[f] + Block]

WriteFile(f) ==
  /\ fence[f] = "writing"
  /\ file' = Written(f)
  /\ ceiling' = [ceiling EXCEPT ![f] = nextSeq[f] + Block]
  /\ fence' = [fence EXCEPT ![f] = "open"]
  /\ Take(f)
  /\ UNCHANGED <<record, crashes, faults>>

(* The write fails before its rename: no sequence goes out. *)
WriteFails(f) ==
  /\ fence[f] = "writing"
  /\ faults < MaxFaults /\ faults' = faults + 1
  /\ fence' = [fence EXCEPT ![f] = "open"]
  /\ UNCHANGED <<file, ceiling, nextSeq, record, uses, crashes>>

(* The process of some fences ends; what it had in memory is gone. *)
Ends(F) ==
  /\ crashes < MaxCrashes /\ crashes' = crashes + 1
  /\ \A f \in F : fence[f] # "closed"
  /\ fence' = [f \in Fence |-> IF f \in F THEN "closed" ELSE fence[f]]
  /\ UNCHANGED <<file, ceiling, nextSeq, record, uses, faults>>

FenceNext ==
  \/ \E f \in Fence : Open(f) \/ HandOut(f) \/ ReadFile(f) \/ WriteFile(f) \/ WriteFails(f)
  \/ \E F \in (SUBSET Fence) \ {{}} : Ends(F)

FenceSpec == FenceInit /\ [][FenceNext]_fenceVars

(* A sequence, once reserved, is never reused: not after a failing write,  *)
(* not after a restart (spool.go, invariant 1).                            *)
NeverReused == \A s \in Sender, q \in Seqs : uses[s][q] <= 1
=============================================================================

--------------------------- MODULE MCEffectOutbox ---------------------------
(* Small instances of EffectOutbox for TLC. *)
EXTENDS EffectOutbox, TLC

MCMessage    == "message"
MCIdempotent == {"worktree"}

MCKind       == {"message", "wait", "worktree"}
MCRelay      == {"message", "worktree"}

(* Safety only: the handles and the callers are interchangeable. *)
Symmetric == Permutations(Handle) \cup Permutations(Caller)
=============================================================================

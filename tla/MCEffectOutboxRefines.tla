----------------------- MODULE MCEffectOutboxRefines -----------------------
(* A small instance of EffectOutboxRefines for TLC, with the invariant of  *)
(* the proofs.                                                             *)
EXTENDS EffectOutboxOnce_proofs, TLC

MCKind       == {"message"}
MCMessage    == "message"
MCIdempotent == {}

(* Safety only: what is interchangeable. *)
Symmetric == Permutations(Handle) \cup Permutations(Caller)
               \cup Permutations(Key) \cup Permutations(Digest)
=============================================================================

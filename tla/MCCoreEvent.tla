----------------------------- MODULE MCCoreEvent -----------------------------
(* Small instances of CoreEvent for TLC. *)
EXTENDS CoreEvent

Symm == Permutations(Permanent) \cup Permutations(Once)
=============================================================================

-------------------------- MODULE MCAddressDatabase --------------------------
(* A small instance of AddressDatabase for TLC. *)
EXTENDS AddressDatabase, TLC

Symm == Permutations(Keys) \cup Permutations(Objects)
=============================================================================

------------------------------- MODULE MCLoader -------------------------------
(* A small instance of Loader for TLC. *)
EXTENDS Loader
=============================================================================

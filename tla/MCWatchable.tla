----------------------------- MODULE MCWatchable -----------------------------
(* Small instances of Watchable for TLC. *)
EXTENDS Watchable
=============================================================================

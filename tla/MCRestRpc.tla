------------------------------ MODULE MCRestRpc ------------------------------
(* Small instances of RestRpc for TLC. *)
EXTENDS RestRpc
=============================================================================

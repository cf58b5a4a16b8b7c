---------------------------- MODULE MCHttpClient ----------------------------
(* A small instance of HttpClient for TLC. *)
EXTENDS HttpClient, TLC
=============================================================================

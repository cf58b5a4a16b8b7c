--------------------------- MODULE MCNetworkClient ---------------------------
(* A small instance of NetworkClient for TLC: a task for each of two kinds of *)
(* message on one port and on "*", and waits on every port.                   *)
EXTENDS NetworkClient

CONSTANTS p1, request, answer

MCHandlers == {<<p1, request>>, <<AnyPort, request>>}
MCAnyHandlers == {<<p1, AnyEvent>>}
=============================================================================

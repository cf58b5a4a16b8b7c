------------------------------ MODULE RemoteCall ------------------------------
(***************************************************************************)
(* What a call of Client:Send promises, without stacks, messages or a       *)
(* network: the endpoint may run while the caller knows nothing yet, never  *)
(* afterwards; what the caller is told is told once and stands.             *)
(*                                                                         *)
(* It promises this until the caller gives up on a call, or makes one       *)
(* inside another: from then on it can be sure of nothing it was told.      *)
(***************************************************************************)
EXTENDS Naturals, Sequences

CONSTANTS Computers, Requests, Codes, Nothing

VARIABLES
  calls,     \* from and to which computer each call goes
  executed,  \* the calls whose endpoint ran
  told,      \* the code each caller can be sure of
  unsure     \* the callers that are sure of none

vars == <<calls, executed, told, unsure>>

Init ==
  /\ calls = <<>>
  /\ executed = {}
  /\ told = [id \in Requests |-> Nothing]
  /\ unsure = {}

\* The calls of c are not to be trusted from now on.
Unsure(c) ==
  /\ unsure' = unsure \cup {c}
  /\ told' = [id \in Requests |-> IF id \in DOMAIN calls /\ calls[id].from = c THEN Nothing ELSE told[id]]

Call(c, d) ==
  /\ Len(calls) + 1 \in Requests
  /\ calls' = Append(calls, [from |-> c, to |-> d])
  /\ Unsure(c) \/ UNCHANGED <<told, unsure>>
  /\ UNCHANGED executed

Execute(id) ==
  /\ id \in DOMAIN calls
  /\ id \notin executed
  /\ told[id] = Nothing
  /\ executed' = executed \cup {id}
  /\ UNCHANGED <<calls, told, unsure>>

Tell(id, code) ==
  /\ id \in DOMAIN calls
  /\ calls[id].from \notin unsure
  /\ told[id] = Nothing
  /\ told' = [told EXCEPT ![id] = code]
  /\ UNCHANGED <<calls, executed, unsure>>

GiveUp(c) == Unsure(c) /\ UNCHANGED <<calls, executed>>

Next ==
  \/ \E c, d \in Computers : c # d /\ Call(c, d)
  \/ \E id \in Requests : Execute(id) \/ \E code \in Codes : Tell(id, code)
  \/ \E c \in Computers : GiveUp(c)

Spec == Init /\ [][Next]_vars
=============================================================================

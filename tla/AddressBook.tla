----------------------------- MODULE AddressBook -----------------------------
(***************************************************************************)
(* What the DNS server's database promises, without files, caches or Save:  *)
(* a partial map from ids to domains, every domain under at most one id.    *)
(* An address can be removed, and a computer that stops loses at most the   *)
(* one it was writing and the one it was deleting.                          *)
(***************************************************************************)
EXTENDS Naturals

CONSTANTS Ids, Domains, None

VARIABLES
  book,  \* the domain of each id
  stops  \* how often the computer has stopped

Init ==
  /\ book = [i \in Ids |-> None]
  /\ stops = 0

Add(i, d) ==
  /\ book[i] = None
  /\ \A j \in Ids : book[j] # d
  /\ book' = [book EXCEPT ![i] = d]
  /\ UNCHANGED stops

Remove(i) ==
  /\ book' = [book EXCEPT ![i] = None]
  /\ UNCHANGED stops

AtMostTwo == {{}} \cup {{i, j} : i, j \in Ids}

Stop(lost) ==
  /\ book' = [i \in Ids |-> IF i \in lost THEN None ELSE book[i]]
  /\ stops' = stops + 1

Next ==
  \/ \E i \in Ids, d \in Domains : Add(i, d)
  \/ \E i \in Ids : Remove(i)
  \/ \E lost \in AtMostTwo : Stop(lost)

Spec == Init /\ [][Next]_<<book, stops>>
=============================================================================

--------------------------- MODULE AddressDatabase ---------------------------
(***************************************************************************)
(* The addresses of the DNS server (src/DNS/Server/AddressDatabase.lua): a  *)
(* DbTable with an address per id, saved after every change.                *)
(*                                                                         *)
(* An object of the table is its domain: the id is the key, and the IP      *)
(* address only travels with them.  One request is served at a time, none   *)
(* waits for the network; the computer may stop at any moment.              *)
(***************************************************************************)
EXTENDS DbTable

CONSTANT MaxCrashes  \* bound: how often the computer stops
ASSUME CrashesAssumption == MaxCrashes \in Nat

VARIABLES
  request,  \* the request being served: its kind, id and domain
  kept,     \* history: ids whose Create was answered true, not deleted since
  deleted,  \* history: ids whose deletion was answered true
  crashes   \* history: how often the computer has stopped

vars == <<files, dataChanged, opened, left, request, kept, deleted, crashes>>

Idle == [kind |-> "idle"]
Request ==
  {Idle} \cup [kind : {"create", "save create"}, id : Keys, domain : Objects]
         \cup [kind : {"save delete"}, id : Keys]

TypeOK ==
  /\ TableTypeOK
  /\ request \in Request
  /\ kept \subseteq Keys
  /\ deleted \subseteq Keys
  /\ crashes \in 0 .. MaxCrashes

Init ==
  /\ TableInit
  /\ request = Idle
  /\ kept = {}
  /\ deleted = {}
  /\ crashes = 0

WithDomain(d) == {k \in Keys : files[k] = d}

\* UUID.Static__New: an id no address has or had.
NewId(k) == files[k] = Nil /\ dataChanged[k] = Nil /\ k \notin kept \cup deleted

-----------------------------------------------------------------------------
(* Requests that only read: GetWithId and GetWithDomain, Create of a domain  *)
(* that exists, DeleteByUrl of one that does not.  They answer at once.      *)

ReadOnly(wanted) ==
  /\ request = Idle
  /\ \E reads \in SUBSET Keys :
       /\ \/ \E k \in wanted : Finds(wanted, reads, k)
          \/ FindsNothing(wanted, reads)
          \/ Breaks(wanted, reads)
       /\ dataChanged' = ObjectsChanged(reads)
  /\ UNCHANGED <<files, opened, left, request, kept, deleted, crashes>>

GetWithId(k) == ReadOnly({k} \cap Exist)
GetWithDomain(d) == ReadOnly(WithDomain(d))

\* A wrong Create that does not look for the domain.
CreateUnchecked(k, d) ==
  /\ request = Idle
  /\ NewId(k)
  /\ Exist = Decodable
  /\ dataChanged' = ObjectsChanged(Exist)
  /\ Open(k)
  /\ request' = [kind |-> "create", id |-> k, domain |-> d]
  /\ UNCHANGED <<left, kept, deleted, crashes>>

\* Create, up to the moment Set has opened the file of the new address.
Create(k, d) ==
  /\ request = Idle
  /\ NewId(k)
  /\ FindsNothing(WithDomain(d), Exist)
  /\ dataChanged' = ObjectsChanged(Exist)
  /\ Open(k)
  /\ request' = [kind |-> "create", id |-> k, domain |-> d]
  /\ UNCHANGED <<left, kept, deleted, crashes>>

CreateSets ==
  /\ request.kind = "create"
  /\ WriteAndClose(request.domain)
  /\ left' = Read
  /\ request' = [request EXCEPT !.kind = "save create"]
  /\ UNCHANGED <<dataChanged, kept, deleted, crashes>>

\* A wrong DeleteById that does not save.
DeleteByIdUnsaved(k) ==
  /\ request = Idle
  /\ Delete(k)
  /\ kept' = kept \ {k}
  /\ deleted' = deleted \cup {k}
  /\ UNCHANGED <<dataChanged, opened, left, request, crashes>>

DeleteById(k) ==
  /\ request = Idle
  /\ Delete(k)
  /\ left' = Read
  /\ kept' = kept \ {k}
  /\ request' = [kind |-> "save delete", id |-> k]
  /\ UNCHANGED <<dataChanged, opened, deleted, crashes>>

DeleteByUrl(d) ==
  /\ request = Idle
  /\ \E k \in WithDomain(d), reads \in SUBSET Keys :
       /\ Finds(WithDomain(d), reads, k)
       /\ dataChanged' = ObjectsChanged(reads)
       /\ Delete(k)
       /\ left' = Read \cup reads
       /\ kept' = kept \ {k}
       /\ request' = [kind |-> "save delete", id |-> k]
  /\ UNCHANGED <<opened, deleted, crashes>>

-----------------------------------------------------------------------------
(* Save, and the answer. *)

Saving == request.kind \in {"save create", "save delete"}

SaveStep ==
  /\ Saving
  /\ SaveWrites \/ \E k \in Keys : SaveOpens(k)
  /\ UNCHANGED <<request, kept, deleted, crashes>>

Answer ==
  /\ Saving
  /\ left = {} /\ opened = NoKey
  /\ IF request.kind = "save create"
       THEN kept' = kept \cup {request.id} /\ UNCHANGED deleted
       ELSE deleted' = deleted \cup {request.id} /\ UNCHANGED kept
  /\ request' = Idle
  /\ UNCHANGED <<tableVars, crashes>>

Crash ==
  /\ crashes < MaxCrashes
  /\ crashes' = crashes + 1
  /\ Restart
  /\ request' = Idle
  /\ UNCHANGED <<kept, deleted>>

Next ==
  \/ \E k \in Keys : GetWithId(k) \/ DeleteById(k)
  \/ \E d \in Objects : GetWithDomain(d) \/ DeleteByUrl(d)
  \/ \E k \in Keys, d \in Objects : Create(k, d)
  \/ CreateSets
  \/ SaveStep
  \/ Answer
  \/ Crash

Spec == Init /\ [][Next]_vars

-----------------------------------------------------------------------------
(* No two addresses have the same domain, not even halfway through a Save    *)
(* that writes back what was deleted, or after a restart.                    *)
UniqueDomains ==
  \A k, l \in Keys : k # l /\ files[k] \in Objects => files[k] # files[l]

(* Between two requests what Save would write is what the files hold: the    *)
(* save at the end of every change brings both together again.               *)
CacheMatchesFiles ==
  request = Idle => \A k \in Read : files[k] = dataChanged[k]

(* Each stop of the computer costs at most one address whose Create was      *)
(* answered and which nobody deleted, although every Save rewrites them all. *)
LossIsBounded ==
  Cardinality({k \in kept : files[k] \notin Objects /\ k # opened}) <= crashes

(* An address whose deletion was answered true does not come back:           *)
(* DbTable.lua:82 promises `success'.                                        *)
DeletedStaysDeleted ==
  request = Idle => \A k \in deleted : files[k] = Nil

(* The database implements the AddressBook.  An address is in the book with  *)
(* the object that was read, if one was, and with its file otherwise: reads, *)
(* saves and deletions of an address that was read change nothing.           *)
InBook(k) ==
  IF dataChanged[k] # Nil THEN dataChanged[k]
  ELSE IF files[k] \in Objects THEN files[k] ELSE Nil

Book == [k \in Keys |-> InBook(k)]

Abstract == INSTANCE AddressBook
  WITH Ids <- Keys, Domains <- Objects, None <- Nil, book <- Book, stops <- crashes

ImplementsAddressBook == Abstract!Spec
=============================================================================

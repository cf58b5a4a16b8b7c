----------------------- MODULE AddressDatabase_proofs -----------------------
(***************************************************************************)
(* Proofs about AddressDatabase, for any number of ids, domains and stops   *)
(* of the computer.                                                         *)
(*                                                                         *)
(* UniqueDomains is about the files only, but Create decides by the files   *)
(* and a later Save writes the objects that were read: the invariant needs  *)
(* the book, which joins both, and that a cached object differs from its    *)
(* file only while that file is being written or its address deleted.       *)
(***************************************************************************)
EXTENDS AddressDatabase, FiniteSetTheorems, TLAPS

\* The files hold nothing that is not in the book.
FilesInBook == \A k \in Keys : files[k] \in Objects => InBook(k) = files[k]

\* No domain is in the book twice, and the one being created is not in it.
BookUnique ==
  /\ \A k, l \in Keys : k # l /\ InBook(k) # Nil => InBook(k) # InBook(l)
  /\ request.kind = "create" => \A k \in Keys : InBook(k) # request.domain

\* Where what was read and its file may differ.
CacheInv ==
  \A k \in Keys : dataChanged[k] # Nil /\ files[k] # dataChanged[k] =>
    \/ k = opened
    \/ request.kind = "save delete" /\ k = request.id /\ k \in left

\* What is open and left to save in each phase of a request.
PhaseInv ==
  /\ request = Idle => left = {} /\ opened = NoKey
  /\ request.kind = "create" =>
       left = {} /\ opened = request.id /\ dataChanged[request.id] = Nil
  /\ Saving /\ opened # NoKey => dataChanged[opened] # Nil
  /\ opened # NoKey => files[opened] = Torn

Inv == TypeOK /\ FilesInBook /\ BookUnique /\ CacheInv /\ PhaseInv

-----------------------------------------------------------------------------
(* Reading changes the cache, and neither the files nor the book. *)

\* ObjectsChanged caches decodable objects, and where it does what the file holds.
LEMMA ObjectsChangedFacts ==
  ASSUME TypeOK, NEW reads, reads \subseteq Decodable
  PROVE  /\ ObjectsChanged(reads) \in [Keys -> Objects \cup {Nil}]
         /\ \A k \in Keys : dataChanged[k] # Nil => ObjectsChanged(reads)[k] = dataChanged[k]
         /\ \A k \in Keys : dataChanged[k] = Nil =>
              ObjectsChanged(reads)[k] \in {Nil, files[k]}
         /\ \A k \in Keys : k \in reads => ObjectsChanged(reads)[k] # Nil
         /\ \A k \in Keys : ObjectsChanged(reads)[k] # Nil => dataChanged[k] # Nil \/ files[k] \in Objects
  BY ValuesAssumption DEF ObjectsChanged, Decodable, TypeOK, TableTypeOK
-----------------------------------------------------------------------------
(* Types. *)

\* A new computer has an empty directory and serves nothing.
LEMMA InvInit == Init => Inv
<1> SUFFICES ASSUME Init PROVE Inv
  OBVIOUS
<1>1. TypeOK
  BY CrashesAssumption DEF Init, TableInit, TypeOK, TableTypeOK, Request, Idle
<1>2. FilesInBook
  BY ValuesAssumption DEF Init, TableInit, FilesInBook
<1>3. BookUnique
  BY ValuesAssumption DEF Init, TableInit, BookUnique, InBook, Idle
<1>4. CacheInv
  BY DEF Init, TableInit, CacheInv
<1>5. PhaseInv
  BY DEF Init, TableInit, PhaseInv, Idle, Saving
<1> QED
  BY <1>1, <1>2, <1>3, <1>4, <1>5 DEF Inv

\* The request of a database that serves none is told by its kind.
LEMMA IdleKind == Idle.kind = "idle"
BY DEF Idle

\* The fields of a request by its kind.
LEMMA RequestFacts ==
  ASSUME request \in Request
  PROVE  /\ request.kind = "create" =>
              request.id \in Keys /\ request.domain \in Objects
              /\ [request EXCEPT !.kind = "save create"] \in Request
         /\ Saving => request.id \in Keys
<1>1. CASE request = Idle
  BY <1>1 DEF Idle, Saving
<1>2. CASE request \in [kind : {"create", "save create"}, id : Keys, domain : Objects]
  <2>1. [request EXCEPT !.kind = "save create"] \in [kind : {"create", "save create"}, id : Keys, domain : Objects]
    BY <1>2
  <2> QED
    BY <1>2, <2>1 DEF Request
<1>3. CASE request \in [kind : {"save delete"}, id : Keys]
  BY <1>3
<1> QED
  BY <1>1, <1>2, <1>3 DEF Request

\* Every step keeps the types of the variables.
LEMMA TypeStep == TypeOK /\ PhaseInv /\ [Next]_vars => TypeOK'
<1> SUFFICES ASSUME TypeOK, PhaseInv, [Next]_vars PROVE TypeOK'
  OBVIOUS
<1> USE DEF TypeOK, TableTypeOK
<1>1. ASSUME NEW wanted, ReadOnly(wanted) PROVE TypeOK'
  <2>1. PICK reads \in SUBSET Keys :
          /\ reads \subseteq Decodable
          /\ dataChanged' = ObjectsChanged(reads)
    BY <1>1 DEF ReadOnly, Finds, FindsNothing, Breaks
  <2> QED
    BY <2>1, <1>1, ObjectsChangedFacts DEF ReadOnly
<1>2. ASSUME NEW k \in Keys, DeleteById(k) PROVE TypeOK'
  BY <1>2 DEF DeleteById, Delete, Read, Request
<1>3. ASSUME NEW d \in Objects, DeleteByUrl(d) PROVE TypeOK'
  <2>1. PICK k \in WithDomain(d), reads \in SUBSET Keys :
          /\ Finds(WithDomain(d), reads, k)
          /\ dataChanged' = ObjectsChanged(reads)
          /\ Delete(k)
          /\ left' = Read \cup reads
          /\ kept' = kept \ {k}
          /\ request' = [kind |-> "save delete", id |-> k]
    BY <1>3 DEF DeleteByUrl
  <2>2. k \in Keys /\ reads \subseteq Decodable
    BY <2>1 DEF WithDomain, Finds
  <2>3. dataChanged' \in [Keys -> Objects \cup {Nil}]
    BY <2>1, <2>2, ObjectsChangedFacts
  <2>4. left' \subseteq {i \in Keys : dataChanged'[i] # Nil}
    BY <2>1, <2>2, ObjectsChangedFacts DEF Read
  <2>5. files' \in [Keys -> Objects \cup {Nil, Torn}] /\ request' \in Request /\ kept' \subseteq Keys
    BY <2>1, <2>2 DEF Delete, Request
  <2> QED
    BY <1>3, <2>3, <2>4, <2>5 DEF DeleteByUrl
<1>4. ASSUME NEW k \in Keys, NEW d \in Objects, Create(k, d) PROVE TypeOK'
  <2>1. Exist \subseteq Decodable
    BY <1>4 DEF Create, FindsNothing
  <2>2. dataChanged' \in [Keys -> Objects \cup {Nil}] /\ left' \subseteq {i \in Keys : dataChanged'[i] # Nil}
    BY <1>4, <2>1, ObjectsChangedFacts DEF Create
  <2> QED
    BY <1>4, <2>2 DEF Create, Open, Request
<1>5. CASE CreateSets
  <2>1. request.domain \in Objects /\ request' \in Request
    BY <1>5, RequestFacts DEF CreateSets
  <2> QED
    BY <1>5, <2>1 DEF CreateSets, WriteAndClose, Read
<1>6. CASE SaveStep
  <2>1. ASSUME SaveWrites PROVE TableTypeOK'
    BY <2>1 DEF SaveWrites, WriteAndClose
  <2>2. ASSUME NEW k \in Keys, SaveOpens(k) PROVE TableTypeOK'
    BY <2>2 DEF SaveOpens, Open
  <2> QED
    BY <1>6, <2>1, <2>2 DEF SaveStep
<1>7. CASE Answer
  <2>1. request.id \in Keys
    BY <1>7, RequestFacts DEF Answer
  <2>2. request' \in Request
    BY <1>7 DEF Answer, Request
  <2>3. kept' \subseteq Keys /\ deleted' \subseteq Keys
    BY <1>7, <2>1 DEF Answer
  <2> QED
    BY <1>7, <2>2, <2>3 DEF Answer, tableVars
<1>8. CASE Crash
  <2>1. request' \in Request
    BY <1>8 DEF Crash, Request
  <2>2. crashes' \in 0 .. MaxCrashes
    BY <1>8, CrashesAssumption DEF Crash
  <2> QED
    BY <1>8, <2>1, <2>2 DEF Crash, Restart
<1>9. CASE UNCHANGED vars
  BY <1>9 DEF vars
<1> QED
  BY <1>1, <1>2, <1>3, <1>4, <1>5, <1>6, <1>7, <1>8, <1>9 DEF Next, GetWithId, GetWithDomain

-----------------------------------------------------------------------------
(* The steps. *)

\* Reading leaves the book as it is, and what it caches equals its file.
LEMMA ReadStep ==
  ASSUME Inv, NEW reads, reads \subseteq Decodable, dataChanged' = ObjectsChanged(reads)
  PROVE  \A k \in Keys :
           /\ files'[k] = files[k] => InBook(k)' = InBook(k)
           /\ dataChanged'[k] # Nil => dataChanged'[k] = InBook(k)
           /\ dataChanged'[k] # Nil /\ dataChanged[k] = Nil => dataChanged'[k] = files[k]
<1> SUFFICES ASSUME NEW k \in Keys
             PROVE  /\ files'[k] = files[k] => InBook(k)' = InBook(k)
                    /\ dataChanged'[k] # Nil => dataChanged'[k] = InBook(k)
                    /\ dataChanged'[k] # Nil /\ dataChanged[k] = Nil => dataChanged'[k] = files[k]
  OBVIOUS
<1>1. files[k] \in Objects \cup {Nil, Torn} /\ dataChanged[k] \in Objects \cup {Nil}
  BY DEF Inv, TypeOK, TableTypeOK
<1>2. CASE dataChanged[k] # Nil
  <2>1. dataChanged'[k] = dataChanged[k]
    BY <1>2, ObjectsChangedFacts DEF Inv
  <2> QED
    BY <1>2, <2>1 DEF InBook
<1>3. CASE dataChanged[k] = Nil
  <2>1. dataChanged'[k] \in {Nil, files[k]} /\ (dataChanged'[k] # Nil => files[k] \in Objects)
    BY <1>3, ObjectsChangedFacts DEF Inv
  <2> QED
    BY <1>1, <1>3, <2>1 DEF InBook
<1> QED
  BY <1>2, <1>3

\* The requests that only read.
LEMMA ReadOnlyStep ==
  ASSUME Inv, NEW wanted, ReadOnly(wanted)
  PROVE  /\ (FilesInBook /\ BookUnique /\ CacheInv /\ PhaseInv)'
         /\ \A k \in Keys : InBook(k)' = InBook(k)
<1>1. PICK reads \in SUBSET Keys : reads \subseteq Decodable /\ dataChanged' = ObjectsChanged(reads)
  BY DEF ReadOnly, Finds, FindsNothing, Breaks
<1>2. request = Idle /\ UNCHANGED <<files, opened, left, request>>
  BY DEF ReadOnly
<1>3. \A k \in Keys : InBook(k)' = InBook(k)
  BY <1>1, <1>2, ReadStep
<1>4. FilesInBook'
  BY <1>2, <1>3 DEF Inv, FilesInBook
<1>5. BookUnique'
  BY <1>2, <1>3 DEF Inv, BookUnique
<1>6. CacheInv'
  <2> SUFFICES ASSUME NEW k \in Keys, dataChanged'[k] # Nil, files[k] # dataChanged'[k]
               PROVE  k = opened
    BY <1>2 DEF CacheInv, Idle
  <2>1. dataChanged[k] # Nil
    BY <1>1, ReadStep
  <2>2. dataChanged'[k] = dataChanged[k]
    BY <1>1, <2>1, ObjectsChangedFacts DEF Inv
  <2> QED
    BY <1>2, <2>1, <2>2 DEF Inv, CacheInv, Idle
<1>7. PhaseInv'
  BY <1>2 DEF Inv, PhaseInv, Idle, Saving
<1> QED
  BY <1>3, <1>4, <1>5, <1>6, <1>7

\* Between requests the book has an address wherever the cache or a file has it.
LEMMA IdleBook ==
  ASSUME Inv, request = Idle
  PROVE  \A k \in Keys : InBook(k) = IF files[k] \in Objects THEN files[k] ELSE Nil
<1> SUFFICES ASSUME NEW k \in Keys
             PROVE  InBook(k) = IF files[k] \in Objects THEN files[k] ELSE Nil
  OBVIOUS
<1>1. k # opened
  BY KeysAssumption DEF Inv, PhaseInv
<1>2. dataChanged[k] # Nil => files[k] = dataChanged[k]
  BY <1>1 DEF Inv, CacheInv, Idle
<1> QED
  BY <1>2 DEF InBook, Inv, TypeOK, TableTypeOK

\* Create adds a domain that no address in the book has.
LEMMA CreateStep ==
  ASSUME Inv, NEW k \in Keys, NEW d \in Objects, Create(k, d)
  PROVE  /\ (FilesInBook /\ BookUnique /\ CacheInv /\ PhaseInv)'
         /\ \A i \in Keys : InBook(i)' = InBook(i)
<1>1. Exist \subseteq Decodable /\ dataChanged' = ObjectsChanged(Exist)
  BY DEF Create, FindsNothing
<1>2. /\ files' = [files EXCEPT ![k] = Torn] /\ opened' = k /\ left' = left
      /\ request = Idle /\ request' = [kind |-> "create", id |-> k, domain |-> d]
      /\ files[k] = Nil /\ dataChanged[k] = Nil
  BY DEF Create, Open, NewId
<1>3. files'[k] = Torn /\ \A i \in Keys : i # k => files'[i] = files[i]
  BY <1>2 DEF Inv, TypeOK, TableTypeOK
<1>4. dataChanged'[k] = Nil
  BY <1>1, <1>2, ReadStep
<1>5. \A i \in Keys : InBook(i)' = InBook(i)
  <2>1. InBook(k) = Nil /\ InBook(k)' = Nil
    BY <1>2, <1>3, <1>4, ValuesAssumption DEF InBook
  <2>2. \A i \in Keys : i # k => InBook(i)' = InBook(i)
    BY <1>1, <1>3, ReadStep
  <2> QED
    BY <2>1, <2>2
<1>6. \A i \in Keys : InBook(i) # d
  <2>1. \A i \in Keys : files[i] # d
    BY ValuesAssumption DEF Create, FindsNothing, WithDomain, Exist
  <2> QED
    BY <1>2, <2>1, IdleBook, ValuesAssumption
<1>7. FilesInBook'
  BY <1>3, <1>5, ValuesAssumption DEF Inv, FilesInBook
<1>8. BookUnique'
  BY <1>2, <1>5, <1>6 DEF Inv, BookUnique
<1>9. CacheInv'
  <2> SUFFICES ASSUME NEW i \in Keys, dataChanged'[i] # Nil, files'[i] # dataChanged'[i]
               PROVE  i = opened'
    BY DEF CacheInv
  <2>1. CASE i = k
    BY <2>1, <1>2
  <2>2. CASE i # k
    <3>1. dataChanged[i] # Nil
      BY <2>2, <1>1, <1>3, ReadStep
    <3>2. dataChanged'[i] = dataChanged[i]
      BY <1>1, <3>1, ObjectsChangedFacts DEF Inv
    <3>3. i = opened
      BY <2>2, <1>2, <1>3, <3>1, <3>2 DEF Inv, CacheInv, Idle
    <3> QED
      BY <3>3, <1>2, KeysAssumption DEF Inv, PhaseInv
  <2> QED
    BY <2>1, <2>2
<1>10. PhaseInv'
  BY <1>2, <1>3, <1>4 DEF Inv, PhaseInv, Idle, Saving
<1> QED
  BY <1>5, <1>7, <1>8, <1>9, <1>10

\* Set writes the new address: the book gets the domain reserved for it.
LEMMA CreateSetsStep ==
  ASSUME Inv, CreateSets
  PROVE  /\ (FilesInBook /\ BookUnique /\ CacheInv /\ PhaseInv)'
         /\ \E n \in Keys, d \in Objects :
              /\ InBook(n) = Nil /\ InBook(n)' = d
              /\ \A k \in Keys : InBook(k) # d /\ (k # n => InBook(k)' = InBook(k))
<1>1. PICK n \in Keys, d \in Objects : n = request.id /\ d = request.domain
  BY RequestFacts DEF Inv, TypeOK, CreateSets
<1>2. /\ opened = n /\ opened' = NoKey /\ left' = Read /\ dataChanged' = dataChanged
      /\ dataChanged[n] = Nil /\ files[n] = Torn
      /\ request.kind = "create" /\ files' = [files EXCEPT ![n] = d]
  BY <1>1 DEF CreateSets, WriteAndClose, Inv, PhaseInv
<1>11. request'.kind = "save create"
  <2>1. CASE request \in [kind : {"create", "save create"}, id : Keys, domain : Objects]
    BY <2>1 DEF CreateSets
  <2>2. CASE request \in [kind : {"save delete"}, id : Keys]
    BY <1>2, <2>2
  <2>3. CASE request = Idle
    BY <1>2, <2>3 DEF Idle
  <2> QED
    BY <2>1, <2>2, <2>3 DEF Inv, TypeOK, Request
<1>3. files'[n] = d /\ \A k \in Keys : k # n => files'[k] = files[k]
  BY <1>1, <1>2 DEF Inv, TypeOK, TableTypeOK
<1>4. InBook(n)' = d /\ InBook(n) = Nil
  BY <1>1, <1>2, <1>3, ValuesAssumption DEF InBook
<1>5. \A k \in Keys : k # n => InBook(k)' = InBook(k)
  BY <1>2, <1>3 DEF InBook
<1>6. \A k \in Keys : InBook(k) # d
  BY <1>1, <1>2 DEF Inv, BookUnique
<1>7. FilesInBook'
  BY <1>3, <1>4, <1>5 DEF Inv, FilesInBook
<1>8. BookUnique'
  BY <1>1, <1>2, <1>11, <1>4, <1>5, <1>6 DEF Inv, BookUnique
<1>9. CacheInv'
  BY <1>2, <1>11, <1>3 DEF Inv, CacheInv
<1>10. PhaseInv'
  <2>1. request' # Idle /\ request'.kind # "create"
    BY <1>11, IdleKind
  <2> QED
    BY <1>2, <2>1 DEF PhaseInv
<1> QED
  BY <1>1, <1>4, <1>5, <1>6, <1>7, <1>8, <1>9, <1>10

\* Removing a file leaves in the book what was read.
LEMMA DeleteByIdStep ==
  ASSUME Inv, NEW k \in Keys, DeleteById(k)
  PROVE  /\ (FilesInBook /\ BookUnique /\ CacheInv /\ PhaseInv)'
         /\ \A i \in Keys : InBook(i)' = InBook(i) \/ (i = k /\ InBook(i)' = Nil)
<1>1. /\ request = Idle /\ opened = NoKey /\ opened' = NoKey /\ left' = Read
      /\ dataChanged' = dataChanged /\ files' = [files EXCEPT ![k] = Nil]
      /\ request' = [kind |-> "save delete", id |-> k]
  BY DEF DeleteById, Delete, Inv, PhaseInv
<1>2. files'[k] = Nil /\ \A i \in Keys : i # k => files'[i] = files[i]
  BY <1>1 DEF Inv, TypeOK, TableTypeOK
<1>3. \A i \in Keys : InBook(i)' = InBook(i) \/ (i = k /\ InBook(i)' = Nil)
  BY <1>1, <1>2, ValuesAssumption DEF InBook
<1>4. FilesInBook'
  BY <1>2, <1>3, ValuesAssumption DEF Inv, FilesInBook
<1>5. BookUnique'
  BY <1>1, <1>3 DEF Inv, BookUnique
<1>6. CacheInv'
  BY <1>1, <1>2, KeysAssumption DEF Inv, CacheInv, Idle, Read
<1>7. PhaseInv'
  BY <1>1 DEF PhaseInv, Idle
<1> QED
  BY <1>3, <1>4, <1>5, <1>6, <1>7

\* DeleteByUrl has read what it removes, so that the book does not change.
LEMMA DeleteByUrlStep ==
  ASSUME Inv, NEW d \in Objects, DeleteByUrl(d)
  PROVE  /\ (FilesInBook /\ BookUnique /\ CacheInv /\ PhaseInv)'
         /\ \A k \in Keys : InBook(k)' = InBook(k)
<1>1. PICK k \in WithDomain(d), reads \in SUBSET Keys :
        /\ Finds(WithDomain(d), reads, k)
        /\ dataChanged' = ObjectsChanged(reads)
        /\ Delete(k)
        /\ left' = Read \cup reads
        /\ request' = [kind |-> "save delete", id |-> k]
  BY DEF DeleteByUrl
<1>2. k \in Keys /\ k \in reads /\ reads \subseteq Decodable /\ files[k] = d
  BY <1>1 DEF Finds, WithDomain
<1>3. request = Idle /\ opened = NoKey /\ opened' = NoKey
  BY DEF DeleteByUrl, Inv, PhaseInv
<1>4. files'[k] = Nil /\ \A i \in Keys : i # k => files'[i] = files[i]
  BY <1>1, <1>2 DEF Delete, Inv, TypeOK, TableTypeOK
<1>5. InBook(k)' = InBook(k)
  <2>1. dataChanged'[k] # Nil
    BY <1>1, <1>2, ObjectsChangedFacts DEF Inv
  <2>2. dataChanged'[k] = InBook(k)
    BY <1>1, <1>2, <2>1, ReadStep
  <2> QED
    BY <2>1, <2>2 DEF InBook
<1>6. \A i \in Keys : InBook(i)' = InBook(i)
  BY <1>1, <1>2, <1>4, <1>5, ReadStep
<1>7. FilesInBook'
  BY <1>4, <1>6, ValuesAssumption DEF Inv, FilesInBook
<1>8. BookUnique'
  BY <1>1, <1>6 DEF Inv, BookUnique
<1>9. CacheInv'
  <2> SUFFICES ASSUME NEW i \in Keys, dataChanged'[i] # Nil, files'[i] # dataChanged'[i]
               PROVE  i = k /\ i \in left'
    BY <1>1 DEF CacheInv
  <2>1. k \in left'
    BY <1>1, <1>2
  <2>2. ASSUME i # k PROVE FALSE
    <3>1. dataChanged[i] # Nil
      BY <2>2, <1>1, <1>2, <1>4, ReadStep
    <3>2. dataChanged'[i] = dataChanged[i]
      BY <1>1, <1>2, <3>1, ObjectsChangedFacts DEF Inv
    <3>3. i = opened
      BY <2>2, <1>3, <1>4, <3>1, <3>2 DEF Inv, CacheInv, Idle
    <3> QED
      BY <3>3, <1>3, KeysAssumption
  <2> QED
    BY <2>1, <2>2
<1>10. PhaseInv'
  BY <1>1, <1>3 DEF PhaseInv, Idle
<1> QED
  BY <1>6, <1>7, <1>8, <1>9, <1>10

\* One step of Save: a file is emptied, or gets what the book has for it.
LEMMA SavingStep ==
  ASSUME Inv, SaveStep
  PROVE  /\ (FilesInBook /\ BookUnique /\ CacheInv /\ PhaseInv)'
         /\ \A k \in Keys : InBook(k)' = InBook(k)
<1>4. Saving
  BY DEF SaveStep
<1>1. /\ request' = request /\ dataChanged' = dataChanged
      /\ request # Idle /\ request.kind # "create"
  <2>1. request' = request /\ dataChanged' = dataChanged
    BY DEF SaveStep, SaveWrites, SaveOpens
  <2>2. request # Idle /\ request.kind # "create"
    BY <1>4, IdleKind DEF Saving
  <2> QED
    BY <2>1, <2>2
<1>2. ASSUME SaveWrites PROVE (FilesInBook /\ BookUnique /\ CacheInv /\ PhaseInv)' /\ (\A i \in Keys : InBook(i)' = InBook(i))
  <2>1. /\ opened \in Keys /\ opened' = NoKey /\ left' = left /\ dataChanged[opened] # Nil
        /\ files' = [files EXCEPT ![opened] = dataChanged[opened]]
    BY <1>1, <1>2, <1>4 DEF SaveWrites, WriteAndClose, Inv, TypeOK, TableTypeOK, PhaseInv
  <2>2. /\ files'[opened] = dataChanged[opened]
        /\ \A k \in Keys : k # opened => files'[k] = files[k]
    BY <2>1 DEF Inv, TypeOK, TableTypeOK
  <2>3. \A k \in Keys : InBook(k)' = InBook(k)
    BY <1>1, <2>1, <2>2 DEF InBook
  <2>4. FilesInBook'
    BY <2>1, <2>2, <2>3 DEF Inv, FilesInBook, InBook
  <2>5. BookUnique'
    BY <1>1, <2>3 DEF Inv, BookUnique
  <2>6. CacheInv'
    BY <1>1, <2>1, <2>2 DEF Inv, CacheInv
  <2>7. PhaseInv'
    BY <1>1, <2>1 DEF PhaseInv
  <2> QED
    BY <2>3, <2>4, <2>5, <2>6, <2>7
<1>3. ASSUME NEW k \in Keys, SaveOpens(k) PROVE (FilesInBook /\ BookUnique /\ CacheInv /\ PhaseInv)' /\ (\A i \in Keys : InBook(i)' = InBook(i))
  <2>1. /\ opened = NoKey /\ opened' = k /\ left' = left \ {k} /\ dataChanged[k] # Nil
        /\ files' = [files EXCEPT ![k] = Torn]
    BY <1>3 DEF SaveOpens, Open, Inv, TypeOK, TableTypeOK
  <2>2. files'[k] = Torn /\ \A i \in Keys : i # k => files'[i] = files[i]
    BY <2>1 DEF Inv, TypeOK, TableTypeOK
  <2>3. \A i \in Keys : InBook(i)' = InBook(i)
    BY <1>1, <2>1, <2>2 DEF InBook
  <2>4. FilesInBook'
    BY <2>2, <2>3, ValuesAssumption DEF Inv, FilesInBook
  <2>5. BookUnique'
    BY <1>1, <2>3 DEF Inv, BookUnique
  <2>6. CacheInv'
    BY <1>1, <2>1, <2>2, KeysAssumption DEF Inv, CacheInv
  <2>7. PhaseInv'
    BY <1>1, <2>1, <2>2 DEF PhaseInv
  <2> QED
    BY <2>3, <2>4, <2>5, <2>6, <2>7
<1> QED
  BY <1>2, <1>3 DEF SaveStep

\* Nothing is left to save when a request is answered.
LEMMA AnswerStep ==
  ASSUME Inv, Answer
  PROVE  /\ (FilesInBook /\ BookUnique /\ CacheInv /\ PhaseInv)'
         /\ \A k \in Keys : InBook(k)' = InBook(k)
<1>1. /\ UNCHANGED <<files, dataChanged, opened, left>> /\ left = {} /\ opened = NoKey
      /\ request' = Idle
  BY DEF Answer, tableVars
<1>2. \A k \in Keys : InBook(k)' = InBook(k)
  BY <1>1 DEF InBook
<1>3. FilesInBook' /\ BookUnique'
  BY <1>1, <1>2 DEF Inv, FilesInBook, BookUnique, Idle
<1>4. CacheInv'
  BY <1>1 DEF Inv, CacheInv
<1>5. PhaseInv'
  BY <1>1 DEF PhaseInv, Saving, Idle
<1> QED
  BY <1>2, <1>3, <1>4, <1>5

\* A restart forgets the cache: what remains in the book was in it.
LEMMA CrashStep ==
  ASSUME Inv, Crash
  PROVE  (FilesInBook /\ BookUnique /\ CacheInv /\ PhaseInv)'
<1>1. /\ dataChanged' = [k \in Keys |-> Nil] /\ opened' = NoKey /\ left' = {} /\ files' = files
      /\ request' = Idle
  BY DEF Crash, Restart
<1>2. \A k \in Keys : InBook(k)' = IF files[k] \in Objects THEN files[k] ELSE Nil
  BY <1>1 DEF InBook
<1>3. FilesInBook'
  BY <1>1, <1>2 DEF FilesInBook
<1>4. \A k \in Keys : InBook(k)' # Nil => InBook(k)' = InBook(k)
  BY <1>2 DEF Inv, FilesInBook
<1>5. BookUnique'
  BY <1>1, <1>4 DEF Inv, BookUnique, Idle
<1>6. CacheInv'
  BY <1>1 DEF CacheInv
<1>7. PhaseInv'
  BY <1>1 DEF PhaseInv, Idle, Saving
<1> QED
  BY <1>3, <1>5, <1>6, <1>7

\* Every step keeps the invariant.
LEMMA InvStep == Inv /\ [Next]_vars => Inv'
<1> SUFFICES ASSUME Inv, [Next]_vars PROVE Inv'
  OBVIOUS
<1> DEFINE Rest == FilesInBook /\ BookUnique /\ CacheInv /\ PhaseInv
<1>1. TypeOK'
  BY TypeStep DEF Inv
<1>2. CASE UNCHANGED vars
  <2>1. \A k \in Keys : InBook(k)' = InBook(k)
    BY <1>2 DEF InBook, vars
  <2>2. FilesInBook' /\ BookUnique'
    BY <1>2, <2>1 DEF Inv, FilesInBook, BookUnique, vars
  <2>3. CacheInv' /\ PhaseInv'
    BY <1>2 DEF Inv, CacheInv, PhaseInv, Saving, Idle, vars
  <2> QED
    BY <2>2, <2>3, <1>1 DEF Inv
<1>3. CASE Next
  <2>1. ASSUME NEW k \in Keys, GetWithId(k) \/ DeleteById(k) PROVE Rest'
    BY <2>1, ReadOnlyStep, DeleteByIdStep DEF GetWithId
  <2>2. ASSUME NEW d \in Objects, GetWithDomain(d) \/ DeleteByUrl(d) PROVE Rest'
    BY <2>2, ReadOnlyStep, DeleteByUrlStep DEF GetWithDomain
  <2>3. ASSUME NEW k \in Keys, NEW d \in Objects, Create(k, d) PROVE Rest'
    BY <2>3, CreateStep
  <2>4. CreateSets \/ SaveStep \/ Answer \/ Crash => Rest'
    BY CreateSetsStep, SavingStep, AnswerStep, CrashStep
  <2>5. Rest'
    BY <1>3, <2>1, <2>2, <2>3, <2>4 DEF Next
  <2> QED
    BY <1>1, <2>5 DEF Inv
<1> QED
  BY <1>2, <1>3

-----------------------------------------------------------------------------
(* The theorems. *)

\* AddressDatabase.lua, DbTable.lua: the invariant holds in every behaviour.
THEOREM Invariance == Spec => []Inv
BY InvInit, InvStep, PTL DEF Spec

\* The variables of the database keep their types.
THEOREM TypeCorrect == Spec => []TypeOK
<1>1. Inv => TypeOK
  BY DEF Inv
<1> QED
  BY <1>1, Invariance, PTL

\* AddressDatabase:Create never gives a domain to a second address, whatever
\* is saved again, deleted or lost in between (AddressDatabase.lua:21-31).
THEOREM UniqueDomainsCorrect == Spec => []UniqueDomains
<1>1. Inv => UniqueDomains
  <2> SUFFICES ASSUME Inv, NEW k \in Keys, NEW l \in Keys, k # l,
                      files[k] \in Objects, files[k] = files[l]
               PROVE  FALSE
    BY DEF UniqueDomains
  <2>1. InBook(k) = files[k] /\ InBook(l) = files[k]
    BY DEF Inv, FilesInBook
  <2>2. InBook(k) # Nil
    BY <2>1, ValuesAssumption
  <2> QED
    BY <2>1, <2>2 DEF Inv, BookUnique
<1> QED
  BY <1>1, Invariance, PTL

\* Between requests the cache that Save writes equals the files.
THEOREM CacheMatchesFilesCorrect == Spec => []CacheMatchesFiles
<1>1. Inv => CacheMatchesFiles
  <2> SUFFICES ASSUME Inv, request = Idle, NEW k \in Read
               PROVE  files[k] = dataChanged[k]
    BY DEF CacheMatchesFiles
  <2>1. k \in Keys /\ k # opened
    BY KeysAssumption DEF Inv, PhaseInv, Read
  <2> QED
    BY <2>1 DEF Inv, CacheInv, Read, Idle
<1> QED
  BY <1>1, Invariance, PTL

-----------------------------------------------------------------------------
(* LossIsBounded.  Only a file that is open can be lost, and there is never *)
(* more than one: Save and Set write a file before they open the next.      *)

\* The addresses a stop has cost so far.
Lost == {k \in kept : files[k] \notin Objects /\ k # opened}

LossInv ==
  /\ IsFiniteSet(Lost) /\ Cardinality(Lost) <= crashes
  /\ request.kind = "save create" => request.id = opened \/ files[request.id] \in Objects

(* A step that costs nothing. *)
LEMMA NothingLost ==
  ASSUME LossInv, TypeOK, NEW L \in SUBSET Lost
  PROVE  IsFiniteSet(L) /\ Cardinality(L) <= crashes
<1>1. IsFiniteSet(L) /\ Cardinality(L) <= Cardinality(Lost)
  BY FS_Subset DEF LossInv
<1>2. Cardinality(L) \in Nat /\ Cardinality(Lost) \in Nat
  BY <1>1, FS_CardinalityType DEF LossInv
<1>3. crashes \in Nat /\ Cardinality(Lost) <= crashes
  <2>1. crashes \in Nat
    BY CrashesAssumption DEF TypeOK
  <2> QED
    BY <2>1 DEF LossInv
<1> QED
  BY <1>1, <1>2, <1>3

(* A stop costs at most the address whose file was open. *)
LEMMA OneLost ==
  ASSUME LossInv, TypeOK, NEW e, NEW L \in SUBSET (Lost \cup {e})
  PROVE  IsFiniteSet(L) /\ Cardinality(L) <= crashes + 1
<1>1. /\ IsFiniteSet(Lost \cup {e})
      /\ Cardinality(Lost \cup {e}) = IF e \in Lost THEN Cardinality(Lost) ELSE Cardinality(Lost) + 1
  BY FS_AddElement DEF LossInv
<1>2. IsFiniteSet(L) /\ Cardinality(L) <= Cardinality(Lost \cup {e})
  BY <1>1, FS_Subset
<1>3. Cardinality(L) \in Nat /\ Cardinality(Lost) \in Nat /\ Cardinality(Lost \cup {e}) \in Nat
  BY <1>1, <1>2, FS_CardinalityType DEF LossInv
<1>4. crashes \in Nat /\ Cardinality(Lost) <= crashes
  <2>1. crashes \in Nat
    BY CrashesAssumption DEF TypeOK
  <2> QED
    BY <2>1 DEF LossInv
<1> QED
  BY <1>1, <1>2, <1>3, <1>4

(* The steps between two stops. *)
LEMMA LossStep ==
  ASSUME Inv, Inv', LossInv, [Next]_vars
  PROVE  LossInv'
<1>t. /\ TypeOK /\ files \in [Keys -> Objects \cup {Nil, Torn}] /\ kept \subseteq Keys
      /\ opened \in Keys \cup {NoKey}
  BY DEF Inv, TypeOK, TableTypeOK
<1>s. ASSUME Lost' \subseteq Lost, crashes' = crashes,
             request'.kind = "save create" => request'.id = opened' \/ files'[request'.id] \in Objects
      PROVE  LossInv'
  <2>1. IsFiniteSet(Lost') /\ Cardinality(Lost') <= crashes
    BY <1>s, <1>t, NothingLost
  <2> QED
    BY <1>s, <2>1 DEF LossInv
<1>1. ASSUME NEW wanted, ReadOnly(wanted) PROVE LossInv'
  <2>1. UNCHANGED <<files, opened, request, kept, crashes>>
    BY <1>1 DEF ReadOnly
  <2> QED
    BY <1>s, <2>1 DEF Lost, LossInv
<1>2. ASSUME NEW k \in Keys, Delete(k), kept' = kept \ {k}, request'.kind = "save delete",
             UNCHANGED <<opened, crashes>>
      PROVE  LossInv'
  <2>1. \A i \in Keys : i # k => files'[i] = files[i]
    BY <1>2, <1>t DEF Delete
  <2>2. Lost' \subseteq Lost
    BY <1>2, <1>t, <2>1 DEF Lost
  <2> QED
    BY <1>s, <1>2, <2>2
<1>3. ASSUME NEW k \in Keys, DeleteById(k) PROVE LossInv'
  BY <1>2, <1>3 DEF DeleteById
<1>4. ASSUME NEW d \in Objects, DeleteByUrl(d) PROVE LossInv'
  <2>1. PICK k \in WithDomain(d) :
          Delete(k) /\ kept' = kept \ {k} /\ request' = [kind |-> "save delete", id |-> k]
    BY <1>4 DEF DeleteByUrl
  <2>2. k \in Keys /\ request'.kind = "save delete" /\ UNCHANGED <<opened, crashes>>
    BY <1>4, <2>1 DEF WithDomain, DeleteByUrl
  <2> QED
    BY <1>2, <2>1, <2>2
<1>5. ASSUME NEW k \in Keys, NEW d \in Objects, Create(k, d) PROVE LossInv'
  <2>1. /\ files' = [files EXCEPT ![k] = Torn] /\ opened' = k /\ k \notin kept
        /\ request = Idle /\ request'.kind = "create" /\ UNCHANGED <<kept, crashes>>
    BY <1>5 DEF Create, Open, NewId
  <2>2. opened \notin Keys
    BY <2>1, KeysAssumption DEF Inv, PhaseInv
  <2>3. Lost' \subseteq Lost
    BY <1>t, <2>1, <2>2 DEF Lost
  <2> QED
    BY <1>s, <2>1, <2>3
<1>6. CASE CreateSets
  <2>1. request.id \in Keys /\ request.domain \in Objects /\ request'.id = request.id
    <3>1. request.kind = "create" /\ request' = [request EXCEPT !.kind = "save create"]
      BY <1>6 DEF CreateSets
    <3>2. request.id \in Keys /\ request.domain \in Objects
      BY <1>t, <3>1, RequestFacts DEF TypeOK
    <3>3. request'.id = request.id
      BY <1>t, <3>1, IdleKind DEF TypeOK, Request
    <3> QED
      BY <3>2, <3>3
  <2>2. opened = request.id /\ files' = [files EXCEPT ![opened] = request.domain]
    BY <1>6 DEF CreateSets, WriteAndClose, Inv, PhaseInv
  <2>3. files'[opened] = request.domain /\ \A i \in Keys : i # opened => files'[i] = files[i]
    BY <1>t, <2>1, <2>2
  <2>4. UNCHANGED <<kept, crashes>>
    BY <1>6 DEF CreateSets
  <2>5. Lost' \subseteq Lost
    BY <1>t, <2>1, <2>3, <2>4 DEF Lost
  <2> QED
    BY <1>s, <2>1, <2>2, <2>3, <2>4, <2>5
<1>7. CASE SaveStep
  <2>1. UNCHANGED <<request, kept, crashes>> /\ Saving
    BY <1>7 DEF SaveStep
  <2>2. request.id \in Keys
    BY <1>t, <2>1, RequestFacts DEF TypeOK
  <2>3. CASE SaveWrites
    <3>1. opened \in Keys /\ dataChanged[opened] \in Objects
      BY <1>t, <2>1, <2>3 DEF SaveWrites, Inv, PhaseInv, TypeOK, TableTypeOK
    <3>2. files' = [files EXCEPT ![opened] = dataChanged[opened]]
      BY <2>3 DEF SaveWrites, WriteAndClose
    <3>3. files'[opened] \in Objects /\ \A i \in Keys : i # opened => files'[i] = files[i]
      BY <1>t, <3>1, <3>2
    <3>4. Lost' \subseteq Lost
      BY <1>t, <2>1, <3>3 DEF Lost
    <3> QED
      BY <1>s, <2>1, <2>2, <3>3, <3>4 DEF LossInv
  <2>4. ASSUME NEW k \in Keys, SaveOpens(k) PROVE LossInv'
    <3>1. opened = NoKey /\ opened' = k /\ files' = [files EXCEPT ![k] = Torn]
      BY <2>4 DEF SaveOpens, Open
    <3>2. \A i \in Keys : i # k => files'[i] = files[i]
      BY <1>t, <3>1
    <3>3. Lost' \subseteq Lost
      BY <1>t, <2>1, <3>1, <3>2, KeysAssumption DEF Lost
    <3> QED
      BY <1>s, <2>1, <2>2, <3>1, <3>2, <3>3, KeysAssumption DEF LossInv
  <2> QED
    BY <1>7, <2>3, <2>4 DEF SaveStep
<1>8. CASE Answer
  <2>1. /\ UNCHANGED <<files, opened, crashes>> /\ opened = NoKey /\ request' = Idle /\ Saving
        /\ kept' = IF request.kind = "save create" THEN kept \cup {request.id} ELSE kept
    BY <1>8 DEF Answer, tableVars
  <2>2. request.id \in Keys
    BY <1>t, <2>1, RequestFacts DEF TypeOK
  <2>3. request.kind = "save create" => files[request.id] \in Objects
    BY <2>1, <2>2, KeysAssumption DEF LossInv
  <2>4. Lost' \subseteq Lost
    BY <2>1, <2>3 DEF Lost
  <2> QED
    BY <1>s, <2>1, <2>4, IdleKind
<1>9. CASE Crash
  <2>1. /\ UNCHANGED <<files, kept>> /\ crashes' = crashes + 1 /\ request'.kind = "idle"
    BY <1>9, IdleKind DEF Crash, Restart
  <2>2. Lost' \subseteq Lost \cup {opened}
    BY <2>1 DEF Lost
  <2>3. IsFiniteSet(Lost') /\ Cardinality(Lost') <= crashes + 1
    BY <1>t, <2>2, OneLost
  <2> QED
    BY <2>1, <2>3 DEF LossInv
<1>10. CASE UNCHANGED vars
  BY <1>s, <1>10 DEF vars, Lost, LossInv
<1> QED
  BY <1>1, <1>3, <1>4, <1>5, <1>6, <1>7, <1>8, <1>9, <1>10 DEF Next, GetWithId, GetWithDomain

\* Each stop of the computer costs at most one address whose Create was answered,
\* although every Save empties and rewrites all files (File.lua, DbTable.lua).
THEOREM LossIsBoundedCorrect == Spec => []LossIsBounded
<1>1. Init => LossInv
  <2> SUFFICES ASSUME Init PROVE LossInv
    OBVIOUS
  <2>1. Lost = {} /\ crashes = 0 /\ request.kind = "idle"
    BY IdleKind DEF Init, Lost
  <2>2. IsFiniteSet(Lost) /\ Cardinality(Lost) = 0
    BY <2>1, FS_EmptySet
  <2> QED
    BY <2>1, <2>2 DEF LossInv
<1>2. LossInv => LossIsBounded
  BY DEF LossInv, LossIsBounded, Lost
<1> QED
  BY <1>1, <1>2, InvInit, InvStep, LossStep, PTL DEF Spec

-----------------------------------------------------------------------------
(* The database implements the AddressBook. *)

\* A stop of the computer takes from the book at most the address that was
\* being written and the one that was being deleted.
LEMMA CrashLoses ==
  ASSUME Inv, Crash
  PROVE  \E lost \in Abstract!AtMostTwo :
             \A k \in Keys : InBook(k)' = IF k \in lost THEN Nil ELSE InBook(k)
<1> DEFINE lost == {k \in Keys : InBook(k)' # InBook(k)}
<1>1. \A k \in Keys : InBook(k)' = IF files[k] \in Objects THEN files[k] ELSE Nil
  BY DEF Crash, Restart, InBook
<1>2. \A k \in Keys : InBook(k)' = IF k \in lost THEN Nil ELSE InBook(k)
  BY <1>1 DEF Inv, FilesInBook
<1>3. \A k \in lost : k = opened \/ k = request.id
  <2> SUFFICES ASSUME NEW k \in Keys, InBook(k)' # InBook(k), k # opened
               PROVE  k = request.id
    OBVIOUS
  <2>1. dataChanged[k] # Nil /\ files[k] # dataChanged[k]
    BY <1>1 DEF InBook, Inv, TypeOK, TableTypeOK
  <2> QED
    BY <2>1 DEF Inv, CacheInv
<1>4. lost \subseteq Keys
  OBVIOUS
<1> HIDE DEF lost
<1>5. lost = {} \/ \E i, j \in Keys : lost = {i, j}
  <2> SUFFICES ASSUME NEW i \in lost PROVE \E j \in Keys : lost = {i, j}
    BY <1>4
  <2>1. CASE lost = {i}
    BY <1>4, <2>1
  <2>2. CASE lost # {i}
    <3>1. PICK j \in lost : j # i
      BY <2>2
    <3>2. \A k \in lost : k \in {i, j}
      BY <1>3, <3>1
    <3>3. lost = {i, j}
      BY <3>1, <3>2
    <3> QED
      BY <1>4, <3>3
  <2> QED
    BY <2>1, <2>2
<1>6. lost \in Abstract!AtMostTwo
  BY <1>5 DEF Abstract!AtMostTwo
<1> QED
  BY <1>2, <1>6

\* Steps that leave every entry of the book leave the book.
LEMMA SameBook ==
  ASSUME \A k \in Keys : InBook(k)' = InBook(k)
  PROVE  Book' = Book
BY DEF Book

\* Every step is one of the AddressBook, or leaves the book alone.
LEMMA BookStep ==
  Inv /\ [Next]_vars => [Abstract!Next]_<<Book, crashes>>
<1> SUFFICES ASSUME Inv, [Next]_vars PROVE [Abstract!Next]_<<Book, crashes>>
  OBVIOUS
<1> DEFINE Same == UNCHANGED <<Book, crashes>>
<1>1. CASE UNCHANGED vars
  BY <1>1, SameBook DEF vars, InBook
<1>2. ASSUME NEW k \in Keys, GetWithId(k) PROVE Same
  BY <1>2, ReadOnlyStep, SameBook DEF GetWithId, ReadOnly
<1>3. ASSUME NEW d \in Objects, GetWithDomain(d) PROVE Same
  BY <1>3, ReadOnlyStep, SameBook DEF GetWithDomain, ReadOnly
<1>4. ASSUME NEW d \in Objects, DeleteByUrl(d) PROVE Same
  BY <1>4, DeleteByUrlStep, SameBook DEF DeleteByUrl
<1>5. ASSUME NEW k \in Keys, NEW d \in Objects, Create(k, d) PROVE Same
  BY <1>5, CreateStep, SameBook DEF Create
<1>6. CASE SaveStep
  BY <1>6, SavingStep, SameBook DEF SaveStep
<1>7. CASE Answer
  BY <1>7, AnswerStep, SameBook DEF Answer
<1>8. CASE CreateSets
  <2>1. PICK n \in Keys, d \in Objects :
          /\ InBook(n) = Nil /\ InBook(n)' = d
          /\ \A k \in Keys : InBook(k) # d /\ (k # n => InBook(k)' = InBook(k))
    BY <1>8, CreateSetsStep
  <2>2. Book' = [Book EXCEPT ![n] = d]
    BY <2>1 DEF Book
  <2>3. Book[n] = Nil /\ \A k \in Keys : Book[k] # d
    BY <2>1 DEF Book
  <2>4. crashes' = crashes
    BY <1>8 DEF CreateSets
  <2>5. Abstract!Add(n, d)
    BY <2>2, <2>3, <2>4 DEF Abstract!Add
  <2> QED
    BY <2>5 DEF Abstract!Next
<1>9. ASSUME NEW k \in Keys, DeleteById(k) PROVE Same \/ Abstract!Remove(k)
  <2>1. \A i \in Keys : InBook(i)' = InBook(i) \/ (i = k /\ InBook(i)' = Nil)
    BY <1>9, DeleteByIdStep
  <2>2. crashes' = crashes
    BY <1>9 DEF DeleteById
  <2>3. CASE InBook(k)' = InBook(k)
    BY <2>1, <2>2, <2>3, SameBook
  <2>4. CASE InBook(k)' # InBook(k)
    <3>1. Book' = [Book EXCEPT ![k] = Nil]
      BY <2>1, <2>4 DEF Book
    <3> QED
      BY <3>1, <2>2 DEF Abstract!Remove
  <2> QED
    BY <2>3, <2>4
<1>10. CASE Crash
  <2>1. PICK lost \in Abstract!AtMostTwo :
          \A k \in Keys : InBook(k)' = IF k \in lost THEN Nil ELSE InBook(k)
    BY <1>10, CrashLoses
  <2>2. Book' = [k \in Keys |-> IF k \in lost THEN Nil ELSE Book[k]]
    BY <2>1 DEF Book
  <2>3. crashes' = crashes + 1
    BY <1>10 DEF Crash
  <2>4. Abstract!Stop(lost)
    BY <2>2, <2>3 DEF Abstract!Stop
  <2> QED
    BY <2>4 DEF Abstract!Next
<1> HIDE DEF Same
<1>11. \A k \in Keys : Abstract!Remove(k) => Abstract!Next
  BY DEF Abstract!Next
<1>12. Same => [Abstract!Next]_<<Book, crashes>>
  BY DEF Same
<1>13. ASSUME Next PROVE [Abstract!Next]_<<Book, crashes>>
  BY <1>13, <1>2, <1>3, <1>4, <1>5, <1>6, <1>7, <1>8, <1>9, <1>10, <1>11, <1>12 DEF Next
<1> QED
  BY <1>1, <1>13

\* The database implements the AddressBook: reads, saves and restarts never
\* change an address, and each domain is added once (AddressDatabase.lua, DbTable.lua).
THEOREM Implementation == Spec => ImplementsAddressBook
<1>1. Init => Abstract!Init
  BY DEF Init, TableInit, Abstract!Init, Book, InBook
<1>2. Inv /\ [Next]_vars => [Abstract!Next]_<<Book, crashes>>
  BY BookStep
<1> QED
  BY <1>1, <1>2, Invariance, PTL DEF Spec, ImplementsAddressBook, Abstract!Spec
=============================================================================

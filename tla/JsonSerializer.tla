---------------------------- MODULE JsonSerializer ----------------------------
(***************************************************************************)
(* How a value crosses the network or the disk                              *)
(* (src/Core/Json/JsonSerializer.lua): an instance of a class becomes a     *)
(* table of its class name and of what its Serialize returns, and comes     *)
(* back as a call of the constructor with these arguments.                  *)
(*                                                                         *)
(* The text Json.encode writes and Json.decode reads stands here as the     *)
(* tables it says.  Of what JSON changes, one thing matters: null is not    *)
(* kept inside an array, for which the serializer puts "%nil%" in its       *)
(* place.  A plain table is a list; string keys are treated alike.          *)
(*                                                                         *)
(* A value is a tree.  What the code does to a table and then, calling      *)
(* itself, to the tables in it is said here of every position of the tree   *)
(* at once: what becomes of a position depends on the table it is in, and   *)
(* on its own contents.                                                     *)
(***************************************************************************)
EXTENDS Naturals, FiniteSets, Sequences, SequencesExt

CONSTANTS
  Atoms,    \* numbers, strings and booleans
  Classes,  \* the serializable classes
  Static,   \* those Static__Serializer knows
  Mark,     \* the string "%nil%"
  Nil,      \* nil
  Objects   \* the values the program serializes

ASSUME StaticAssumption == Static \subseteq Classes

VARIABLES
  typeInfos,  \* m_typeInfos: the classes this serializer knows
  object,     \* the value in the program that serializes it
  wire,       \* what Serialize returned last
  read,       \* what Deserialize returned last
  first       \* history: what the object was before the first Serialize

vars == <<typeInfos, object, wire, read, first>>

-----------------------------------------------------------------------------
(* Values.  The value itself is at position <<>>, the i-th entry of the      *)
(* table at position p is at Append(p, i).  The entries of an instance are   *)
(* what its Serialize returns, some of them nil; a coded instance is the     *)
(* table of "__Type" and "__Data", and its entries are those of "__Data".    *)

Leaves == Atoms \cup {Mark, Nil}
List == [kind |-> "list"]
Instance(c) == [kind |-> "instance", class |-> c]
Coded(c) == [kind |-> "coded", class |-> c]
Tables == {List} \cup {Instance(c) : c \in Classes} \cup {Coded(c) : c \in Classes}

ASSUME LeavesAssumption == Mark # Nil /\ {Mark, Nil} \cap Atoms = {} /\ Leaves \cap Tables = {}

IsTree(v) ==
  /\ v \in [DOMAIN v -> Leaves \cup Tables]
  /\ <<>> \in DOMAIN v
  /\ \A p \in DOMAIN v : p \in Seq(Nat \ {0})
  /\ \A p \in DOMAIN v \ {<<>>} :
       /\ Front(p) \in DOMAIN v /\ v[Front(p)] \in Tables
       /\ v[Front(p)] = List => v[p] # Nil
       /\ Last(p) > 1 => Append(Front(p), Last(p) - 1) \in DOMAIN v

Instances(v) == {p \in DOMAIN v : \E c \in Classes : v[p] = Instance(c)}
CodedIn(v) == {p \in DOMAIN v : \E c \in Classes : v[p] = Coded(c)}

ASSUME ObjectsAssumption == \A v \in Objects : IsTree(v) /\ CodedIn(v) = {}

\* Nothing was written or read yet: no tree is empty.
None == <<>>

\* The entries of the tables at the positions in S.
EntryOf(p, S) == p # <<>> /\ Front(p) \in S

\* Nil, and so is every later entry of its table.
Trailing(v, p) ==
  p # <<>> /\ \A q \in DOMAIN v : q # <<>> /\ Front(q) = Front(p) /\ Last(q) >= Last(p) => v[q] = Nil

\* The arguments of a call end at the last one given.
Given(v, S) == {p \in DOMAIN v : ~(EntryOf(p, S) /\ Trailing(v, p))}
Trimmed(v) == [p \in Given(v, Instances(v)) |-> v[p]]

-----------------------------------------------------------------------------
(* Serialize *)

PlacedNot(v, p, S) == v[p]  \* mutant: nil is left where it is

\* Until the last entry that is not nil, "%nil%" stands for nil.
Placed(v, p, S) == IF EntryOf(p, S) /\ v[p] = Nil THEN Mark ELSE v[p]

\* serializeClass, of the instances at the positions in S.
Encode(v, S) ==
  [p \in Given(v, S) |-> IF p \in S THEN Coded(v[p].class) ELSE Placed(v, p, S)]

serializeInternal(v) == Encode(v, Instances(v))

\* A plain table keeps what serializeInternal made of its entries; what
\* serializeClass builds is new, and an instance outside of any plain table
\* stays.
InPlace(v) == {p \in Instances(v) : \E q \in DOMAIN v : IsStrictPrefix(q, p) /\ v[q] = List}

AfterCopy(v) == v  \* mutant: tables are copied

\* mutant: what replaces an instance lacks its class
AfterData(v) == [p \in Given(v, InPlace(v)) |-> IF p \in InPlace(v) THEN List ELSE Placed(v, p, InPlace(v))]

\* What the program's own value has become.
After(v) == Encode(v, InPlace(v))

-----------------------------------------------------------------------------
(* Deserialize *)

UnmarkedNot(w, p) == w[p]  \* mutant: "%nil%" stays

Unmarked(w, p) == IF EntryOf(p, CodedIn(w)) /\ w[p] = Mark THEN Nil ELSE w[p]

\* An array whose values were appended one by one has room for a power of
\* two.  Where it is full, or holds no nil, # is its size.
Full == {1, 2, 4, 8, 16}
IsFull(w, p) ==
  \E n \in Full : Append(p, n) \in DOMAIN w /\ w[Append(p, n)] # Mark /\ Append(p, n + 1) \notin DOMAIN w
Holey(w) == {p \in CodedIn(w) : ~IsFull(w, p) /\ \E q \in DOMAIN w : EntryOf(q, {p}) /\ w[q] = Mark}

\* In any other array, # is some index before a nil.
Border(w, p, n) ==
  /\ n > 0 => Append(p, n) \in DOMAIN w /\ w[Append(p, n)] # Mark
  /\ Append(p, n + 1) \in DOMAIN w => w[Append(p, n + 1)] = Mark

Indices(w) == {0} \cup {Last(p) : p \in DOMAIN w \ {<<>>}}
Lengths(w) == {n \in [Holey(w) -> Indices(w)] : \A p \in Holey(w) : Border(w, p, n[p])}

\* The arguments table.unpack gives the constructors, if it finds these lengths.
Arguments(w, lengths) ==
  {p \in DOMAIN w : \A q \in DOMAIN lengths : IsStrictPrefix(q, p) => p[Len(q) + 1] <= lengths[q]}

deserializeInternal(w, lengths) ==
  [p \in Arguments(w, lengths) |-> IF p \in CodedIn(w) THEN Instance(w[p].class) ELSE Unmarked(w, p)]

NamesIn(w) == {w[p].class : p \in CodedIn(w)}

-----------------------------------------------------------------------------
(* The serializer *)

Init ==
  /\ typeInfos = {}
  /\ object \in Objects
  /\ wire = None
  /\ read = None
  /\ first = object

\* AddClass, AddClasses: a class that is known already raises.
AddTypeInfo(c) ==
  /\ c \notin typeInfos
  /\ typeInfos' = typeInfos \cup {c}
  /\ UNCHANGED <<object, wire, read, first>>

AddTypesFromStatic ==
  /\ typeInfos' = typeInfos \cup Static
  /\ UNCHANGED <<object, wire, read, first>>

\* No class need be known to be written.
Serialize ==
  /\ wire' = serializeInternal(object)
  /\ object' = After(object)
  /\ UNCHANGED <<typeInfos, read, first>>

\* A class that is not known raises, wherever it is met.
Deserialize ==
  /\ wire # None
  /\ NamesIn(wire) \subseteq typeInfos
  /\ \E lengths \in Lengths(wire) : read' = deserializeInternal(wire, lengths)
  /\ UNCHANGED <<typeInfos, object, wire, first>>

Next ==
  \/ \E c \in Classes : AddTypeInfo(c)
  \/ AddTypesFromStatic
  \/ Serialize
  \/ Deserialize

Spec == Init /\ [][Next]_vars

-----------------------------------------------------------------------------
(* Properties *)

\* Types: what is written is made of atoms, lists and coded instances only -
\* no instance is left in it, and no nil in a table, however deep - and what
\* is read of anything but coded instances; both are trees.
TypeOK ==
  /\ typeInfos \subseteq Classes
  /\ IsTree(object) /\ IsTree(first)
  /\ wire # None => IsTree(wire) /\ Instances(wire) = {} /\ \A p \in DOMAIN wire \ {<<>>} : wire[p] # Nil
  /\ read # None => IsTree(read) /\ CodedIn(read) = {}

\* What the serializer is sure to give back: no entry of an instance is the
\* string "%nil%", and one with a nil before its last argument fills its array.
Fills(v, p) ==
  \E n \in Full : Append(p, n) \in Given(v, Instances(v)) /\ Append(p, n + 1) \notin Given(v, Instances(v))

Safe(v) ==
  \A p \in Given(v, Instances(v)) : EntryOf(p, Instances(v)) =>
    /\ v[p] # Mark
    /\ v[p] = Nil => Fills(v, Front(p))

\* What is read is what the program had before it was ever serialized,
\* even though the program's own value has been changed in place since and
\* is written again (JsonSerializer.lua:76-104 against :158-186).
RoundTrip == read # None /\ Safe(first) => read = Trimmed(first)

\* A value that was serialized can be serialized again, and gives the same
\* text: what the first time left in it is not coded twice.
WireIsStable == [][wire # None => wire' = wire]_vars

\* Serialize changes the program's value if, and only if, a plain table in
\* it holds an instance (JsonSerializer.lua:125-129); an instance that holds
\* an instance keeps it.
ChangedInPlace ==
  wire # None =>
    (object # first <=> \E p \in Instances(first) : p # <<>> /\ first[Front(p)] = List)
=============================================================================

----------------------- MODULE JsonSerializer_proofs -----------------------
(***************************************************************************)
(* Proofs about JsonSerializer, for any atoms, classes and values, of any   *)
(* width and depth.                                                         *)
(***************************************************************************)
EXTENDS JsonSerializer, SequenceTheorems, FiniteSetTheorems, TLAPS

-----------------------------------------------------------------------------
(* Positions. *)

Indexes == Nat \ {0}

\* A position other than <<>> is an entry of the position before it.
LEMMA FrontFacts ==
  ASSUME NEW p \in Seq(Indexes), p # <<>>
  PROVE  /\ Front(p) \in Seq(Indexes) /\ Last(p) \in Indexes
         /\ Len(p) \in Nat \ {0} /\ Len(Front(p)) = Len(p) - 1
         /\ \A k \in 1 .. Len(p) - 1 : Front(p)[k] = p[k]
         /\ p = Append(Front(p), Last(p))
<1>1. Len(p) \in Nat \ {0} /\ \A k \in 1 .. Len(p) : p[k] \in Indexes
  OBVIOUS
<1>2. Last(p) \in Indexes
  BY <1>1 DEF Last
<1>3. Front(p) \in Seq(Indexes) /\ Len(Front(p)) = Len(p) - 1
  <2>1. Len(p) - 1 \in Nat /\ \A k \in 1 .. Len(p) - 1 : p[k] \in Indexes
    BY <1>1
  <2>2. Front(p) \in Seq(Indexes)
    BY <2>1, SubSeqProperties DEF Front
  <2>3. Len(Front(p)) = IF 1 <= Len(p) - 1 THEN Len(p) - 1 - 1 + 1 ELSE 0
    BY <2>1, SubSeqProperties DEF Front
  <2>4. ASSUME NEW n \in Nat \ {0} PROVE (IF 1 <= n - 1 THEN n - 1 - 1 + 1 ELSE 0) = n - 1
    OBVIOUS
  <2> QED
    BY <1>1, <2>2, <2>3, <2>4, Zenon
<1>4. \A k \in 1 .. Len(p) - 1 : Front(p)[k] = p[k]
  BY <1>1 DEF Front
<1>5. p = Append(Front(p), Last(p))
  <2>1. Append(Front(p), Last(p)) \in Seq(Indexes) /\ Len(Append(Front(p), Last(p))) = Len(p)
    BY <1>1, <1>2, <1>3
  <2>2. \A k \in 1 .. Len(p) : Append(Front(p), Last(p))[k] = p[k]
    BY <1>1, <1>2, <1>3, <1>4 DEF Last
  <2> QED
    BY <2>1, <2>2, SeqEqual
<1> QED
  BY <1>1, <1>2, <1>3, <1>4, <1>5

LEMMA AppendFacts ==
  ASSUME NEW p \in Seq(Indexes), NEW i \in Indexes
  PROVE  /\ Append(p, i) \in Seq(Indexes) /\ Append(p, i) # <<>>
         /\ Front(Append(p, i)) = p /\ Last(Append(p, i)) = i
<1>1. /\ Append(p, i) \in Seq(Indexes) /\ Len(Append(p, i)) = Len(p) + 1 /\ Len(p) \in Nat
      /\ \A k \in 1 .. Len(p) : Append(p, i)[k] = p[k]
      /\ Append(p, i)[Len(p) + 1] = i
  OBVIOUS
<1>2. Append(p, i) # <<>>
  BY <1>1
<1>3. Last(Append(p, i)) = i
  BY <1>1 DEF Last
<1>5. /\ Front(Append(p, i)) \in Seq(Indexes) /\ Len(Front(Append(p, i))) = Len(Append(p, i)) - 1
      /\ \A k \in 1 .. Len(Append(p, i)) - 1 : Front(Append(p, i))[k] = Append(p, i)[k]
  BY <1>1, <1>2, FrontFacts
<1>4. Front(Append(p, i)) = p
  <2>1. Front(Append(p, i)) \in Seq(Indexes) /\ Len(Front(Append(p, i))) = Len(p)
    BY <1>1, <1>5
  <2>2. \A k \in 1 .. Len(p) : Front(Append(p, i))[k] = p[k]
    BY <1>1, <1>5
  <2> QED
    BY <2>1, <2>2, SeqEqual
<1> QED
  BY <1>1, <1>2, <1>3, <1>4

\* What a strict prefix is, element by element.
LEMMA PrefixFacts ==
  ASSUME NEW q \in Seq(Indexes), NEW p \in Seq(Indexes)
  PROVE  IsStrictPrefix(q, p) <=> Len(q) < Len(p) /\ \A k \in 1 .. Len(q) : q[k] = p[k]
<1>1. Len(q) \in Nat /\ Len(p) \in Nat
  OBVIOUS
<1>2. ASSUME Len(q) <= Len(p)
      PROVE  SubSeq(q, 1, Len(q)) = SubSeq(p, 1, Len(q)) <=> \A k \in 1 .. Len(q) : q[k] = p[k]
  <2>1. /\ SubSeq(q, 1, Len(q)) \in Seq(Indexes) /\ SubSeq(p, 1, Len(q)) \in Seq(Indexes)
        /\ Len(SubSeq(q, 1, Len(q))) = Len(q) /\ Len(SubSeq(p, 1, Len(q))) = Len(q)
    <3>1. \A k \in 1 .. Len(q) : q[k] \in Indexes /\ p[k] \in Indexes
      BY <1>1, <1>2
    <3> QED
      BY <1>1, <1>2, <3>1
  <2>2. \A k \in 1 .. Len(q) : SubSeq(q, 1, Len(q))[k] = q[k] /\ SubSeq(p, 1, Len(q))[k] = p[k]
    BY <1>1, <1>2
  <2>3. (\A k \in 1 .. Len(q) : q[k] = p[k]) => SubSeq(q, 1, Len(q)) = SubSeq(p, 1, Len(q))
    BY <2>1, <2>2, SeqEqual
  <2> QED
    BY <2>2, <2>3
<1>3. ASSUME Len(q) = Len(p), \A k \in 1 .. Len(q) : q[k] = p[k]
      PROVE  q = p
  BY <1>3, SeqEqual
<1>4. IsStrictPrefix(q, p) => Len(q) < Len(p) /\ \A k \in 1 .. Len(q) : q[k] = p[k]
  <2> SUFFICES ASSUME IsStrictPrefix(q, p)
               PROVE  Len(q) < Len(p) /\ \A k \in 1 .. Len(q) : q[k] = p[k]
    OBVIOUS
  <2>1. Len(q) <= Len(p) /\ SubSeq(q, 1, Len(q)) = SubSeq(p, 1, Len(q)) /\ q # p
    BY DEF IsStrictPrefix, IsPrefix
  <2>2. \A k \in 1 .. Len(q) : q[k] = p[k]
    BY <1>2, <2>1
  <2>3. Len(q) # Len(p)
    BY <1>3, <2>1, <2>2
  <2> QED
    BY <1>1, <2>1, <2>2, <2>3
<1>5. ASSUME Len(q) < Len(p), \A k \in 1 .. Len(q) : q[k] = p[k]
      PROVE  IsStrictPrefix(q, p)
  <2>1. Len(q) <= Len(p) /\ q # p
    BY <1>1, <1>5
  <2>2. SubSeq(q, 1, Len(q)) = SubSeq(p, 1, Len(q))
    BY <1>2, <1>5, <2>1
  <2> QED
    BY <2>1, <2>2 DEF IsStrictPrefix, IsPrefix
<1> QED
  BY <1>4, <1>5

\* What is above a position is the table it is in, or above that table.
LEMMA PrefixOfFront ==
  ASSUME NEW q \in Seq(Indexes), NEW p \in Seq(Indexes), p # <<>>
  PROVE  IsStrictPrefix(q, p) <=> q = Front(p) \/ IsStrictPrefix(q, Front(p))
<1>1. /\ Front(p) \in Seq(Indexes) /\ Len(p) \in Nat \ {0} /\ Len(Front(p)) = Len(p) - 1
      /\ \A k \in 1 .. Len(p) - 1 : Front(p)[k] = p[k]
  BY FrontFacts
<1>2. Len(q) \in Nat
  OBVIOUS
<1>3. ASSUME IsStrictPrefix(q, p), ~IsStrictPrefix(q, Front(p))
      PROVE  q = Front(p)
  <2>1. Len(q) < Len(p) /\ \A k \in 1 .. Len(q) : q[k] = p[k]
    BY <1>3, PrefixFacts
  <2>2. \A k \in 1 .. Len(q) : q[k] = Front(p)[k]
    BY <1>1, <1>2, <2>1
  <2>3. Len(q) = Len(Front(p))
    BY <1>1, <1>2, <1>3, <2>1, <2>2, PrefixFacts
  <2> QED
    BY <1>1, <2>2, <2>3, SeqEqual
<1>4. IsStrictPrefix(Front(p), p)
  BY <1>1, PrefixFacts
<1>5. ASSUME IsStrictPrefix(q, Front(p)) PROVE IsStrictPrefix(q, p)
  <2>1. Len(q) < Len(Front(p)) /\ \A k \in 1 .. Len(q) : q[k] = Front(p)[k]
    BY <1>1, <1>5, PrefixFacts
  <2>2. Len(q) < Len(p) /\ \A k \in 1 .. Len(q) : q[k] = p[k]
    BY <1>1, <1>2, <2>1
  <2> QED
    BY <2>2, PrefixFacts
<1> QED
  BY <1>3, <1>4, <1>5

-----------------------------------------------------------------------------
(* Trees. *)

\* The kinds of tables and leaves are told apart by what stands at a position.
LEMMA KindFacts ==
  /\ \A c, d : Instance(c) # Coded(d) /\ Instance(c) # List /\ Coded(c) # List
  /\ \A c : Instance(c).class = c /\ Coded(c).class = c
  /\ List \in Tables /\ \A c \in Classes : Instance(c) \in Tables /\ Coded(c) \in Tables
  /\ Nil \notin Tables /\ Mark \notin Tables /\ Nil \in Leaves /\ Mark \in Leaves /\ Mark # Nil
<1>1. \A c, d : Instance(c) # Coded(d)
  <2> SUFFICES ASSUME NEW c, NEW d PROVE Instance(c).kind # Coded(d).kind
    OBVIOUS
  <2> QED
    BY DEF Instance, Coded
<1>2. \A c : Instance(c) # List /\ Coded(c) # List
  <2> SUFFICES ASSUME NEW c PROVE Instance(c).kind # List.kind /\ Coded(c).kind # List.kind
    OBVIOUS
  <2> QED
    BY DEF Instance, Coded, List
<1>3. \A c : Instance(c).class = c /\ Coded(c).class = c
  BY DEF Instance, Coded
<1>4. List \in Tables /\ \A c \in Classes : Instance(c) \in Tables /\ Coded(c) \in Tables
  BY DEF Tables
<1>5. Nil \notin Tables /\ Mark \notin Tables /\ Nil \in Leaves /\ Mark \in Leaves /\ Mark # Nil
  BY LeavesAssumption DEF Leaves
<1> QED
  BY <1>1, <1>2, <1>3, <1>4, <1>5

\* What a tree is, at each of its positions.
LEMMA TreeFacts ==
  ASSUME NEW v, IsTree(v)
  PROVE  /\ v = [p \in DOMAIN v |-> v[p]] /\ <<>> \in DOMAIN v
         /\ \A p \in DOMAIN v : p \in Seq(Indexes) /\ v[p] \in Leaves \cup Tables
         /\ \A p \in DOMAIN v : p # <<>> => /\ Front(p) \in DOMAIN v /\ v[Front(p)] \in Tables
                                            /\ Front(p) \in Seq(Indexes) /\ Last(p) \in Indexes
                                            /\ v[Front(p)] = List => v[p] # Nil
                                            /\ Last(p) > 1 => Append(Front(p), Last(p) - 1) \in DOMAIN v
<1>1. v \in [DOMAIN v -> Leaves \cup Tables] /\ <<>> \in DOMAIN v
  BY DEF IsTree
<1>2. \A p \in DOMAIN v : p \in Seq(Indexes)
  BY DEF IsTree, Indexes
<1>3. \A p \in DOMAIN v : p # <<>> => Front(p) \in Seq(Indexes) /\ Last(p) \in Indexes
  BY <1>2, FrontFacts
<1>4. \A p \in DOMAIN v : p # <<>> => /\ Front(p) \in DOMAIN v /\ v[Front(p)] \in Tables
                                      /\ v[Front(p)] = List => v[p] # Nil
                                      /\ Last(p) > 1 => Append(Front(p), Last(p) - 1) \in DOMAIN v
  BY DEF IsTree
<1> QED
  BY <1>1, <1>2, <1>3, <1>4

\* An entry that is left out is nil.
LEMMA TrailingIsNil ==
  ASSUME NEW v, IsTree(v), NEW p \in DOMAIN v, Trailing(v, p)
  PROVE  v[p] = Nil
<1>1. p # <<>>
  BY DEF Trailing
<1>2. Last(p) \in Nat
  BY <1>1, TreeFacts DEF Indexes
<1>3. Last(p) >= Last(p)
  BY <1>2
<1> QED
  BY <1>1, <1>3 DEF Trailing

LEMMA GivenFacts ==
  ASSUME NEW v, IsTree(v), NEW S
  PROVE  /\ Given(v, S) \subseteq DOMAIN v
         /\ \A p \in DOMAIN v : v[p] # Nil \/ ~EntryOf(p, S) => p \in Given(v, S)
         /\ \A p \in Given(v, S) : p # <<>> => Front(p) \in Given(v, S)
<1>1. Given(v, S) \subseteq DOMAIN v
  BY DEF Given
<1>2. \A p \in DOMAIN v : v[p] # Nil \/ ~EntryOf(p, S) => p \in Given(v, S)
  BY TrailingIsNil DEF Given
<1>3. \A p \in Given(v, S) : p # <<>> => Front(p) \in DOMAIN v /\ v[Front(p)] # Nil
  BY <1>1, TreeFacts, KindFacts
<1> QED
  BY <1>1, <1>2, <1>3

\* What Encode makes of each position.
LEMMA EncodeFacts ==
  ASSUME NEW v, IsTree(v), NEW S \in SUBSET Instances(v)
  PROVE  /\ DOMAIN Encode(v, S) = Given(v, S)
         /\ \A p \in S : p \in Given(v, S) /\ \E c \in Classes : v[p] = Instance(c) /\ Encode(v, S)[p] = Coded(c)
         /\ \A p \in Given(v, S) : p \notin S /\ EntryOf(p, S) /\ v[p] = Nil => Encode(v, S)[p] = Mark
         /\ \A p \in Given(v, S) : p \notin S /\ ~(EntryOf(p, S) /\ v[p] = Nil) => Encode(v, S)[p] = v[p]
<1>1. /\ DOMAIN Encode(v, S) = Given(v, S)
      /\ \A p \in Given(v, S) : Encode(v, S)[p] = IF p \in S THEN Coded(v[p].class) ELSE Placed(v, p, S)
  BY DEF Encode
<1>2. ASSUME NEW p \in S
      PROVE  p \in Given(v, S) /\ \E c \in Classes : v[p] = Instance(c) /\ Encode(v, S)[p] = Coded(c)
  <2>1. PICK c \in Classes : p \in DOMAIN v /\ v[p] = Instance(c)
    BY DEF Instances
  <2>2. p \in Given(v, S)
    BY <2>1, GivenFacts, KindFacts
  <2>3. Encode(v, S)[p] = Coded(c)
    BY <1>1, <2>1, <2>2, KindFacts
  <2> QED
    BY <2>1, <2>2, <2>3
<1>3. \A p \in Given(v, S) : p \notin S /\ EntryOf(p, S) /\ v[p] = Nil => Encode(v, S)[p] = Mark
  BY <1>1 DEF Placed
<1>4. \A p \in Given(v, S) : p \notin S /\ ~(EntryOf(p, S) /\ v[p] = Nil) => Encode(v, S)[p] = v[p]
  BY <1>1 DEF Placed
<1> QED
  BY <1>1, <1>2, <1>3, <1>4

\* Encode codes the instances it is given, and nothing else.
LEMMA EncodeKinds ==
  ASSUME NEW v, IsTree(v), NEW S \in SUBSET Instances(v)
  PROVE  /\ Instances(Encode(v, S)) = Instances(v) \ S
         /\ CodedIn(Encode(v, S)) = CodedIn(v) \cup S
         /\ \A p : p \in DOMAIN v /\ v[p] = List <=> p \in Given(v, S) /\ Encode(v, S)[p] = List
         /\ \A p \in Given(v, S) : v[p] \in Tables <=> Encode(v, S)[p] \in Tables
<1> DEFINE E == Encode(v, S)
<1>1. /\ DOMAIN E = Given(v, S) /\ Given(v, S) \subseteq DOMAIN v
      /\ \A p \in DOMAIN v : v[p] # Nil => p \in Given(v, S)
  BY EncodeFacts, GivenFacts
<1>2. ASSUME NEW p \in S
      PROVE  /\ p \in Given(v, S)
             /\ \E c \in Classes : v[p] = Instance(c) /\ E[p] = Coded(c)
  BY EncodeFacts
<1>3. ASSUME NEW p \in Given(v, S), p \notin S
      PROVE  E[p] = v[p] \/ (v[p] = Nil /\ E[p] = Mark)
  BY <1>3, EncodeFacts
<1> HIDE DEF E
<1>4. \A p \in S : E[p] \in Tables /\ v[p] \in Tables /\ E[p] # List /\ v[p] # List
  BY <1>2, KindFacts
<1>5. \A p \in Given(v, S) \ S : (v[p] \in Tables \/ E[p] \in Tables) => E[p] = v[p]
  BY <1>3, KindFacts
<1>6. \A p \in DOMAIN v : v[p] \in Tables => p \in Given(v, S)
  BY <1>1, KindFacts
<1>7. Instances(E) = Instances(v) \ S
  <2>1. ASSUME NEW p \in Instances(E) PROVE p \in Instances(v) \ S
    <3>1. PICK c \in Classes : p \in Given(v, S) /\ E[p] = Instance(c)
      BY <1>1 DEF Instances
    <3>2. p \notin S
      BY <1>2, <3>1, KindFacts
    <3>3. v[p] = Instance(c)
      BY <1>5, <3>1, <3>2, KindFacts
    <3> QED
      BY <1>1, <3>1, <3>2, <3>3 DEF Instances
  <2>2. ASSUME NEW p \in Instances(v) \ S PROVE p \in Instances(E)
    <3>1. PICK c \in Classes : p \in DOMAIN v /\ v[p] = Instance(c)
      BY DEF Instances
    <3>2. p \in Given(v, S) /\ E[p] = v[p]
      BY <1>5, <1>6, <3>1, KindFacts
    <3> QED
      BY <1>1, <3>1, <3>2 DEF Instances
  <2> QED
    BY <2>1, <2>2
<1>8. CodedIn(E) = CodedIn(v) \cup S
  <2>1. ASSUME NEW p \in CodedIn(E), p \notin S PROVE p \in CodedIn(v)
    <3>1. PICK c \in Classes : p \in Given(v, S) /\ E[p] = Coded(c)
      BY <1>1 DEF CodedIn
    <3>2. v[p] = Coded(c)
      BY <1>5, <2>1, <3>1, KindFacts
    <3> QED
      BY <1>1, <3>1, <3>2 DEF CodedIn
  <2>2. ASSUME NEW p \in CodedIn(v) PROVE p \in CodedIn(E)
    <3>1. PICK c \in Classes : p \in DOMAIN v /\ v[p] = Coded(c)
      BY DEF CodedIn
    <3>2. p \notin S
      BY <1>2, <3>1, KindFacts
    <3>3. p \in Given(v, S) /\ E[p] = v[p]
      BY <1>5, <1>6, <3>1, <3>2, KindFacts
    <3> QED
      BY <1>1, <3>1, <3>3 DEF CodedIn
  <2>3. \A p \in S : p \in CodedIn(E)
    BY <1>1, <1>2 DEF CodedIn
  <2> QED
    BY <2>1, <2>2, <2>3
<1>9. \A p : p \in DOMAIN v /\ v[p] = List <=> p \in Given(v, S) /\ E[p] = List
  BY <1>1, <1>4, <1>5, <1>6, KindFacts
<1>10. \A p \in Given(v, S) : v[p] \in Tables <=> E[p] \in Tables
  BY <1>4, <1>5
<1> QED
  BY <1>7, <1>8, <1>9, <1>10 DEF E

\* What Encode returns is a tree.
LEMMA EncodeTree ==
  ASSUME NEW v, IsTree(v), NEW S \in SUBSET Instances(v)
  PROVE  IsTree(Encode(v, S))
<1> DEFINE E == Encode(v, S)
<1>1. /\ DOMAIN E = Given(v, S) /\ Given(v, S) \subseteq DOMAIN v
      /\ E = [p \in Given(v, S) |-> E[p]]
  BY EncodeFacts, GivenFacts DEF Encode
<1>2. \A p \in Given(v, S) : (\E c \in Classes : E[p] = Coded(c)) \/ E[p] = Mark \/ E[p] = v[p]
  BY EncodeFacts
<1>3. \A p \in Given(v, S) : v[p] \in Tables <=> E[p] \in Tables
  BY EncodeKinds
<1>4. \A p \in Given(v, S) : E[p] = List => v[p] = List
  BY EncodeKinds
<1> HIDE DEF E
<1>5. E \in [DOMAIN E -> Leaves \cup Tables]
  <2>1. \A p \in Given(v, S) : E[p] \in Leaves \cup Tables
    BY <1>1, <1>2, TreeFacts, KindFacts
  <2> QED
    BY <1>1, <2>1
<1>6. <<>> \in DOMAIN E
  BY <1>1, TreeFacts, GivenFacts DEF EntryOf
<1>7. \A p \in DOMAIN E : p \in Seq(Nat \ {0})
  BY <1>1, TreeFacts DEF Indexes
<1>8. ASSUME NEW p \in DOMAIN E, p # <<>>
      PROVE  /\ Front(p) \in DOMAIN E /\ E[Front(p)] \in Tables
             /\ E[Front(p)] = List => E[p] # Nil
             /\ Last(p) > 1 => Append(Front(p), Last(p) - 1) \in DOMAIN E
  <2>1. /\ Front(p) \in Given(v, S) /\ v[Front(p)] \in Tables /\ (v[Front(p)] = List => v[p] # Nil)
        /\ p \in DOMAIN v /\ Front(p) \in Seq(Indexes) /\ Last(p) \in Indexes
        /\ (Last(p) > 1 => Append(Front(p), Last(p) - 1) \in DOMAIN v)
    BY <1>1, <1>8, GivenFacts, TreeFacts
  <2>2. E[Front(p)] = List => E[p] # Nil
    BY <1>1, <1>2, <1>4, <1>8, <2>1, KindFacts
  <2>3. ASSUME Last(p) > 1, Append(Front(p), Last(p) - 1) \notin Given(v, S)
        PROVE  FALSE
    <3> DEFINE q == Append(Front(p), Last(p) - 1)
    <3>1. Last(p) - 1 \in Indexes /\ Last(p) \in Nat
      BY <2>1, <2>3 DEF Indexes
    <3>2. q # <<>> /\ Front(q) = Front(p) /\ Last(q) = Last(p) - 1
      BY <2>1, <3>1, AppendFacts
    <3>3. EntryOf(q, S) /\ Trailing(v, q)
      BY <2>1, <2>3 DEF Given
    <3> HIDE DEF q
    <3>4. EntryOf(p, S)
      BY <1>8, <3>2, <3>3 DEF EntryOf
    <3>5. ASSUME NEW r \in DOMAIN v, r # <<>>, Front(r) = Front(p), Last(r) >= Last(p)
          PROVE  v[r] = Nil
      <4>1. Last(r) \in Nat
        BY <3>5, TreeFacts DEF Indexes
      <4>2. Last(r) >= Last(q)
        BY <3>1, <3>2, <3>5, <4>1
      <4> QED
        BY <3>2, <3>3, <3>5, <4>2 DEF Trailing
    <3>6. Trailing(v, p)
      BY <1>8, <3>5 DEF Trailing
    <3> QED
      BY <1>1, <1>8, <3>4, <3>6 DEF Given
  <2> QED
    BY <1>1, <1>3, <2>1, <2>2, <2>3
<1> QED
  BY <1>5, <1>6, <1>7, <1>8 DEF IsTree, E

\* With nothing to code a value stays as it is.
LEMMA EncodeNothing ==
  ASSUME NEW v, IsTree(v)
  PROVE  Encode(v, {}) = v
<1>1. Given(v, {}) = DOMAIN v
  BY DEF Given, EntryOf
<1>2. Encode(v, {}) = [p \in DOMAIN v |-> v[p]]
  BY <1>1 DEF Encode, Placed, EntryOf
<1> QED
  BY <1>2, TreeFacts

\* Coding some of the instances, and later the others, gives what coding all
\* of them at once would.
LEMMA EncodeTwice ==
  ASSUME NEW v, IsTree(v), NEW S \in SUBSET Instances(v)
  PROVE  serializeInternal(Encode(v, S)) = serializeInternal(v)
<1> DEFINE E == Encode(v, S)
           T == Instances(v)
           R == T \ S
<1>1. /\ DOMAIN E = Given(v, S) /\ Given(v, S) \subseteq DOMAIN v /\ IsTree(E) /\ Instances(E) = R
      /\ \A p \in S : p \in Given(v, S) /\ \E c \in Classes : v[p] = Instance(c) /\ E[p] = Coded(c)
      /\ \A p \in Given(v, S) : p \notin S /\ EntryOf(p, S) /\ v[p] = Nil => E[p] = Mark
      /\ \A p \in Given(v, S) : p \notin S /\ ~(EntryOf(p, S) /\ v[p] = Nil) => E[p] = v[p]
      /\ \A p \in DOMAIN v : ~EntryOf(p, S) => p \in Given(v, S)
  BY EncodeFacts, EncodeKinds, EncodeTree, GivenFacts
<1>2. /\ DOMAIN Encode(v, T) = Given(v, T) /\ Encode(v, T) = [p \in Given(v, T) |-> Encode(v, T)[p]]
      /\ \A p \in T : p \in Given(v, T) /\ \E c \in Classes : v[p] = Instance(c) /\ Encode(v, T)[p] = Coded(c)
      /\ \A p \in Given(v, T) : p \notin T /\ EntryOf(p, T) /\ v[p] = Nil => Encode(v, T)[p] = Mark
      /\ \A p \in Given(v, T) : p \notin T /\ ~(EntryOf(p, T) /\ v[p] = Nil) => Encode(v, T)[p] = v[p]
  BY EncodeFacts DEF Encode
<1>3. /\ DOMAIN Encode(E, R) = Given(E, R) /\ Encode(E, R) = [p \in Given(E, R) |-> Encode(E, R)[p]]
      /\ \A p \in R : p \in Given(E, R) /\ \E c \in Classes : E[p] = Instance(c) /\ Encode(E, R)[p] = Coded(c)
      /\ \A p \in Given(E, R) : p \notin R /\ EntryOf(p, R) /\ E[p] = Nil => Encode(E, R)[p] = Mark
      /\ \A p \in Given(E, R) : p \notin R /\ ~(EntryOf(p, R) /\ E[p] = Nil) => Encode(E, R)[p] = E[p]
  <2>1. R \in SUBSET Instances(E)
    BY <1>1
  <2>2. Encode(E, R) = [p \in Given(E, R) |-> Encode(E, R)[p]]
    BY DEF Encode
  <2> HIDE DEF E
  <2> QED
    BY <1>1, <2>1, <2>2, EncodeFacts
<1>4. S \subseteq T
  OBVIOUS
<1>5. \A p \in T : v[p] # Nil /\ \E c \in Classes : v[p] = Instance(c)
  BY KindFacts DEF Instances
<1> HIDE DEF E, T
<1>6. \A p : EntryOf(p, T) <=> EntryOf(p, S) \/ EntryOf(p, R)
  BY <1>4 DEF EntryOf
<1>7. ASSUME NEW p \in DOMAIN v, EntryOf(p, R)
      PROVE  /\ ~EntryOf(p, S) /\ p \in Given(v, S)
             /\ E[p] = Nil <=> v[p] = Nil
             /\ p \notin S => E[p] = v[p]
  <2>1. ~EntryOf(p, S)
    BY <1>7 DEF EntryOf
  <2> QED
    BY <1>1, <1>4, <1>5, <2>1, KindFacts
<1>8. ASSUME NEW p \in DOMAIN v, EntryOf(p, R)
      PROVE  Trailing(E, p) <=> Trailing(v, p)
  <2>1. \A q \in DOMAIN v : q # <<>> /\ Front(q) = Front(p) => q \in DOMAIN E /\ (E[q] = Nil <=> v[q] = Nil)
    BY <1>1, <1>7, <1>8 DEF EntryOf
  <2> QED
    BY <1>1, <2>1 DEF Trailing
<1>9. Given(E, R) = Given(v, T)
  <2>1. \A p : p \in Given(v, S) <=> p \in DOMAIN v /\ ~(EntryOf(p, S) /\ Trailing(v, p))
    BY DEF Given
  <2>2. \A p : p \in Given(v, T) <=> p \in DOMAIN v /\ ~(EntryOf(p, T) /\ Trailing(v, p))
    BY DEF Given
  <2>3. \A p : p \in Given(E, R) <=> p \in Given(v, S) /\ ~(EntryOf(p, R) /\ Trailing(E, p))
    BY <1>1 DEF Given
  <2>4. \A p : p \in Given(E, R) <=> p \in Given(v, T)
    BY <1>1, <1>6, <1>8, <2>1, <2>2, <2>3
  <2> QED
    BY <2>4
<1>10. ASSUME NEW p \in Given(v, T)
       PROVE  Encode(E, R)[p] = Encode(v, T)[p]
  <2>1. p \in Given(E, R) /\ p \in Given(v, S) /\ p \in DOMAIN v
    BY <1>1, <1>9, <1>10 DEF Given
  <2>2. CASE p \in S
    <3>1. PICK c \in Classes : v[p] = Instance(c) /\ E[p] = Coded(c)
      BY <1>1, <2>2
    <3>2. Encode(v, T)[p] = Coded(c)
      BY <1>2, <1>4, <2>2, <3>1, KindFacts
    <3>3. E[p] # Nil /\ p \notin R
      BY <2>2, <3>1, KindFacts
    <3> QED
      BY <1>3, <2>1, <3>1, <3>2, <3>3
  <2>3. CASE p \in R
    <3>1. PICK c \in Classes : v[p] = Instance(c) /\ Encode(v, T)[p] = Coded(c)
      BY <1>2, <2>3
    <3>2. PICK d \in Classes : E[p] = Instance(d) /\ Encode(E, R)[p] = Coded(d)
      BY <1>3, <2>3
    <3>3. p \notin S /\ v[p] # Nil
      BY <1>5, <2>3
    <3>4. E[p] = v[p]
      BY <1>1, <2>1, <3>3
    <3>5. Instance(c) = Instance(d)
      BY <3>1, <3>2, <3>4
    <3>6. Instance(c).class = c /\ Instance(d).class = d
      BY KindFacts
    <3>7. c = d
      BY <3>5, <3>6
    <3> QED
      BY <3>1, <3>2, <3>7
  <2>4. CASE p \notin T
    <3>1. p \notin S /\ p \notin R
      BY <1>4, <2>4
    <3>2. CASE EntryOf(p, S) /\ v[p] = Nil
      <4>1. E[p] = Mark /\ Encode(v, T)[p] = Mark
        BY <1>1, <1>2, <1>6, <2>1, <2>4, <3>1, <3>2
      <4>2. Encode(E, R)[p] = E[p]
        BY <1>3, <2>1, <3>1, <4>1, KindFacts
      <4> QED
        BY <4>1, <4>2
    <3>3. CASE ~(EntryOf(p, S) /\ v[p] = Nil)
      <4>1. E[p] = v[p]
        BY <1>1, <2>1, <3>1, <3>3
      <4>2. CASE EntryOf(p, R) /\ v[p] = Nil
        BY <1>2, <1>3, <1>6, <2>1, <2>4, <3>1, <4>1, <4>2
      <4>3. CASE ~(EntryOf(p, R) /\ v[p] = Nil)
        BY <1>2, <1>3, <1>6, <2>1, <2>4, <3>1, <3>3, <4>1, <4>3
      <4> QED
        BY <4>2, <4>3
    <3> QED
      BY <3>2, <3>3
  <2> QED
    BY <2>2, <2>3, <2>4
<1>11. Encode(E, R) = Encode(v, T)
  BY <1>2, <1>3, <1>9, <1>10
<1> QED
  BY <1>1, <1>11 DEF serializeInternal, E, T

-----------------------------------------------------------------------------
(* The least of a set of numbers, and what follows from it for positions:    *)
(* induction over the depth of a value and over the entries of a table.      *)

LEMMA LeastNumber ==
  ASSUME NEW W \in SUBSET Nat, W # {}
  PROVE  \E m \in W : \A k \in W : m <= k
<1> DEFINE I == {0 .. m : m \in W}
<1>1. IsWellFoundedOn(StrictSubsetOrdering(Nat), FiniteSubsetsOf(Nat))
  BY FS_StrictSubsetOrderingWellFounded
<1>2. I \subseteq FiniteSubsetsOf(Nat) /\ I # {}
  <2>1. ASSUME NEW m \in W PROVE 0 .. m \in FiniteSubsetsOf(Nat)
    <3>1. IsFiniteSet(0 .. m) /\ 0 .. m \in SUBSET Nat
      BY FS_Interval
    <3> QED
      BY <3>1 DEF FiniteSubsetsOf
  <2> QED
    BY <2>1
<1>3. PICK x \in I : \A y \in I : <<y, x>> \notin StrictSubsetOrdering(Nat)
  <2> HIDE DEF I
  <2> QED
    BY <1>1, <1>2, WFMin
<1>4. PICK m \in W : x = 0 .. m
  OBVIOUS
<1>5. ASSUME NEW k \in W, ~(m <= k) PROVE FALSE
  <2>1. k \in Nat /\ m \in Nat
    OBVIOUS
  <2>2. (0 .. k) \subseteq (0 .. m)
    BY <1>5, <2>1
  <2>3. m \in (0 .. m) /\ m \notin (0 .. k)
    BY <1>5, <2>1
  <2>4. (0 .. k) \in SUBSET Nat /\ (0 .. m) \in SUBSET Nat /\ (0 .. k) # (0 .. m)
    BY <2>1, <2>3
  <2>5. <<0 .. k, 0 .. m>> \in StrictSubsetOrdering(Nat)
    BY <2>2, <2>4 DEF StrictSubsetOrdering
  <2> QED
    BY <1>3, <1>4, <2>5
<1> QED
  BY <1>5

\* A table has no entry beyond one that it lacks.
LEMMA NoGap ==
  ASSUME NEW v, IsTree(v), NEW p \in Seq(Indexes), NEW n \in Indexes, Append(p, n) \notin DOMAIN v,
         NEW k \in Indexes, Append(p, k) \in DOMAIN v
  PROVE  k < n
<1> SUFFICES ASSUME ~(k < n) PROVE FALSE
  OBVIOUS
<1> DEFINE W == {j \in Indexes : n <= j /\ Append(p, j) \in DOMAIN v}
<1>1. W \in SUBSET Nat /\ k \in W
  BY DEF Indexes
<1>2. PICK m \in W : \A j \in W : m <= j
  BY <1>1, LeastNumber
<1>3. m # n /\ m \in Nat /\ n \in Nat /\ n > 0 /\ n <= m
  BY <1>2 DEF Indexes
<1>4. Append(p, m) # <<>> /\ Front(Append(p, m)) = p /\ Last(Append(p, m)) = m
  BY <1>2, AppendFacts
<1>5. Append(p, m - 1) \in DOMAIN v
  <2>1. m > 1 /\ Append(p, m) \in DOMAIN v
    BY <1>2, <1>3
  <2>2. Last(Append(p, m)) > 1 => Append(Front(Append(p, m)), Last(Append(p, m)) - 1) \in DOMAIN v
    BY <1>4, <2>1, TreeFacts
  <2> QED
    BY <1>4, <2>1, <2>2
<1>6. m - 1 \in W
  BY <1>3, <1>5 DEF Indexes
<1> QED
  BY <1>2, <1>3, <1>6

\* The first instance below a plain table, counted from the root, is an entry
\* of a plain table.
LEMMA FirstInPlace ==
  ASSUME NEW v, IsTree(v), CodedIn(v) = {}
  PROVE  InPlace(v) # {} <=> \E p \in Instances(v) : p # <<>> /\ v[Front(p)] = List
<1>i. \A p \in Instances(v) : p \in DOMAIN v /\ p \in Seq(Indexes)
  BY TreeFacts DEF Instances
<1>1. ASSUME NEW p \in Instances(v), p # <<>>, v[Front(p)] = List
      PROVE  p \in InPlace(v)
  <2>1. Front(p) \in DOMAIN v /\ Front(p) \in Seq(Indexes)
    BY <1>1, <1>i, TreeFacts
  <2>2. IsStrictPrefix(Front(p), p)
    BY <1>1, <1>i, <2>1, PrefixOfFront
  <2> QED
    BY <1>1, <2>1, <2>2 DEF InPlace
<1>2. ASSUME InPlace(v) # {}
      PROVE  \E p \in Instances(v) : p # <<>> /\ v[Front(p)] = List
  <2> DEFINE W == {Len(p) : p \in InPlace(v)}
  <2>1. W \in SUBSET Nat /\ W # {}
    <3>1. \A r \in InPlace(v) : Len(r) \in Nat
      BY <1>i DEF InPlace
    <3> QED
      BY <1>2, <3>1
  <2>2. PICK m \in W : \A k \in W : m <= k
    <3> HIDE DEF W
    <3> QED
      BY <2>1, LeastNumber
  <2>3. PICK p \in InPlace(v) : \A r \in InPlace(v) : Len(p) <= Len(r)
    BY <2>2
  <2>4. PICK q \in DOMAIN v : IsStrictPrefix(q, p) /\ v[q] = List
    BY <2>3 DEF InPlace
  <2>5. p \in Instances(v) /\ p \in DOMAIN v /\ p \in Seq(Indexes) /\ q \in Seq(Indexes)
    BY <2>3, <2>4, <1>i, TreeFacts DEF InPlace
  <2>6. p # <<>>
    <3>1. Len(q) < Len(p) /\ Len(q) \in Nat
      BY <2>4, <2>5, PrefixFacts
    <3> QED
      BY <3>1
  <2>7. Front(p) \in DOMAIN v /\ Front(p) \in Seq(Indexes) /\ v[Front(p)] \in Tables
    BY <2>5, <2>6, TreeFacts
  <2>8. ASSUME v[Front(p)] # List PROVE FALSE
    <3>1. Front(p) \in Instances(v)
      BY <2>7, <2>8 DEF Tables, Instances, CodedIn
    <3>2. IsStrictPrefix(q, Front(p))
      BY <2>4, <2>5, <2>6, <2>8, PrefixOfFront
    <3>3. Front(p) \in InPlace(v)
      BY <2>4, <3>1, <3>2 DEF InPlace
    <3>4. Len(Front(p)) = Len(p) - 1 /\ Len(p) \in Nat
      BY <2>5, <2>6, FrontFacts
    <3> QED
      BY <2>3, <3>3, <3>4
  <2> QED
    BY <2>5, <2>6, <2>8
<1> QED
  BY <1>1, <1>2

-----------------------------------------------------------------------------
(* What Serialize leaves of the program's value. *)

LEMMA AfterFacts ==
  ASSUME NEW v, IsTree(v)
  PROVE  /\ IsTree(After(v))
         /\ serializeInternal(After(v)) = serializeInternal(v)
         /\ After(After(v)) = After(v)
         /\ After(v) = v <=> InPlace(v) = {}
<1> DEFINE S == InPlace(v)
<1>1. S \in SUBSET Instances(v) /\ After(v) = Encode(v, S)
  BY DEF InPlace, After
<1>2. IsTree(After(v)) /\ serializeInternal(After(v)) = serializeInternal(v)
  BY <1>1, EncodeTree, EncodeTwice
<1>3. InPlace(After(v)) = {}
  <2> SUFFICES ASSUME NEW p \in InPlace(After(v)) PROVE FALSE
    OBVIOUS
  <2>1. p \in Instances(v) /\ p \notin S
    BY <1>1, EncodeKinds DEF InPlace
  <2>2. PICK q \in DOMAIN After(v) : IsStrictPrefix(q, p) /\ After(v)[q] = List
    BY DEF InPlace
  <2>3. q \in DOMAIN v /\ v[q] = List
    BY <1>1, <2>2, EncodeFacts, EncodeKinds
  <2> QED
    BY <2>1, <2>2, <2>3 DEF InPlace
<1>4. After(After(v)) = After(v)
  BY <1>2, <1>3, EncodeNothing DEF After
<1>5. ASSUME NEW p \in S PROVE After(v) # v
  <2>1. PICK c \in Classes : v[p] = Instance(c) /\ After(v)[p] = Coded(c)
    BY <1>1, <1>5, EncodeFacts
  <2> QED
    BY <2>1, KindFacts
<1>6. S = {} => After(v) = v
  BY <1>1, EncodeNothing
<1> QED
  BY <1>2, <1>4, <1>5, <1>6

-----------------------------------------------------------------------------
(* What Deserialize reads. *)

LEMMA LengthsFacts ==
  ASSUME NEW w, IsTree(w), NEW lengths \in Lengths(w)
  PROVE  /\ DOMAIN lengths = Holey(w) /\ Holey(w) \subseteq CodedIn(w)
         /\ \A q \in DOMAIN lengths : q \in Seq(Indexes) /\ lengths[q] \in Nat
<1>1. lengths \in [Holey(w) -> Indices(w)]
  BY DEF Lengths
<1>2. Holey(w) \subseteq CodedIn(w) /\ CodedIn(w) \subseteq DOMAIN w
  BY DEF Holey, CodedIn
<1>3. Indices(w) \subseteq Nat
  BY TreeFacts DEF Indices, Indexes
<1> QED
  BY <1>1, <1>2, <1>3, TreeFacts

\* Whatever lengths are found, what is read is a tree, and all is decoded in it.
LEMMA DecodeTree ==
  ASSUME NEW w, IsTree(w), NEW lengths \in Lengths(w)
  PROVE  /\ IsTree(deserializeInternal(w, lengths))
         /\ CodedIn(deserializeInternal(w, lengths)) = {}
<1> DEFINE D == deserializeInternal(w, lengths)
           K == Arguments(w, lengths)
<1>1. /\ DOMAIN D = K /\ D = [p \in K |-> D[p]] /\ K \subseteq DOMAIN w
      /\ \A p \in K : D[p] = IF p \in CodedIn(w) THEN Instance(w[p].class) ELSE Unmarked(w, p)
  BY DEF deserializeInternal, Arguments
<1>2. ASSUME NEW p \in K, p \in CodedIn(w)
      PROVE  \E c \in Classes : w[p] = Coded(c) /\ D[p] = Instance(c)
  <2>1. PICK c \in Classes : w[p] = Coded(c)
    BY <1>2 DEF CodedIn
  <2> QED
    BY <1>1, <1>2, <2>1, KindFacts
<1>3. ASSUME NEW p \in K, p \notin CodedIn(w)
      PROVE  /\ D[p] = w[p] \/ (D[p] = Nil /\ w[p] = Mark)
             /\ ~EntryOf(p, CodedIn(w)) => D[p] = w[p]
  BY <1>1, <1>3 DEF Unmarked
<1>k. \A p : p \in K <=> p \in DOMAIN w /\ \A q \in DOMAIN lengths : IsStrictPrefix(q, p) => p[Len(q) + 1] <= lengths[q]
  BY DEF Arguments
<1>l. \A q \in DOMAIN lengths : q \in Seq(Indexes) /\ lengths[q] \in Nat /\ Len(q) \in Nat
  BY LengthsFacts
<1> HIDE DEF D, K
<1>4. D \in [DOMAIN D -> Leaves \cup Tables]
  <2>1. \A p \in K : D[p] \in Leaves \cup Tables
    BY <1>1, <1>2, <1>3, TreeFacts, KindFacts
  <2> QED
    BY <1>1, <2>1
<1>5. <<>> \in DOMAIN D
  <2>1. ASSUME NEW q \in DOMAIN lengths PROVE ~IsStrictPrefix(q, <<>>)
    <3>1. <<>> \in Seq(Indexes) /\ ~(Len(q) < Len(<<>>))
      BY <1>l
    <3> QED
      BY <1>l, <3>1, PrefixFacts
  <2> QED
    BY <1>1, <1>k, <2>1, TreeFacts
<1>6. \A p \in DOMAIN D : p \in Seq(Nat \ {0})
  BY <1>1, TreeFacts DEF Indexes
<1>7. ASSUME NEW p \in DOMAIN D, p # <<>>
      PROVE  /\ Front(p) \in DOMAIN D /\ D[Front(p)] \in Tables
             /\ D[Front(p)] = List => D[p] # Nil
             /\ Last(p) > 1 => Append(Front(p), Last(p) - 1) \in DOMAIN D
  <2>1. /\ p \in DOMAIN w /\ p \in Seq(Indexes) /\ Front(p) \in DOMAIN w /\ w[Front(p)] \in Tables
        /\ Front(p) \in Seq(Indexes) /\ Last(p) \in Indexes /\ Last(p) \in Nat
        /\ w[Front(p)] = List => w[p] # Nil
        /\ Last(p) > 1 => Append(Front(p), Last(p) - 1) \in DOMAIN w
        /\ Len(Front(p)) = Len(p) - 1 /\ Len(p) \in Nat /\ Last(p) = p[Len(p)]
        /\ \A k \in 1 .. Len(p) - 1 : Front(p)[k] = p[k]
    BY <1>1, <1>7, TreeFacts, FrontFacts DEF Indexes, Last
  <2>2. ASSUME NEW q \in DOMAIN lengths, IsStrictPrefix(q, Front(p))
        PROVE  IsStrictPrefix(q, p) /\ Len(q) + 1 <= Len(p) - 1 /\ Front(p)[Len(q) + 1] = p[Len(q) + 1]
    <3>1. IsStrictPrefix(q, p)
      BY <1>7, <1>l, <2>1, <2>2, PrefixOfFront
    <3>2. Len(q) < Len(p) - 1
      BY <1>l, <2>1, <2>2, PrefixFacts
    <3> QED
      BY <1>l, <2>1, <3>1, <3>2
  <2>3. Front(p) \in K
    BY <1>1, <1>k, <2>1, <2>2
  <2>4. D[Front(p)] \in Tables
    BY <1>2, <1>3, <2>1, <2>3, KindFacts
  <2>5. D[Front(p)] = List => D[p] # Nil
    <3> SUFFICES ASSUME D[Front(p)] = List PROVE D[p] # Nil
      OBVIOUS
    <3>1. Front(p) \notin CodedIn(w) /\ w[Front(p)] = List
      BY <1>2, <1>3, <2>3, KindFacts
    <3>2. w[p] # Nil /\ ~EntryOf(p, CodedIn(w))
      BY <2>1, <3>1 DEF EntryOf
    <3> QED
      BY <1>1, <1>2, <1>3, <3>2, KindFacts
  <2>6. ASSUME Last(p) > 1
        PROVE  Append(Front(p), Last(p) - 1) \in K
    <3> DEFINE r == Append(Front(p), Last(p) - 1)
    <3>1. r \in DOMAIN w /\ Last(p) - 1 \in Indexes
      BY <2>1, <2>6 DEF Indexes
    <3>2. /\ r \in Seq(Indexes) /\ r # <<>> /\ Front(r) = Front(p) /\ Last(r) = Last(p) - 1
          /\ \A k \in 1 .. Len(p) - 1 : r[k] = Front(p)[k]
          /\ r[Len(p)] = Last(p) - 1
      <4>1. r \in Seq(Indexes) /\ r # <<>> /\ Front(r) = Front(p) /\ Last(r) = Last(p) - 1
        BY <2>1, <3>1, AppendFacts
      <4>2. \A k \in 1 .. Len(p) - 1 : r[k] = Front(p)[k]
        BY <2>1, <3>1
      <4>3. r[Len(p)] = Last(p) - 1
        BY <2>1, <3>1
      <4> QED
        BY <4>1, <4>2, <4>3
    <3> HIDE DEF r
    <3>3. ASSUME NEW q \in DOMAIN lengths, IsStrictPrefix(q, r)
          PROVE  r[Len(q) + 1] <= lengths[q]
      <4>1. q = Front(p) \/ IsStrictPrefix(q, Front(p))
        BY <1>l, <3>2, <3>3, PrefixOfFront
      <4>2. CASE q = Front(p)
        <5>1. IsStrictPrefix(q, p)
          BY <1>7, <1>l, <2>1, <4>2, PrefixOfFront
        <5>2. p[Len(q) + 1] <= lengths[q] /\ Len(q) + 1 = Len(p)
          BY <1>1, <1>7, <1>k, <2>1, <4>2, <5>1
        <5> QED
          BY <1>l, <2>1, <3>2, <5>2
      <4>3. CASE IsStrictPrefix(q, Front(p))
        <5>1. IsStrictPrefix(q, p) /\ Len(q) + 1 <= Len(p) - 1 /\ Front(p)[Len(q) + 1] = p[Len(q) + 1]
          BY <2>2, <4>3
        <5>2. p[Len(q) + 1] <= lengths[q]
          BY <1>1, <1>7, <1>k, <5>1
        <5>3. r[Len(q) + 1] = Front(p)[Len(q) + 1]
          BY <1>l, <2>1, <3>2, <5>1
        <5> QED
          BY <5>1, <5>2, <5>3
      <4> QED
        BY <4>1, <4>2, <4>3
    <3>4. r \in K
      BY <1>k, <3>1, <3>3
    <3> QED
      BY <3>4 DEF r
  <2> QED
    BY <1>1, <2>3, <2>4, <2>5, <2>6
<1>8. IsTree(D)
  BY <1>4, <1>5, <1>6, <1>7 DEF IsTree
<1>9. CodedIn(D) = {}
  <2> SUFFICES ASSUME NEW p \in K, NEW c \in Classes, D[p] = Coded(c) PROVE FALSE
    BY <1>1 DEF CodedIn
  <2>1. p \notin CodedIn(w)
    BY <1>2, KindFacts
  <2>2. w[p] = Coded(c)
    BY <1>3, <2>1, KindFacts
  <2> QED
    BY <1>1, <2>1, <2>2 DEF CodedIn
<1> QED
  BY <1>8, <1>9 DEF D

\* The arguments of an instance that fills its array end where its size says.
LEMMA FilledIsFull ==
  ASSUME NEW v, IsTree(v), Safe(v), NEW p \in Instances(v), Fills(v, p)
  PROVE  IsFull(serializeInternal(v), p)
<1> DEFINE T == Instances(v)
           w == serializeInternal(v)
<1>1. DOMAIN w = Given(v, T) /\ Given(v, T) \subseteq DOMAIN v
  BY EncodeFacts, GivenFacts DEF serializeInternal
<1>2. \A r \in Given(v, T) : (\E c \in Classes : w[r] = Coded(c)) \/ (v[r] = Nil /\ w[r] = Mark) \/ w[r] = v[r]
  BY EncodeFacts DEF serializeInternal
<1>3. PICK n \in Full : Append(p, n) \in Given(v, T) /\ Append(p, n + 1) \notin Given(v, T)
  BY DEF Fills
<1>4. n \in Indexes /\ n + 1 \in Indexes /\ n \in Nat /\ p \in Seq(Indexes)
  BY TreeFacts DEF Full, Indexes, Instances
<1>5. /\ Append(p, n) # <<>> /\ Front(Append(p, n)) = p /\ Last(Append(p, n)) = n
      /\ Append(p, n + 1) # <<>> /\ Front(Append(p, n + 1)) = p /\ Last(Append(p, n + 1)) = n + 1
  BY <1>4, AppendFacts
<1>6. EntryOf(Append(p, n), T) /\ EntryOf(Append(p, n + 1), T)
  BY <1>5 DEF EntryOf
<1>7. v[Append(p, n)] # Nil
  <2> SUFFICES ASSUME v[Append(p, n)] = Nil PROVE FALSE
    OBVIOUS
  <2>1. ~Trailing(v, Append(p, n))
    BY <1>3, <1>6 DEF Given
  <2>2. PICK q \in DOMAIN v : q # <<>> /\ Front(q) = p /\ Last(q) >= n /\ v[q] # Nil
    BY <1>5, <2>1 DEF Trailing
  <2>3. q \in Seq(Indexes) /\ q = Append(p, Last(q)) /\ Last(q) \in Indexes /\ Last(q) \in Nat
    BY <2>2, TreeFacts, FrontFacts DEF Indexes
  <2>4. Last(q) # n
    BY <2>2, <2>3
  <2>5. Last(q) >= n + 1
    BY <1>4, <2>2, <2>3, <2>4
  <2>6. Append(p, n + 1) \in DOMAIN v
    <3> SUFFICES ASSUME Append(p, n + 1) \notin DOMAIN v PROVE FALSE
      OBVIOUS
    <3>1. Last(q) < n + 1
      BY <1>4, <2>2, <2>3, NoGap
    <3> QED
      BY <1>4, <2>3, <2>5, <3>1
  <2>7. Trailing(v, Append(p, n + 1))
    BY <1>3, <1>6, <2>6 DEF Given
  <2> QED
    BY <1>5, <2>2, <2>5, <2>7 DEF Trailing
<1>8. v[Append(p, n)] # Mark
  BY <1>3, <1>6 DEF Safe
<1>9. w[Append(p, n)] # Mark
  BY <1>2, <1>3, <1>7, <1>8, KindFacts
<1> HIDE DEF w
<1>10. IsFull(w, p)
  BY <1>1, <1>3, <1>9 DEF IsFull
<1> QED
  BY <1>10 DEF w

\* Decoding what was coded: of a safe value no array is read short, and nil is
\* where nil was.
LEMMA DecodeEncoded ==
  ASSUME NEW v, IsTree(v), CodedIn(v) = {}, Safe(v), NEW lengths \in Lengths(serializeInternal(v))
  PROVE  deserializeInternal(serializeInternal(v), lengths) = Trimmed(v)
<1> DEFINE T == Instances(v)
           w == serializeInternal(v)
           D == deserializeInternal(w, lengths)
<1>1. /\ DOMAIN w = Given(v, T) /\ Given(v, T) \subseteq DOMAIN v /\ IsTree(w) /\ CodedIn(w) = T
      /\ \A p \in T : p \in Given(v, T) /\ \E c \in Classes : v[p] = Instance(c) /\ w[p] = Coded(c)
      /\ \A p \in Given(v, T) : p \notin T /\ EntryOf(p, T) /\ v[p] = Nil => w[p] = Mark
      /\ \A p \in Given(v, T) : p \notin T /\ ~(EntryOf(p, T) /\ v[p] = Nil) => w[p] = v[p]
  <2>1. T \in SUBSET Instances(v) /\ w = Encode(v, T)
    BY DEF serializeInternal
  <2> HIDE DEF w, T
  <2>2. DOMAIN w = Given(v, T) /\ Given(v, T) \subseteq DOMAIN v
    BY <2>1, EncodeFacts, GivenFacts
  <2>3. IsTree(w)
    BY <2>1, EncodeTree
  <2>4. CodedIn(w) = T
    BY <2>1, EncodeKinds
  <2>5. \A p \in T : p \in Given(v, T) /\ \E c \in Classes : v[p] = Instance(c) /\ w[p] = Coded(c)
    BY <2>1, EncodeFacts
  <2>6. \A p \in Given(v, T) : p \notin T /\ EntryOf(p, T) /\ v[p] = Nil => w[p] = Mark
    BY <2>1, EncodeFacts
  <2>7. \A p \in Given(v, T) : p \notin T /\ ~(EntryOf(p, T) /\ v[p] = Nil) => w[p] = v[p]
    BY <2>1, EncodeFacts
  <2> QED
    BY <2>2, <2>3, <2>4, <2>5, <2>6, <2>7
<1>2. \A p \in Given(v, T) : EntryOf(p, T) => v[p] # Mark /\ (v[p] = Nil => Fills(v, Front(p)))
  BY DEF Safe
<1>3. Holey(w) = {}
  <2> SUFFICES ASSUME NEW p \in Holey(w) PROVE FALSE
    OBVIOUS
  <2>1. p \in T /\ ~IsFull(w, p)
    BY <1>1 DEF Holey
  <2>2. PICK q \in DOMAIN w : q # <<>> /\ Front(q) = p /\ w[q] = Mark
    BY DEF Holey, EntryOf
  <2>3. EntryOf(q, T) /\ q \in Given(v, T)
    BY <1>1, <2>1, <2>2 DEF EntryOf
  <2>4. v[q] = Nil
    BY <1>1, <1>2, <2>2, <2>3, KindFacts
  <2>5. Fills(v, p)
    BY <1>2, <2>2, <2>3, <2>4
  <2> QED
    BY <2>1, <2>5, FilledIsFull
<1>4. DOMAIN lengths = {}
  BY <1>1, <1>3, LengthsFacts
<1>5. Arguments(w, lengths) = Given(v, T)
  BY <1>1, <1>4 DEF Arguments
<1>6. D = [p \in Given(v, T) |-> IF p \in T THEN Instance(w[p].class) ELSE Unmarked(w, p)]
  BY <1>1, <1>5 DEF deserializeInternal
<1> HIDE DEF w, D, T
<1>7. ASSUME NEW p \in Given(v, T)
      PROVE  (IF p \in T THEN Instance(w[p].class) ELSE Unmarked(w, p)) = v[p]
  <2>1. CASE p \in T
    <3>1. PICK c \in Classes : v[p] = Instance(c) /\ w[p] = Coded(c)
      BY <1>1, <2>1
    <3> QED
      BY <2>1, <3>1, KindFacts
  <2>2. CASE p \notin T
    BY <1>1, <1>2, <2>2, KindFacts DEF Unmarked
  <2> QED
    BY <2>1, <2>2
<1>8. D = [p \in Given(v, T) |-> v[p]]
  BY <1>6, <1>7
<1> QED
  BY <1>8 DEF Trimmed, T, D, w

-----------------------------------------------------------------------------
(* The serializer. *)

\* Everything is what it became from the value before the first Serialize.
Inv ==
  /\ typeInfos \subseteq Classes
  /\ IsTree(first) /\ CodedIn(first) = {}
  /\ \/ object = first /\ wire = None /\ read = None
     \/ /\ object = After(first) /\ wire = serializeInternal(first)
        /\ read = None \/ \E lengths \in Lengths(wire) : read = deserializeInternal(wire, lengths)

LEMMA TreeIsSome == ASSUME NEW v, IsTree(v) PROVE v # None
BY DEF IsTree, None

LEMMA InvInit == Init => Inv
BY ObjectsAssumption DEF Init, Inv

LEMMA InvStep == Inv /\ [Next]_vars => Inv'
<1> SUFFICES ASSUME Inv, [Next]_vars PROVE Inv'
  OBVIOUS
<1>1. ASSUME NEW c \in Classes, AddTypeInfo(c) PROVE Inv'
  BY <1>1 DEF AddTypeInfo, Inv
<1>2. CASE AddTypesFromStatic
  BY <1>2, StaticAssumption DEF AddTypesFromStatic, Inv
<1>3. CASE Serialize
  <2>1. object = first \/ object = After(first)
    BY DEF Inv
  <2>2. serializeInternal(object) = serializeInternal(first) /\ After(object) = After(first)
    BY <2>1, AfterFacts DEF Inv
  <2>3. wire' = serializeInternal(first) /\ object' = After(first) /\ UNCHANGED <<typeInfos, read, first>>
    BY <1>3, <2>2 DEF Serialize
  <2>4. read = None \/ \E lengths \in Lengths(serializeInternal(first)) :
                          read = deserializeInternal(serializeInternal(first), lengths)
    BY DEF Inv
  <2> QED
    BY <2>3, <2>4 DEF Inv
<1>4. CASE Deserialize
  <2>1. wire # None /\ UNCHANGED <<typeInfos, object, wire, first>>
    BY <1>4 DEF Deserialize
  <2>2. \E lengths \in Lengths(wire) : read' = deserializeInternal(wire, lengths)
    BY <1>4 DEF Deserialize
  <2> QED
    BY <2>1, <2>2 DEF Inv
<1>5. CASE UNCHANGED vars
  BY <1>5 DEF vars, Inv
<1> QED
  BY <1>1, <1>2, <1>3, <1>4, <1>5 DEF Next

\* What was written or read is a tree.
LEMMA InvFacts ==
  ASSUME Inv
  PROVE  /\ wire # None => wire = serializeInternal(first) /\ object = After(first) /\ IsTree(wire)
         /\ read # None => \E lengths \in Lengths(wire) :
                             wire = serializeInternal(first) /\ read = deserializeInternal(wire, lengths)
<1>1. Instances(first) \in SUBSET Instances(first) /\ serializeInternal(first) = Encode(first, Instances(first))
  BY DEF serializeInternal
<1>2. IsTree(serializeInternal(first))
  BY <1>1, EncodeTree DEF Inv
<1> QED
  BY <1>2 DEF Inv

\* JsonSerializer.lua: the invariant holds in every behaviour.
THEOREM Invariance == Spec => []Inv
BY InvInit, InvStep, PTL DEF Spec

\* What is written holds no instance and no nil in a table, what is read no
\* coded instance, whatever the values.
THEOREM TypeCorrect == Spec => []TypeOK
<1>1. Inv => TypeOK
  <2> SUFFICES ASSUME Inv PROVE TypeOK
    OBVIOUS
  <2> DEFINE T == Instances(first)
  <2>1. typeInfos \subseteq Classes /\ IsTree(first) /\ CodedIn(first) = {}
    BY DEF Inv
  <2>2. IsTree(object)
    BY <2>1, AfterFacts DEF Inv
  <2>3. ASSUME wire # None
        PROVE  IsTree(wire) /\ Instances(wire) = {} /\ \A p \in DOMAIN wire \ {<<>>} : wire[p] # Nil
    <3>1. IsTree(wire) /\ wire = Encode(first, T)
      BY <2>3, InvFacts DEF serializeInternal
    <3>2. Instances(wire) = {}
      BY <2>1, <3>1, EncodeKinds
    <3>3. ASSUME NEW p \in DOMAIN wire, p # <<>> PROVE wire[p] # Nil
      <4>1. p \in Given(first, T) /\ p \in DOMAIN first
        BY <2>1, <3>1, EncodeFacts, GivenFacts
      <4>2. CASE p \in T
        BY <2>1, <3>1, <4>2, EncodeFacts, KindFacts
      <4>3. CASE p \notin T /\ EntryOf(p, T)
        BY <2>1, <3>1, <4>1, <4>3, EncodeFacts, KindFacts
      <4>4. CASE p \notin T /\ ~EntryOf(p, T)
        <5>1. Front(p) \in DOMAIN first /\ first[Front(p)] \in Tables /\ Front(p) \notin T
          BY <2>1, <3>3, <4>1, <4>4, TreeFacts DEF EntryOf
        <5>2. first[Front(p)] = List
          BY <2>1, <5>1 DEF Tables, Instances, CodedIn
        <5>3. first[p] # Nil
          BY <2>1, <3>3, <4>1, <5>2, TreeFacts
        <5> QED
          BY <2>1, <3>1, <4>1, <4>4, <5>3, EncodeFacts
      <4> QED
        BY <4>2, <4>3, <4>4
    <3> QED
      BY <3>1, <3>2, <3>3
  <2>4. read # None => IsTree(read) /\ CodedIn(read) = {}
    <3> SUFFICES ASSUME read # None PROVE IsTree(read) /\ CodedIn(read) = {}
      OBVIOUS
    <3>1. PICK lengths \in Lengths(wire) : wire = serializeInternal(first) /\ read = deserializeInternal(wire, lengths)
      BY InvFacts
    <3>2. IsTree(wire)
      BY <2>1, <3>1, EncodeTree DEF serializeInternal
    <3> QED
      BY <3>1, <3>2, DecodeTree
  <2> QED
    BY <2>1, <2>2, <2>3, <2>4 DEF TypeOK
<1> QED
  BY <1>1, Invariance, PTL

\* A safe value comes back as it was, however wide or deep, and however often it
\* was written before (JsonSerializer.lua:76-104 against :158-186).
THEOREM RoundTripCorrect == Spec => []RoundTrip
<1>1. Inv => RoundTrip
  <2> SUFFICES ASSUME Inv, read # None, Safe(first) PROVE read = Trimmed(first)
    BY DEF RoundTrip
  <2> QED
    BY InvFacts, DecodeEncoded DEF Inv
<1> QED
  BY <1>1, Invariance, PTL

\* Serialize changes the program's value exactly where a plain table in it holds
\* an instance (JsonSerializer.lua:125-129).
THEOREM ChangedInPlaceCorrect == Spec => []ChangedInPlace
<1>1. Inv => ChangedInPlace
  <2> SUFFICES ASSUME Inv, wire # None
               PROVE  object # first <=> \E p \in Instances(first) : p # <<>> /\ first[Front(p)] = List
    BY DEF ChangedInPlace
  <2>1. object = After(first) /\ IsTree(first) /\ CodedIn(first) = {}
    BY InvFacts DEF Inv
  <2> QED
    BY <2>1, AfterFacts, FirstInPlace
<1> QED
  BY <1>1, Invariance, PTL

\* Every later Serialize gives what the first one gave.
THEOREM WireIsStableCorrect == Spec => WireIsStable
<1>1. Inv /\ [Next]_vars => (wire # None => wire' = wire) \/ UNCHANGED vars
  <2> SUFFICES ASSUME Inv, Next, wire # None PROVE wire' = wire
    OBVIOUS
  <2>1. CASE Serialize
    <3>1. wire = serializeInternal(first) /\ object = After(first)
      BY InvFacts
    <3>2. serializeInternal(object) = serializeInternal(first)
      BY <3>1, AfterFacts DEF Inv
    <3> QED
      BY <2>1, <3>1, <3>2 DEF Serialize
  <2>2. CASE ~Serialize
    BY <2>2 DEF Next, AddTypeInfo, AddTypesFromStatic, Deserialize
  <2> QED
    BY <2>1, <2>2
<1> QED
  BY <1>1, Invariance, PTL DEF Spec, WireIsStable
=============================================================================

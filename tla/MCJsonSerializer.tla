-------------------------- MODULE MCJsonSerializer --------------------------
(* Small instances of JsonSerializer for TLC. *)
EXTENDS JsonSerializer

CONSTANTS a, c, d

MCAtoms == {a}
MCClasses == {c, d}
MCStatic == {c}

\* The tree of a leaf, and that of a table with these trees in it.
Leaf(x) == [p \in {<<>>} |-> x]

Table(label, trees) ==
  [p \in {<<>>} \cup UNION {{<<i>> \o q : q \in DOMAIN trees[i]} : i \in DOMAIN trees} |->
     IF p = <<>> THEN label ELSE trees[Head(p)][Tail(p)]]

Upto(n, S) == UNION {[1 .. m -> S] : m \in 0 .. n}

A == Leaf(a)
M == Leaf(Mark)
N == Leaf(Nil)

\* Classes of up to six fields, nil and "%nil%" anywhere.
Flat == {Table(Instance(c), fs) : fs \in Upto(4, {A, M, N}) \cup Upto(6, {A, N})}

Inner == {A, Table(Instance(c), <<A>>), Table(Instance(d), <<A, N, A>>), Table(Instance(c), <<N, A>>),
          Table(List, <<>>), Table(List, <<M>>), Table(List, <<A, Table(Instance(d), <<>>)>>)}

\* Instances and lists in each other.
Deep == {Table(List, s) : s \in Upto(2, Inner)} \cup {Table(Instance(d), fs) : fs \in Upto(2, Inner \cup {N})}

\* One level deeper.
Deeper == {Table(List, <<v>>) : v \in Deep} \cup {Table(Instance(d), <<N, v>>) : v \in Deep}

MCObjects == {A, N} \cup Flat \cup Deep \cup Deeper
=============================================================================

---------------------------- MODULE Catalog_proofs ----------------------------
(***************************************************************************)
(* Theorems about ingredients while requests overlap, for any ingredients,  *)
(* tables, requests and names: what a cached entry that is out of date and  *)
(* a cycle in the table take.                                               *)
(***************************************************************************)
EXTENDS Catalog, FiniteSetTheorems, SequenceTheorems, WellFoundedInduction, TLAPS

N == Len(Order)

LEMMA IdsFacts ==
  /\ N \in Nat /\ Null \notin Ids
  /\ \A i \in Ids : \E k \in 1..N : Order[k] = i
  /\ \A k \in 1..N : Order[k] \in Ids
BY OrderAssumption DEF N, Ids, Range

\* A set of naturals that has 0, and with a number the next one, has them all.
LEMMA NatClosed ==
  ASSUME NEW A, 0 \in A, \A n \in Nat : n \in A => n + 1 \in A
  PROVE  Nat \subseteq A
<1> SUFFICES ASSUME Nat \ A # {} PROVE FALSE
  OBVIOUS
<1>1. PICK n \in Nat \ A : \A m \in Nat \ A : ~ (<<m, n>> \in OpToRel(<, Nat))
  BY NatLessThanWellFounded, WFMin, Nat \ A \subseteq Nat
<1>2. n # 0 /\ n - 1 \in Nat /\ n - 1 < n /\ (n - 1) + 1 = n
  OBVIOUS
<1>3. <<n - 1, n>> \in OpToRel(<, Nat)
  BY <1>2 DEF OpToRel
<1>4. n - 1 \in A
  BY <1>1, <1>2, <1>3
<1>5. QED
  BY <1>2, <1>4

-----------------------------------------------------------------------------
(* Parents of parents.  Above is a recursive function of the number of      *)
(* steps; what is used of it are the lemmas Paths, PathsGrow and           *)
(* PathsWithin.                                                             *)

Links(t) == {<<i, t[i].parent>> : i \in {k \in Present(t) : t[k].parent # Null}}
Longer(S, t) == Links(t) \cup {<<z[1][1], z[2][2]>> : z \in {w \in S \X Links(t) : w[1][2] = w[2][1]}}
\* u holds the pairs that are up to n steps apart, for every n up to m.
Ups(t, m, u) == u = [n \in 1..m |-> IF n = 1 THEN Links(t) ELSE Longer(u[n - 1], t)]
Up(t) == CHOOSE u : Ups(t, N, u)

LEMMA ParentIs ==
  ASSUME NEW t, NEW i \in Ids
  PROVE  ParentsOf(t)[i] = IF t[i] = Null THEN Null ELSE t[i].parent
BY DEF ParentsOf

LEMMA AboveUp == \A t : Above(t) = Up(t)[N]
BY DEF Above, Up, Ups, N, Links, Longer

LEMMA UpsExist ==
  ASSUME NEW t
  PROVE  Ups(t, N, Up(t))
<1> DEFINE A == {m \in Nat : \E u : Ups(t, m, u)}
<1>1. 0 \in A
  <2> DEFINE u == [n \in 1..0 |-> Null]
  <2>1. u = [n \in 1..0 |-> IF n = 1 THEN Links(t) ELSE Longer(u[n - 1], t)]
    OBVIOUS
  <2> QED
    BY <2>1 DEF Ups
<1>2. ASSUME NEW m \in Nat, m \in A PROVE m + 1 \in A
  <2>1. PICK u : Ups(t, m, u)
    BY <1>2
  <2> DEFINE v == [n \in 1..m + 1 |-> IF n = 1 THEN Links(t) ELSE Longer(u[n - 1], t)]
  <2>2. ASSUME NEW n \in 2..m + 1 PROVE v[n - 1] = u[n - 1]
    <3>1. n - 1 \in 1..m /\ n - 1 \in 1..m + 1
      BY <2>2
    <3>2. u[n - 1] = IF n - 1 = 1 THEN Links(t) ELSE Longer(u[(n - 1) - 1], t)
      BY <2>1, <3>1 DEF Ups
    <3> QED
      BY <3>1, <3>2
  <2>3. v = [n \in 1..m + 1 |-> IF n = 1 THEN Links(t) ELSE Longer(v[n - 1], t)]
    <3>1. \A n \in 1..m + 1 : n # 1 => n \in 2..m + 1
      OBVIOUS
    <3> HIDE DEF v
    <3>2. v = [n \in 1..m + 1 |-> IF n = 1 THEN Links(t) ELSE Longer(u[n - 1], t)]
      BY DEF v
    <3> QED
      BY <2>2, <3>1, <3>2
  <2> HIDE DEF v
  <2> QED
    BY <2>3 DEF Ups
<1>3. N \in A
  <2> HIDE DEF A
  <2> QED
    BY <1>1, <1>2, NatClosed, IdsFacts
<1>4. QED
  BY <1>3 DEF Up

LEMMA Paths ==
  ASSUME NEW t, NEW n \in 1..N
  PROVE  Up(t)[n] = IF n = 1 THEN Links(t) ELSE Longer(Up(t)[n - 1], t)
<1> DEFINE u == Up(t)
<1>1. Ups(t, N, u)
  BY UpsExist
<1> HIDE DEF u
<1>2. u[n] = IF n = 1 THEN Links(t) ELSE Longer(u[n - 1], t)
  BY <1>1 DEF Ups
<1>3. QED
  BY <1>2 DEF u

\* One step more.
LEMMA LongerBy ==
  ASSUME NEW S, NEW t, NEW x, NEW y, NEW z, <<x, y>> \in S, <<y, z>> \in Links(t)
  PROVE  <<x, z>> \in Longer(S, t)
<1> DEFINE w == <<<<x, y>>, <<y, z>>>>
<1>1. w \in {v \in S \X Links(t) : v[1][2] = v[2][1]}
  OBVIOUS
<1>2. QED
  BY <1>1 DEF Longer

LEMMA LongerOnly ==
  ASSUME NEW S, NEW t, NEW p \in Longer(S, t),
         \A q \in S : q = <<q[1], q[2]>>
  PROVE  \/ p \in Links(t)
         \/ \E x, y, z : p = <<x, z>> /\ <<x, y>> \in S /\ <<y, z>> \in Links(t)
<1> SUFFICES ASSUME p \notin Links(t)
             PROVE  \E x, y, z : p = <<x, z>> /\ <<x, y>> \in S /\ <<y, z>> \in Links(t)
  OBVIOUS
<1>1. PICK w \in {v \in S \X Links(t) : v[1][2] = v[2][1]} : p = <<w[1][1], w[2][2]>>
  BY DEF Longer
<1>2. w[1] \in S /\ w[2] \in Links(t) /\ w[1][2] = w[2][1]
  BY <1>1
<1>3. w[1] = <<w[1][1], w[1][2]>> /\ w[2] = <<w[2][1], w[2][2]>>
  BY <1>2 DEF Links
<1>4. p = <<w[1][1], w[2][2]>> /\ <<w[1][1], w[1][2]>> \in S /\ <<w[1][2], w[2][2]>> \in Links(t)
  BY <1>1, <1>2, <1>3
<1>5. QED
  BY <1>4

\* A family of sets of pairs that has the links at every length, and with a
\* pair the ones a link further, has all there is above.
LEMMA PathsWithin ==
  ASSUME NEW t, NEW Q, \A n \in 1..N : Links(t) \subseteq Q[n],
         \A n \in 2..N : \A x, y, z :
           (<<x, y>> \in Q[n - 1] /\ <<x, y>> \in Up(t)[n - 1] /\ <<y, z>> \in Links(t)) => <<x, z>> \in Q[n]
  PROVE  \A n \in 1..N : Up(t)[n] \subseteq Q[n] /\ \A p \in Up(t)[n] : p = <<p[1], p[2]>>
<1> DEFINE Good(n) == Up(t)[n] \subseteq Q[n] /\ \A p \in Up(t)[n] : p = <<p[1], p[2]>>
           A == {n \in Nat : n + 1 \in 1..N => Good(n + 1)}
<1>1. \A p \in Links(t) : p = <<p[1], p[2]>>
  BY DEF Links
<1>2. 0 \in A
  BY <1>1, Paths
<1>3. ASSUME NEW n \in Nat, n \in A PROVE n + 1 \in A
  <2> SUFFICES ASSUME n + 2 \in 1..N PROVE Good(n + 2)
    OBVIOUS
  <2>1. n + 1 \in 1..N /\ n + 2 \in 2..N /\ n + 2 # 1 /\ (n + 2) - 1 = n + 1 /\ Good(n + 1)
    BY <1>3, IdsFacts
  <2> DEFINE S == Up(t)[n + 1]
  <2>2. Up(t)[n + 2] = Longer(S, t)
    BY <2>1, Paths
  <2>3. S \subseteq Q[n + 1] /\ \A p \in S : p = <<p[1], p[2]>>
    BY <2>1
  <2> HIDE DEF S
  <2>4. ASSUME NEW p \in Longer(S, t) PROVE p \in Q[n + 2] /\ p = <<p[1], p[2]>>
    <3>1. CASE p \in Links(t)
      BY <1>1, <2>1, <3>1
    <3>2. CASE \E x, y, z : p = <<x, z>> /\ <<x, y>> \in S /\ <<y, z>> \in Links(t)
      <4>1. PICK x, y, z : p = <<x, z>> /\ <<x, y>> \in S /\ <<y, z>> \in Links(t)
        BY <3>2
      <4>2. <<x, y>> \in Q[(n + 2) - 1] /\ <<x, y>> \in Up(t)[(n + 2) - 1]
        BY <2>1, <2>3, <4>1 DEF S
      <4> QED
        BY <2>1, <4>1, <4>2
    <3> QED
      BY <2>3, <3>1, <3>2, LongerOnly
  <2> QED
    BY <2>2, <2>4
<1>4. Nat \subseteq A
  <2> HIDE DEF A
  <2> QED
    BY <1>2, <1>3, NatClosed
<1>5. ASSUME NEW n \in 1..N PROVE Good(n)
  <2>1. n - 1 \in A /\ (n - 1) + 1 = n
    BY <1>4
  <2> QED
    BY <2>1
<1>6. QED
  BY <1>5

\* A path is a path of every greater length.
LEMMA PathsGrow ==
  ASSUME NEW t, NEW m \in 1..N
  PROVE  Up(t)[m] \subseteq Up(t)[N]
<1> DEFINE Q == [n \in 1..N |-> IF n + 1 \in 1..N THEN Up(t)[n] \cap Up(t)[n + 1] ELSE Up(t)[n]]
<1>1. ASSUME NEW n \in 1..N PROVE Links(t) \subseteq Up(t)[n]
  <2>1. Links(t) \subseteq Longer(Up(t)[n - 1], t)
    BY DEF Longer
  <2>2. Up(t)[n] = IF n = 1 THEN Links(t) ELSE Longer(Up(t)[n - 1], t)
    BY Paths
  <2> QED
    BY <2>1, <2>2
<1>2. \A n \in 1..N : Links(t) \subseteq Q[n]
  BY <1>1
<1>3. ASSUME NEW n \in 2..N, NEW x, NEW y, NEW z, <<x, y>> \in Q[n - 1], <<y, z>> \in Links(t)
      PROVE  <<x, z>> \in Q[n]
  <2>1. n \in 1..N /\ n - 1 \in 1..N /\ n # 1 /\ (n - 1) + 1 = n
    BY <1>3, IdsFacts
  <2>2. <<x, y>> \in Up(t)[n - 1] /\ <<x, y>> \in Up(t)[n]
    BY <1>3, <2>1
  <2>3. <<x, z>> \in Up(t)[n]
    BY <1>3, <2>1, <2>2, LongerBy, Paths
  <2>4. ASSUME n + 1 \in 1..N PROVE <<x, z>> \in Up(t)[n + 1]
    <3>1. n + 1 # 1 /\ (n + 1) - 1 = n
      BY <2>1
    <3>2. Up(t)[n + 1] = Longer(Up(t)[n], t)
      BY <2>4, <3>1, Paths
    <3> QED
      BY <1>3, <2>2, <3>2, LongerBy
  <2> QED
    BY <2>1, <2>3, <2>4
<1> HIDE DEF Q
<1>4. \A n \in 1..N : Up(t)[n] \subseteq Q[n]
  BY <1>2, <1>3, PathsWithin
<1>5. \A n \in 1..N : n + 1 \in 1..N => Up(t)[n] \subseteq Up(t)[n + 1]
  BY <1>4 DEF Q
<1> DEFINE A == {k \in Nat : m + k \in 1..N => Up(t)[m] \subseteq Up(t)[m + k]}
<1>6. 0 \in A
  OBVIOUS
<1>7. ASSUME NEW k \in Nat, k \in A PROVE k + 1 \in A
  <2>1. m + (k + 1) \in 1..N => m + k \in 1..N /\ (m + k) + 1 = m + (k + 1)
    BY IdsFacts
  <2> QED
    BY <1>5, <1>7, <2>1
<1>8. Nat \subseteq A
  <2> HIDE DEF A
  <2> QED
    BY <1>6, <1>7, NatClosed
<1>9. N - m \in A /\ m + (N - m) = N
  BY <1>8, IdsFacts
<1>10. QED
  BY <1>9

\* Everything above lies in Ids \X Ids, in a table of the model.
LEMMA AcyclicUp ==
  ASSUME NEW t
  PROVE  Acyclic(t) <=> \A i \in Ids : <<i, i>> \notin Up(t)[N]
BY AboveUp DEF Acyclic

-----------------------------------------------------------------------------
(* The walk up a table.  In one without a cycle it comes to an end.         *)

Onward(t, c) ==
  LET p == ParentsOf(t)[Last(c)]
  IN  IF p = Null \/ Contains(c, p) THEN c ELSE Append(c, p)
Walks(t, i, m, w) == w = [n \in 0..m |-> IF n = 0 THEN <<i>> ELSE Onward(t, w[n - 1])]
Walk(t, i) == CHOOSE w : Walks(t, i, N, w)
\* Chains of parents from i up, without repetition.
Chains(t, i) ==
  {c \in Seq(Ids) : /\ Len(c) >= 1 /\ c[1] = i
                    /\ \A k \in 1..(Len(c) - 1) : <<c[k], c[k + 1]>> \in Links(t)
                    /\ \A j, k \in 1..Len(c) : c[j] = c[k] => j = k}

LEMMA AncestorsWalk == \A t, i : Ancestors(t, i) = Tail(Walk(t, i)[N])
BY DEF Ancestors, AncestorsBy, Walk, Walks, Onward, N

LEMMA WalksExist ==
  ASSUME NEW t, NEW i
  PROVE  Walks(t, i, N, Walk(t, i))
<1> DEFINE A == {m \in Nat : \E w : Walks(t, i, m, w)}
<1>1. 0 \in A
  <2> DEFINE w == [n \in 0..0 |-> <<i>>]
  <2>1. w = [n \in 0..0 |-> IF n = 0 THEN <<i>> ELSE Onward(t, w[n - 1])]
    OBVIOUS
  <2> HIDE DEF w
  <2> QED
    BY <2>1 DEF Walks
<1>2. ASSUME NEW m \in Nat, m \in A PROVE m + 1 \in A
  <2>1. PICK u : Walks(t, i, m, u)
    BY <1>2
  <2> DEFINE v == [n \in 0..m + 1 |-> IF n = 0 THEN <<i>> ELSE Onward(t, u[n - 1])]
  <2>2. ASSUME NEW n \in 1..m + 1 PROVE v[n - 1] = u[n - 1]
    <3>1. n - 1 \in 0..m /\ n - 1 \in 0..m + 1
      BY <2>2
    <3>2. u[n - 1] = IF n - 1 = 0 THEN <<i>> ELSE Onward(t, u[(n - 1) - 1])
      BY <2>1, <3>1 DEF Walks
    <3> QED
      BY <3>1, <3>2
  <2>3. v = [n \in 0..m + 1 |-> IF n = 0 THEN <<i>> ELSE Onward(t, v[n - 1])]
    <3>1. \A n \in 0..m + 1 : n # 0 => n \in 1..m + 1
      OBVIOUS
    <3> HIDE DEF v
    <3>2. v = [n \in 0..m + 1 |-> IF n = 0 THEN <<i>> ELSE Onward(t, u[n - 1])]
      BY DEF v
    <3> QED
      BY <2>2, <3>1, <3>2
  <2> HIDE DEF v
  <2> QED
    BY <2>3 DEF Walks
<1>3. N \in A
  <2> HIDE DEF A
  <2> QED
    BY <1>1, <1>2, NatClosed, IdsFacts
<1>4. QED
  BY <1>3 DEF Walk

LEMMA OnwardChain ==
  ASSUME NEW t \in Tables, NEW i \in Present(t), NEW c \in Chains(t, i)
  PROVE  Onward(t, c) \in Chains(t, i)
<1>1. c \in Seq(Ids) /\ Len(c) \in Nat /\ Len(c) >= 1 /\ c[1] = i /\ Last(c) = c[Len(c)] /\ Last(c) \in Ids
  BY DEF Chains, Last
<1> DEFINE p == ParentsOf(t)[Last(c)]
<1>a. p = IF t[Last(c)] = Null THEN Null ELSE t[Last(c)].parent
  BY <1>1, ParentIs
<1>2. CASE p = Null \/ Contains(c, p)
  BY <1>2 DEF Onward
<1>3. CASE ~(p = Null \/ Contains(c, p))
  <2>1. Onward(t, c) = Append(c, p)
    BY <1>3 DEF Onward
  <2>2. p \in Ids /\ <<Last(c), p>> \in Links(t)
    <3>1. t[Last(c)] \in Rows /\ p = t[Last(c)].parent
      BY <1>1, <1>a, <1>3 DEF Tables
    <3>2. p \in Ids
      BY <1>3, <3>1 DEF Rows
    <3> QED
      BY <1>1, <1>a, <1>3, <3>1, <3>2 DEF Links, Present
  <2>3. \A k \in 1..Len(c) : c[k] # p
    BY <1>3 DEF Contains
  <2> HIDE DEF p
  <2> DEFINE d == Append(c, p)
  <2>4. /\ d \in Seq(Ids) /\ Len(d) = Len(c) + 1 /\ d[Len(c) + 1] = p
        /\ \A k \in 1..Len(c) : d[k] = c[k]
    BY <1>1, <2>2
  <2> HIDE DEF d
  <2>5. ASSUME NEW k \in 1..(Len(d) - 1) PROVE <<d[k], d[k + 1]>> \in Links(t)
    <3>1. CASE k = Len(c)
      BY <1>1, <2>2, <2>4, <3>1
    <3>2. CASE k # Len(c)
      <4>1. k \in 1..(Len(c) - 1) /\ k \in 1..Len(c) /\ k + 1 \in 1..Len(c)
        BY <1>1, <2>4, <2>5, <3>2
      <4> QED
        BY <2>4, <4>1 DEF Chains
    <3> QED
      BY <3>1, <3>2
  <2>6. ASSUME NEW j \in 1..Len(d), NEW k \in 1..Len(d), d[j] = d[k] PROVE j = k
    <3>1. \A n \in 1..Len(d) : n \in 1..Len(c) \/ n = Len(c) + 1
      BY <1>1, <2>4
    <3>2. \A m, n \in 1..Len(c) : c[m] = c[n] => m = n
      BY DEF Chains
    <3> QED
      BY <2>3, <2>4, <2>6, <3>1, <3>2
  <2>7. d[1] = i /\ Len(d) >= 1
    BY <1>1, <2>4
  <2>8. d \in Chains(t, i)
    BY <2>4, <2>5, <2>6, <2>7 DEF Chains
  <2> QED
    BY <2>1, <2>8 DEF d
<1>4. QED
  BY <1>2, <1>3

LEMMA WalkChain ==
  ASSUME NEW t \in Tables, NEW i \in Present(t)
  PROVE  /\ \A n \in 0..N : Walk(t, i)[n] \in Chains(t, i)
         /\ Walk(t, i)[N] \in Chains(t, i)
<1> DEFINE w == Walk(t, i)
           A == {n \in Nat : n \in 0..N => w[n] \in Chains(t, i)}
<1>1. \A n \in 0..N : w[n] = IF n = 0 THEN <<i>> ELSE Onward(t, w[n - 1])
  <2>1. Walks(t, i, N, w)
    BY WalksExist
  <2> HIDE DEF w
  <2> QED
    BY <2>1 DEF Walks
<1> HIDE DEF w
<1>2. 0 \in A
  <2>1. <<i>> \in Chains(t, i)
    BY DEF Chains, Present
  <2> QED
    BY <1>1, <2>1
<1>3. ASSUME NEW n \in Nat, n \in A PROVE n + 1 \in A
  <2> SUFFICES ASSUME n + 1 \in 0..N PROVE w[n + 1] \in Chains(t, i)
    OBVIOUS
  <2>1. n \in 0..N /\ n + 1 # 0 /\ (n + 1) - 1 = n /\ w[n] \in Chains(t, i)
    BY <1>3, IdsFacts
  <2> QED
    BY <1>1, <2>1, OnwardChain
<1>4. Nat \subseteq A /\ N \in 0..N
  <2> HIDE DEF A
  <2> QED
    BY <1>2, <1>3, NatClosed, IdsFacts
<1>5. QED
  BY <1>4, IdsFacts DEF w

\* A chain is not longer than there are ingredients.
LEMMA ChainShort ==
  ASSUME NEW t, NEW i, NEW c \in Chains(t, i)
  PROVE  Len(c) \in 1..N
<1>1. c \in Seq(Ids) /\ Len(c) \in Nat /\ Len(c) >= 1 /\ \A j, k \in 1..Len(c) : c[j] = c[k] => j = k
  BY DEF Chains
<1>2. IsFiniteSet(Ids) /\ Cardinality(Ids) <= N /\ Cardinality(Ids) \in Nat
  <2>1. IsFiniteSet(1..N) /\ Cardinality(1..N) = N
    BY FS_Interval, IdsFacts
  <2>2. [k \in 1..N |-> Order[k]] \in Surjection(1..N, Ids)
    BY IdsFacts DEF Surjection
  <2> QED
    BY <2>1, <2>2, FS_Surjection, FS_CardinalityType
<1>3. IsFiniteSet(1..Len(c)) /\ Cardinality(1..Len(c)) = Len(c)
  BY <1>1, FS_Interval
<1>4. [k \in 1..Len(c) |-> c[k]] \in Injection(1..Len(c), Ids)
  <2> DEFINE f == [k \in 1..Len(c) |-> c[k]]
  <2>1. f \in [1..Len(c) -> Ids] /\ \A j, k \in 1..Len(c) : f[j] = f[k] => j = k
    BY <1>1
  <2> HIDE DEF f
  <2>2. f \in Injection(1..Len(c), Ids)
    BY <2>1 DEF Injection, IsInjective
  <2> QED
    BY <2>2 DEF f
<1>5. Len(c) <= Cardinality(Ids)
  BY <1>2, <1>3, <1>4, FS_Injection
<1>6. QED
  BY <1>1, <1>2, <1>5, IdsFacts

\* The walk has come to an end: there are no more ingredients than steps.
LEMMA WalkEnds ==
  ASSUME NEW t \in Tables, NEW i \in Present(t)
  PROVE  Onward(t, Walk(t, i)[N]) = Walk(t, i)[N]
<1> DEFINE w == Walk(t, i)
           A == {n \in Nat : n \in 0..N => Len(w[n]) = n + 1 \/ Onward(t, w[n]) = w[n]}
<1>1. Walks(t, i, N, w)
  BY WalksExist
<1>2. w[N] \in Chains(t, i) /\ \A n \in 0..N : w[n] \in Chains(t, i)
  BY WalkChain
<1> HIDE DEF w
<1>3. \A n \in 0..N : w[n] = IF n = 0 THEN <<i>> ELSE Onward(t, w[n - 1])
  BY <1>1 DEF Walks
<1>4. 0 \in A
  BY <1>3, IdsFacts
<1>5. ASSUME NEW n \in Nat, n \in A PROVE n + 1 \in A
  <2> SUFFICES ASSUME n + 1 \in 0..N PROVE Len(w[n + 1]) = (n + 1) + 1 \/ Onward(t, w[n + 1]) = w[n + 1]
    OBVIOUS
  <2>1. n \in 0..N /\ n + 1 # 0 /\ (n + 1) - 1 = n
    BY IdsFacts
  <2>2. w[n + 1] = Onward(t, w[n])
    BY <1>3, <2>1
  <2>3. CASE Onward(t, w[n]) = w[n]
    BY <2>2, <2>3
  <2>4. CASE Onward(t, w[n]) # w[n]
    <3>1. Len(w[n]) = n + 1
      BY <1>5, <2>1, <2>4
    <3>2. w[n + 1] = Append(w[n], ParentsOf(t)[Last(w[n])])
      BY <2>2, <2>4 DEF Onward
    <3>3. w[n] \in Seq(Ids) /\ Last(w[n]) \in Ids
      BY <1>2, <2>1 DEF Chains, Last
    <3>4. ParentsOf(t)[Last(w[n])] \in Ids
      <4>1. ParentsOf(t)[Last(w[n])] # Null
        BY <2>4 DEF Onward
      <4> QED
        BY <3>3, <4>1, ParentIs DEF Tables, Rows
    <3> QED
      BY <3>1, <3>2, <3>3, <3>4
  <2> QED
    BY <2>3, <2>4
<1>6. N \in A /\ N \in 0..N
  <2> HIDE DEF A
  <2> QED
    BY <1>4, <1>5, NatClosed, IdsFacts
<1>7. Len(w[N]) # N + 1
  BY <1>2, ChainShort, IdsFacts
<1>8. QED
  BY <1>6, <1>7 DEF w

LEMMA ChainPaths ==
  ASSUME NEW t, NEW i, NEW c \in Chains(t, i), NEW j \in 1..Len(c)
  PROVE  \A k \in 1..Len(c) : j < k => <<c[j], c[k]>> \in Up(t)[k - j]
<1>1. Len(c) \in 1..N /\ Len(c) \in Nat /\ N \in Nat
  BY ChainShort, IdsFacts
<1> DEFINE A == {m \in Nat : j + (m + 1) \in 1..Len(c) => <<c[j], c[j + (m + 1)]>> \in Up(t)[m + 1]}
<1>2. ASSUME NEW k \in 1..Len(c), k + 1 \in 1..Len(c) PROVE <<c[k], c[k + 1]>> \in Links(t)
  <2>1. k \in 1..(Len(c) - 1)
    BY <1>1, <1>2
  <2> QED
    BY <2>1 DEF Chains
<1>3. 0 \in A
  <2>1. ASSUME j + 1 \in 1..Len(c) PROVE <<c[j], c[j + 1]>> \in Up(t)[1]
    BY <1>1, <1>2, <2>1, Paths
  <2> QED
    BY <2>1
<1>4. ASSUME NEW m \in Nat, m \in A PROVE m + 1 \in A
  <2> SUFFICES ASSUME j + (m + 2) \in 1..Len(c) PROVE <<c[j], c[j + (m + 2)]>> \in Up(t)[m + 2]
    OBVIOUS
  <2> DEFINE k == j + (m + 1)
  <2>1. k \in 1..Len(c) /\ k + 1 = j + (m + 2) /\ m + 2 \in 1..N /\ m + 2 # 1 /\ (m + 2) - 1 = m + 1
    BY <1>1
  <2>2. <<c[j], c[k]>> \in Up(t)[m + 1] /\ <<c[k], c[k + 1]>> \in Links(t)
    BY <1>2, <1>4, <2>1
  <2> HIDE DEF k
  <2>3. Up(t)[m + 2] = Longer(Up(t)[m + 1], t)
    BY <2>1, Paths
  <2> QED
    BY <2>1, <2>2, <2>3, LongerBy
<1>5. Nat \subseteq A
  <2> HIDE DEF A
  <2> QED
    BY <1>3, <1>4, NatClosed
<1>6. ASSUME NEW k \in 1..Len(c), j < k PROVE <<c[j], c[k]>> \in Up(t)[k - j]
  <2>1. (k - j) - 1 \in Nat /\ j + (((k - j) - 1) + 1) = k /\ ((k - j) - 1) + 1 = k - j
    BY <1>1, <1>6
  <2>2. (k - j) - 1 \in A
    BY <1>5, <2>1
  <2> QED
    BY <2>1, <2>2
<1>7. QED
  BY <1>6

LEMMA NoReturn ==
  ASSUME NEW t \in Tables, NEW i \in Present(t), Acyclic(t)
  PROVE  ~Closes(t, Chain(t, i)) /\ Chain(t, i)[1] = i
<1> DEFINE c == Walk(t, i)[N]
<1>1. c \in Chains(t, i)
  BY WalkChain
<1>2. Chain(t, i) = <<i>> \o Tail(c)
  BY AncestorsWalk DEF Chain
<1> HIDE DEF c
<1>3. c \in Seq(Ids) /\ Len(c) \in 1..N /\ Len(c) \in Nat /\ c[1] = i /\ Last(c) = c[Len(c)]
  BY <1>1, ChainShort DEF Chains, Last
<1>4. Chain(t, i) = c
  <2>1. i \in Ids
    BY DEF Present
  <2>2. Tail(c) \in Seq(Ids) /\ Len(Tail(c)) = Len(c) - 1 /\ \A k \in 1..(Len(c) - 1) : Tail(c)[k] = c[k + 1]
    BY <1>3
  <2> DEFINE d == <<i>> \o Tail(c)
  <2>3. d \in Seq(Ids) /\ Len(d) = Len(c) /\ \A k \in 1..Len(c) : d[k] = IF k = 1 THEN i ELSE Tail(c)[k - 1]
    BY <1>3, <2>1, <2>2
  <2> HIDE DEF d
  <2>4. \A k \in 1..Len(c) : d[k] = c[k]
    BY <1>3, <2>2, <2>3
  <2>5. d = c
    BY <1>3, <2>3, <2>4
  <2> QED
    BY <1>2, <2>5 DEF d
<1>5. SUFFICES ASSUME Closes(t, c) PROVE FALSE
  BY <1>3, <1>4
<1> DEFINE z == c[Len(c)]
<1>6. z \in Ids /\ t[z] \in Rows
  <2>1. z \in Ids
    BY <1>3
  <2>2. CASE Len(c) = 1
    BY <1>3, <2>2 DEF Tables, Present
  <2>3. CASE Len(c) # 1
    <3> HIDE DEF z
    <3>1. Len(c) - 1 \in 1..(Len(c) - 1) /\ (Len(c) - 1) + 1 = Len(c)
      BY <1>3, <2>3, IdsFacts
    <3> USE DEF z
    <3>2. <<c[Len(c) - 1], z>> \in Links(t)
      BY <1>1, <3>1 DEF Chains
    <3>3. PICK y \in Present(t) : t[y].parent # Null /\ z = t[y].parent
      BY <3>2 DEF Links
    <3> QED
      BY <2>1, <3>3 DEF Tables
  <2> QED
    BY <2>2, <2>3
<1>7. PICK k \in 1..Len(c) : c[k] = t[z].parent
  BY <1>3, <1>5 DEF Closes, Contains
<1>8. <<z, c[k]>> \in Links(t) /\ c[k] \in Ids
  <2>1. c[k] \in Ids /\ t[z] # Null
    BY <1>3, <1>6, <1>7, StartsAssumption
  <2> QED
    BY <1>6, <1>7, <2>1, IdsFacts DEF Links, Present
<1>9. <<c[k], c[k]>> \in Up(t)[N]
  <2>1. CASE k = Len(c)
    <3>1. 1 \in 1..N
      BY <1>3, IdsFacts
    <3> QED
      BY <1>8, <2>1, <3>1, Paths, PathsGrow
  <2>2. CASE k # Len(c)
    <3> DEFINE m == Len(c) - k
    <3>1. m + 1 \in 1..N /\ m + 1 # 1 /\ (m + 1) - 1 = m /\ k < Len(c) /\ Len(c) \in 1..Len(c)
      BY <1>3, <2>2, IdsFacts
    <3>2. <<c[k], z>> \in Up(t)[m]
      BY <1>1, <3>1, ChainPaths
    <3> HIDE DEF m, z
    <3>3. <<c[k], c[k]>> \in Up(t)[m + 1]
      BY <1>8, <3>1, <3>2, Paths, LongerBy
    <3> QED
      BY <3>1, <3>3, PathsGrow
  <2> QED
    BY <2>1, <2>2
<1>10. QED
  BY <1>8, <1>9, AcyclicUp

-----------------------------------------------------------------------------
(* What a write does to the links.                                          *)

LEMMA LinkFacts ==
  ASSUME NEW t \in Tables
  PROVE  \A x, y : <<x, y>> \in Links(t) <=> /\ x \in Ids /\ y \in Ids /\ t[x] \in Rows
                                             /\ y = t[x].parent /\ t[y] # Null
<1>1. ASSUME NEW x, NEW y, <<x, y>> \in Links(t)
      PROVE  x \in Ids /\ y \in Ids /\ t[x] \in Rows /\ y = t[x].parent /\ t[y] # Null
  <2>1. x \in Present(t) /\ y = t[x].parent /\ y # Null
    BY <1>1 DEF Links
  <2>2. x \in Ids /\ t[x] \in Rows /\ t[y] # Null
    BY <2>1 DEF Present, Tables
  <2> QED
    BY <2>1, <2>2 DEF Rows
<1>2. ASSUME NEW x, NEW y, x \in Ids, y \in Ids, t[x] \in Rows, y = t[x].parent
      PROVE  <<x, y>> \in Links(t)
  BY <1>2, StartsAssumption, IdsFacts DEF Links, Present
<1>3. QED
  BY <1>1, <1>2

LEMMA FewerLinks ==
  ASSUME NEW t, NEW u, Links(u) \subseteq Links(t), Acyclic(t)
  PROVE  Acyclic(u)
<1> DEFINE Q == [n \in 1..N |-> Up(t)[n]]
<1>1. ASSUME NEW n \in 1..N PROVE Links(u) \subseteq Q[n]
  <2>1. Links(t) \subseteq Longer(Up(t)[n - 1], t)
    BY DEF Longer
  <2> QED
    BY <2>1, Paths
<1>2. ASSUME NEW n \in 2..N, NEW x, NEW y, NEW z, <<x, y>> \in Q[n - 1], <<y, z>> \in Links(u)
      PROVE  <<x, z>> \in Q[n]
  <2>1. n \in 1..N /\ n - 1 \in 1..N /\ n # 1
    BY <1>2, IdsFacts
  <2> QED
    BY <1>2, <2>1, Paths, LongerBy
<1> HIDE DEF Q
<1>3. \A n \in 1..N : Up(u)[n] \subseteq Q[n]
  BY <1>1, <1>2, PathsWithin
<1>4. ASSUME NEW i \in Ids PROVE <<i, i>> \notin Up(u)[N]
  <2>1. N \in 1..N
    BY IdsFacts
  <2> QED
    BY <1>3, <2>1, AcyclicUp DEF Q
<1>5. QED
  BY <1>4, AcyclicUp

\* A row that nobody has as a parent makes no cycle.
LEMMA LeafAcyclic ==
  ASSUME NEW t \in Tables, Acyclic(t), NEW u, NEW i \in Ids, NEW p, t[i] = Null, p # i,
         Links(u) \subseteq Links(t) \cup {<<i, p>>}
  PROVE  Acyclic(u)
<1> DEFINE Within(n, x, y) == y # i /\ (x # i => <<x, y>> \in Up(t)[n])
           Q == [n \in 1..N |-> {q \in (Ids \cup {p}) \X (Ids \cup {p}) : Within(n, q[1], q[2])}]
<1>1. \A n \in 1..N : \A x, y : <<x, y>> \in Q[n] <=> x \in Ids \cup {p} /\ y \in Ids \cup {p} /\ Within(n, x, y)
  OBVIOUS
<1>2. \A x, y : <<x, y>> \in Links(u) =>
         /\ x \in Ids \cup {p} /\ y \in Ids \cup {p} /\ y # i
         /\ x # i => <<x, y>> \in Links(t)
  BY LinkFacts
<1>3. \A l \in Links(u) : l = <<l[1], l[2]>>
  BY DEF Links
<1>a. \A n \in 1..N : Links(t) \subseteq Up(t)[n]
  <2> SUFFICES ASSUME NEW n \in 1..N PROVE Links(t) \subseteq Up(t)[n]
    OBVIOUS
  <2>1. Links(t) \subseteq Longer(Up(t)[n - 1], t)
    BY DEF Longer
  <2> QED
    BY <2>1, Paths
<1> HIDE DEF Q
<1>4. ASSUME NEW n \in 1..N PROVE Links(u) \subseteq Q[n]
  <2> SUFFICES ASSUME NEW l \in Links(u) PROVE l \in Q[n]
    OBVIOUS
  <2>1. l = <<l[1], l[2]>>
    BY <1>3
  <2>2. <<l[1], l[2]>> \in Links(u)
    BY <2>1
  <2>3. <<l[1], l[2]>> \in Q[n]
    BY <1>1, <1>2, <1>a, <2>2
  <2> QED
    BY <2>1, <2>3
<1>5. ASSUME NEW n \in 2..N, NEW x, NEW y, NEW z, <<x, y>> \in Q[n - 1], <<y, z>> \in Links(u)
      PROVE  <<x, z>> \in Q[n]
  <2>1. n \in 1..N /\ n - 1 \in 1..N /\ n # 1
    BY <1>5, IdsFacts
  <2>2. y # i /\ <<y, z>> \in Links(t) /\ z # i
    BY <1>1, <1>2, <1>5, <2>1
  <2>3. x # i => <<x, z>> \in Up(t)[n]
    BY <1>1, <1>5, <2>1, <2>2, Paths, LongerBy
  <2> QED
    BY <1>1, <1>2, <1>5, <2>1, <2>2, <2>3
<1>6. \A n \in 1..N : Up(u)[n] \subseteq Q[n]
  BY <1>4, <1>5, PathsWithin
<1>7. ASSUME NEW j \in Ids PROVE <<j, j>> \notin Up(u)[N]
  <2>1. N \in 1..N
    BY IdsFacts
  <2> QED
    BY <1>1, <1>6, <2>1, AcyclicUp
<1>8. QED
  BY <1>7, AcyclicUp

\* Neither do rows M that move under a parent from where no walk up comes
\* back to them: the ingredients C on that walk are closed.
ClosedIn(t, C) == \A x, y : (x \in C /\ <<x, y>> \in Links(t)) => y \in C
MovedTo(t, u, M, p) == \A x, y : <<x, y>> \in Links(u) => IF x \in M THEN y = p ELSE <<x, y>> \in Links(t)
LEMMA MoveAcyclic ==
  ASSUME NEW t, NEW u, NEW M, NEW C, NEW p, t \in Tables, Acyclic(t),
         M \subseteq Ids, C \subseteq Ids \ M, p \in C, ClosedIn(t, C), MovedTo(t, u, M, p)
  PROVE  Acyclic(u)
<1> USE DEF ClosedIn, MovedTo
<1> DEFINE Within(n, x, y) == IF x \in C THEN y \in C /\ <<x, y>> \in Up(t)[n]
                              ELSE IF x \in M THEN y \in C
                              ELSE y \in C \cup M \/ <<x, y>> \in Up(t)[n]
           Q == [n \in 1..N |-> {q \in Ids \X Ids : Within(n, q[1], q[2])}]
<1>1. \A n \in 1..N : \A x, y : <<x, y>> \in Q[n] <=> x \in Ids /\ y \in Ids /\ Within(n, x, y)
  OBVIOUS
<1>2. \A x, y : <<x, y>> \in Links(u) => x \in Ids /\ y \in Ids
  <2>1. \A x, y : <<x, y>> \in Links(t) => x \in Ids /\ y \in Ids
    BY LinkFacts
  <2> QED
    BY <2>1
<1>3. \A l \in Links(u) : l = <<l[1], l[2]>>
  BY DEF Links
<1>a. \A n \in 1..N : Links(t) \subseteq Up(t)[n]
  <2> SUFFICES ASSUME NEW n \in 1..N PROVE Links(t) \subseteq Up(t)[n]
    OBVIOUS
  <2>1. Links(t) \subseteq Longer(Up(t)[n - 1], t)
    BY DEF Longer
  <2> QED
    BY <2>1, Paths
<1> HIDE DEF Q
<1>4. ASSUME NEW n \in 1..N PROVE Links(u) \subseteq Q[n]
  <2> SUFFICES ASSUME NEW l \in Links(u) PROVE l \in Q[n]
    OBVIOUS
  <2>1. l = <<l[1], l[2]>>
    BY <1>3
  <2>2. <<l[1], l[2]>> \in Links(u)
    BY <2>1
  <2>3. Within(n, l[1], l[2])
    BY <1>a, <2>2
  <2>4. <<l[1], l[2]>> \in Q[n]
    BY <1>1, <1>2, <2>2, <2>3
  <2> QED
    BY <2>1, <2>4
<1>5. ASSUME NEW n \in 2..N, NEW x, NEW y, NEW z, <<x, y>> \in Q[n - 1], <<y, z>> \in Links(u)
      PROVE  <<x, z>> \in Q[n]
  <2>1. n \in 1..N /\ n - 1 \in 1..N /\ n # 1
    BY <1>5, IdsFacts
  <2>2. x \in Ids /\ Within(n - 1, x, y) /\ z \in Ids
    BY <1>1, <1>2, <1>5, <2>1
  <2>3. ASSUME <<x, y>> \in Up(t)[n - 1], <<y, z>> \in Links(t) PROVE <<x, z>> \in Up(t)[n]
    BY <2>1, <2>3, Paths, LongerBy
  <2>4. Within(n, x, z)
    BY <1>5, <2>2, <2>3
  <2> QED
    BY <1>1, <2>1, <2>2, <2>4
<1>6. \A n \in 1..N : Up(u)[n] \subseteq Q[n]
  BY <1>4, <1>5, PathsWithin
<1>7. ASSUME NEW j \in Ids PROVE <<j, j>> \notin Up(u)[N]
  <2>1. N \in 1..N
    BY IdsFacts
  <2>2. <<j, j>> \notin Up(t)[N]
    BY AcyclicUp
  <2>3. ~Within(N, j, j)
    BY <2>2
  <2> QED
    BY <1>1, <1>6, <2>1, <2>3
<1>8. QED
  BY <1>7, AcyclicUp

\* The walk up from j is closed, and has what Ancestors lists.
LEMMA WalkClosed ==
  ASSUME NEW t \in Tables, NEW j \in Present(t)
  PROVE  \E C \in SUBSET Ids :
           /\ j \in C /\ \A x, y : (x \in C /\ <<x, y>> \in Links(t)) => y \in C
           /\ \A i \in C : i = j \/ Contains(Ancestors(t, j), i)
<1>1. PICK c : c = Walk(t, j)[N]
  OBVIOUS
<1>2. c \in Chains(t, j) /\ Onward(t, c) = c
  BY <1>1, WalkChain, WalkEnds
<1>3. /\ c \in Seq(Ids) /\ Len(c) \in Nat /\ Len(c) >= 1 /\ c[1] = j /\ Last(c) = c[Len(c)] /\ Last(c) \in Ids
      /\ \A k \in 1..(Len(c) - 1) : <<c[k], c[k + 1]>> \in Links(t)
  BY <1>2 DEF Chains, Last
<1> DEFINE C == {c[k] : k \in 1..Len(c)}
<1>4. C \in SUBSET Ids /\ j \in C
  BY <1>3
<1>5. ASSUME NEW x, NEW y, x \in C, <<x, y>> \in Links(t) PROVE y \in C
  <2>1. PICK k \in 1..Len(c) : x = c[k]
    BY <1>5
  <2>2. x \in Ids /\ y \in Ids /\ t[x] \in Rows /\ y = t[x].parent
    BY <1>5, LinkFacts
  <2>3. CASE k # Len(c)
    <3>1. k \in 1..(Len(c) - 1) /\ k + 1 \in 1..Len(c)
      BY <1>3, <2>3
    <3>2. <<x, c[k + 1]>> \in Links(t)
      BY <1>3, <2>1, <3>1
    <3>3. c[k + 1] = y
      BY <2>2, <3>2, LinkFacts
    <3> QED
      BY <3>1, <3>3
  <2>4. CASE k = Len(c)
    <3>1. x = Last(c) /\ ParentsOf(t)[Last(c)] = y
      BY <1>3, <2>1, <2>2, <2>4, ParentIs, StartsAssumption
    <3>2. y # Null
      BY <2>2, IdsFacts
    <3>3. CASE Contains(c, y)
      BY <3>3 DEF Contains
    <3>4. CASE ~Contains(c, y)
      <4>1. Append(c, y) = c
        BY <1>2, <3>1, <3>2, <3>4 DEF Onward
      <4>2. Len(Append(c, y)) = Len(c) + 1
        BY <1>3, <2>2
      <4> QED
        BY <1>3, <4>1, <4>2
    <3> QED
      BY <3>3, <3>4
  <2> QED
    BY <2>3, <2>4
<1>6. ASSUME NEW i \in C PROVE i = j \/ Contains(Ancestors(t, j), i)
  <2>1. PICK k \in 1..Len(c) : i = c[k]
    BY <1>6
  <2>2. Ancestors(t, j) = Tail(c)
    BY <1>1, AncestorsWalk
  <2>3. CASE k = 1
    BY <1>3, <2>1, <2>3
  <2>4. CASE k # 1
    <3>1. k - 1 \in 1..Len(Tail(c)) /\ Tail(c)[k - 1] = c[k]
      BY <1>3, <2>4
    <3> QED
      BY <2>1, <2>2, <3>1 DEF Contains
  <2> QED
    BY <2>3, <2>4
<1>7. QED
  BY <1>4, <1>5, <1>6

-----------------------------------------------------------------------------
(* The invariant.  While nothing is unchecked the table has no cycle; what  *)
(* an update has walked over is a part of the table from where no walk up   *)
(* leads out, but from the row it asks for next, and never to the           *)
(* ingredient it moves; and a copy of the table is what the table once was. *)

Fields == {"pc", "id", "dto", "row", "at", "seen", "list", "ver", "stale", "match"}
Fits(q) == DOMAIN q = Fields
Updating == {"ask", "fill", "units", "save"}

Walked(q) == q.seen \ {q.id}
Fresh(q) == q.ver = version /\ ~q.stale
\* No link leads from the ingredients C out of the walk of q.
Closed(q, C) == \A x, y : (x \in C /\ <<x, y>> \in Links(rows)) => y \in Walked(q)
NewParent(q) == q.dto.parent \notin {Keep, Null, q.list[1].parent}

UpdateInv(q) ==
  q.pc \in Updating =>
    /\ q.id \in Ids /\ q.dto \in Writes \cup {Promotion} /\ q.list[1] \in Rows
    /\ q.ver \in Nat /\ q.ver <= version /\ q.seen \subseteq Ids
    /\ q.ver = version => rows[q.id] = q.list[1]
    /\ q.pc \in {"ask", "fill"} =>
         /\ q.id \in q.seen /\ q.dto.parent \in Walked(q) /\ q.at \in Walked(q)
         /\ Fresh(q) => Closed(q, Walked(q) \ {q.at})
         /\ q.pc = "fill" /\ q.ver = version => q.row = rows[q.at]
    /\ (q.pc \in {"units", "save"} /\ Fresh(q) /\ NewParent(q)) =>
         q.dto.parent \in Walked(q) /\ Closed(q, Walked(q))
\* What every other request relies on.
Sound(t) == t \in Tables /\ (~unchecked => Acyclic(t))
PlaceInv(q) ==
  /\ Fits(q)
  /\ q.pc \in {"ask", "fill"} => q.at \in Ids
  /\ q.pc = "fill" => q.row \in Rows
  /\ q.pc = "insert" => q.id \in Ids /\ q.at \in Ids \cup {Null}
  /\ q.pc \in {"delete", "generated"} => q.id \in Ids
  /\ q.pc = "merge" => q.id \in Ids /\ q.at \in Ids
  /\ q.pc = "save synonym" => q.id \in Ids /\ q.list[1] \in Rows
  /\ q.pc = "fill all" => Sound(q.row)
  /\ ~unchecked => q.pc # "hangs"
ReqInv(r) == PlaceInv(req[r]) /\ (r \in Writers => UpdateInv(req[r]))

CatalogInv ==
  /\ Sound(rows) /\ version \in Nat /\ unchecked \in BOOLEAN /\ cast \subseteq Requests
  /\ req = [r \in Requests |-> req[r]] /\ cache = [e \in Entries |-> cache[e]]
  /\ \A i \in Ids : cache[<<"row", i>>] \in Rows \cup {Null}
  /\ cache[<<"all">>] # Null => Sound(cache[<<"all">>])
  /\ \A r \in Requests : ReqInv(r)

\* One request moves, and becomes q.
Becomes(r, q) ==
  /\ r \in Requests => req'[r] = q
  /\ req' = [s \in Requests |-> req'[s]]
  /\ \A s \in Requests \ {r} : req'[s] = req[s]

LEMMA Becoming ==
  ASSUME req = [s \in Requests |-> req[s]], NEW r, NEW q, req' = [req EXCEPT ![r] = q]
  PROVE  Becomes(r, q)
BY DEF Becomes

\* A request that stays where it is does so while others write or do not.
LEMMA OthersStay ==
  ASSUME CatalogInv, NEW s \in Requests, req'[s] = req[s],
         \/ UNCHANGED <<rows, version, unchecked>>
         \/ version' = version + 1 /\ (unchecked => unchecked')
  PROVE  ReqInv(s)'
<1>1. PlaceInv(req[s]) /\ (s \in Writers => UpdateInv(req[s])) /\ version \in Nat
  BY DEF CatalogInv, ReqInv
<1>2. CASE UNCHANGED <<rows, version, unchecked>>
  BY <1>1, <1>2 DEF ReqInv, PlaceInv, UpdateInv, Sound, Fresh, Closed, NewParent, Walked, Fits
<1>3. CASE version' = version + 1 /\ (unchecked => unchecked')
  <2>1. PlaceInv(req[s])'
    <3>1. PICK q : q = req[s]
      OBVIOUS
    <3>2. PlaceInv(q) /\ (~unchecked' => ~unchecked)
      BY <1>1, <1>3, <3>1
    <3>3. PlaceInv(q)'
      BY <3>2 DEF PlaceInv, Sound, Fits
    <3>4. req'[s] = q
      BY <3>1
    <3> QED
      BY <3>3, <3>4
  <2>2. ASSUME s \in Writers PROVE UpdateInv(req[s])'
    <3>1. UpdateInv(req[s])
      BY <1>1, <2>2
    <3> DEFINE q == req[s]
    <3>2. q.pc \in Updating => q.ver \in Nat /\ q.ver <= version
      BY <3>1 DEF UpdateInv
    <3>3. q.pc \in Updating => q.ver # version' /\ q.ver <= version'
      BY <1>1, <1>3, <3>2
    <3> QED
      BY <3>1, <3>3 DEF UpdateInv, Fresh
  <2> QED
    BY <2>1, <2>2 DEF ReqInv
<1>4. QED
  BY <1>2, <1>3

\* A step that reads the table, or puts something right into the cache.
LEMMA ReadKeeps ==
  ASSUME CatalogInv, UNCHANGED <<rows, version, unchecked, cast>>, NEW r \in Requests, NEW q, Becomes(r, q),
         PlaceInv(q), r \in Writers => UpdateInv(q),
         \/ cache' = cache
         \/ \E e, v : /\ cache' = [cache EXCEPT ![e] = v]
                      /\ e = <<"all">> => Sound(v)
                      /\ \A i \in Ids : e = <<"row", i>> => v \in Rows
  PROVE  CatalogInv'
<1>1. ASSUME NEW s \in Requests PROVE ReqInv(s)'
  <2>1. CASE s = r
    <3>1. PlaceInv(q)' /\ (r \in Writers => UpdateInv(q)')
      BY DEF PlaceInv, UpdateInv, Sound, Fresh, Closed, NewParent, Walked, Fits
    <3> QED
      BY <2>1, <3>1 DEF ReqInv, Becomes
  <2>2. CASE s # r
    BY <2>2, OthersStay DEF Becomes
  <2> QED
    BY <2>1, <2>2
<1>2. Sound(rows)' /\ \A t : Sound(t)' <=> Sound(t)
  BY DEF CatalogInv, Sound
<1>3. /\ cache' = [e \in Entries |-> cache'[e]]
      /\ \A i \in Ids : cache'[<<"row", i>>] \in Rows \cup {Null}
      /\ cache'[<<"all">>] # Null => Sound(cache'[<<"all">>])
  <2>1. CASE cache' = cache
    BY <2>1 DEF CatalogInv
  <2>2. CASE \E e, v : /\ cache' = [cache EXCEPT ![e] = v]
                       /\ e = <<"all">> => Sound(v)
                       /\ \A i \in Ids : e = <<"row", i>> => v \in Rows
    <3>1. PICK e, v : /\ cache' = [cache EXCEPT ![e] = v]
                      /\ e = <<"all">> => Sound(v)
                      /\ \A i \in Ids : e = <<"row", i>> => v \in Rows
      BY <2>2
    <3>2. \A i \in Ids : <<"row", i>> \in Entries
      BY DEF Entries
    <3>3. <<"all">> \in Entries
      BY DEF Entries
    <3> QED
      BY <3>1, <3>2, <3>3 DEF CatalogInv
  <2> QED
    BY <2>1, <2>2
<1>4. QED
  BY <1>1, <1>2, <1>3 DEF CatalogInv, Becomes

\* A step that moves no request.
LEMMA StandStill ==
  ASSUME CatalogInv, UNCHANGED <<rows, version, unchecked, cast, req>>,
         cache' = [e \in Entries |-> cache'[e]], \A e \in Entries : cache'[e] \in {cache[e], Null}
  PROVE  CatalogInv'
<1>1. ASSUME NEW s \in Requests PROVE ReqInv(s)'
  BY OthersStay
<1>2. (\A i \in Ids : <<"row", i>> \in Entries) /\ <<"all">> \in Entries
  BY DEF Entries
<1>3. Sound(rows)' /\ \A t : Sound(t)' <=> Sound(t)
  BY DEF CatalogInv, Sound
<1>4. \A i \in Ids : cache'[<<"row", i>>] \in Rows \cup {Null}
  BY <1>2 DEF CatalogInv
<1>5. cache'[<<"all">>] # Null => Sound(cache'[<<"all">>])
  BY <1>2 DEF CatalogInv
<1>6. QED
  BY <1>1, <1>3, <1>4, <1>5 DEF CatalogInv

\* A write to the table, which leaves the writer before its clearCache or done.
LEMMA WriteKeeps ==
  ASSUME CatalogInv, NEW r \in Requests, NEW p \in {"clear", "done"}, Step(r, p), version' = version + 1,
         unchecked' \in BOOLEAN, unchecked => unchecked', Sound(rows)', UNCHANGED <<cache, cast>>
  PROVE  CatalogInv'
<1>1. PICK q : q = [req[r] EXCEPT !.pc = p]
  OBVIOUS
<1>2. Fits(req[r])
  BY DEF CatalogInv, ReqInv, PlaceInv
<1>3. q.pc = p /\ Fits(q)
  BY <1>1, <1>2 DEF Fits, Fields
<1>4. Becomes(r, q)
  BY <1>1 DEF CatalogInv, Becomes, Step
<1>5. ASSUME NEW s \in Requests PROVE ReqInv(s)'
  <2>1. CASE s = r
    <3>1. PlaceInv(q)' /\ UpdateInv(q)'
      BY <1>3 DEF PlaceInv, UpdateInv, Updating, Fits
    <3> QED
      BY <1>4, <2>1, <3>1 DEF ReqInv, Becomes
  <2>2. CASE s # r
    BY <1>4, <2>2, OthersStay DEF Becomes
  <2> QED
    BY <2>1, <2>2
<1>6. \A t : Sound(t) => Sound(t)'
  BY DEF Sound
<1>7. (cache[<<"all">>] # Null => Sound(cache[<<"all">>]))'
  <2>1. PICK t : t = cache[<<"all">>]
    OBVIOUS
  <2>2. t # Null => Sound(t)'
    BY <1>6, <2>1 DEF CatalogInv
  <2> QED
    BY <2>1, <2>2
<1>8. version' \in Nat /\ unchecked' \in BOOLEAN /\ Sound(rows)' /\ req' = [s \in Requests |-> req'[s]]
  BY <1>4 DEF CatalogInv, Becomes
<1>9. QED
  BY <1>5, <1>7, <1>8 DEF CatalogInv

-----------------------------------------------------------------------------
(* The steps that read.                                                     *)

LEMMA FitsHere ==
  ASSUME CatalogInv, NEW r \in Requests
  PROVE  PlaceInv(req[r]) /\ Fits(req[r]) /\ (r \in Writers => UpdateInv(req[r])) /\ rows \in Tables
BY DEF CatalogInv, ReqInv, PlaceInv, Sound

\* A request that only changes its place.
LEMMA Stepped ==
  ASSUME CatalogInv, NEW r \in Requests, NEW p, Step(r, p)
  PROVE  \E d : Becomes(r, d) /\ d = [req[r] EXCEPT !.pc = p] /\ Fits(d) /\ d.pc = p
<1>1. PICK d : d = [req[r] EXCEPT !.pc = p]
  OBVIOUS
<1>2. Becomes(r, d)
  BY <1>1 DEF CatalogInv, Becomes, Step
<1>3. Fits(d) /\ d.pc = p
  BY <1>1, FitsHere DEF Fits, Fields
<1>4. QED
  BY <1>1, <1>2, <1>3

\* A request that is through, whatever it did.
Over == {"new", "done", "refused", "clear", "store", "store down", "fill name", "catalog"}
LEMMA OverFits ==
  ASSUME NEW q, Fits(q), q.pc \in Over
  PROVE  PlaceInv(q) /\ UpdateInv(q)
BY DEF PlaceInv, UpdateInv, Over, Updating

LEMMA StepOver ==
  ASSUME CatalogInv, UNCHANGED <<rows, version, unchecked, cast, cache>>, NEW r \in Requests,
         NEW p \in Over, Step(r, p)
  PROVE  CatalogInv'
<1>1. PICK d : Becomes(r, d) /\ Fits(d) /\ d.pc = p
  BY Stepped
<1>2. PlaceInv(d) /\ UpdateInv(d)
  BY <1>1, OverFits
<1>3. QED
  BY <1>1, <1>2, ReadKeeps

\* What detectCycle does with a row.
Checked(q, row, d) ==
  /\ Fits(d) /\ d.id = q.id /\ d.dto = q.dto /\ d.list = q.list /\ d.ver = q.ver /\ d.stale = q.stale
  /\ \/ d.pc = "refused"
     \/ d.pc = "units" /\ d.seen = q.seen /\ (row = Null \/ row.parent = Null)
     \/ /\ d.pc = "ask" /\ row # Null /\ row.parent # Null /\ row.parent \notin q.seen
        /\ d.at = row.parent /\ d.seen = q.seen \cup {row.parent}
LEMMA CheckFields ==
  ASSUME NEW q, Fits(q), NEW row
  PROVE  Checked(q, row, AfterCheck(q, row))
<1>1. CASE row = Null \/ row.parent = Null
  BY <1>1 DEF AfterCheck, Fits, Fields, Checked
<1>2. CASE ~(row = Null \/ row.parent = Null) /\ row.parent \in q.seen
  BY <1>2 DEF AfterCheck, Fits, Fields, Checked
<1>3. CASE ~(row = Null \/ row.parent = Null) /\ row.parent \notin q.seen
  BY <1>3 DEF AfterCheck, Fits, Fields, Checked
<1>4. QED
  BY <1>1, <1>2, <1>3

\* The walk goes on, and what is behind it is closed.
LEMMA WalksOn ==
  ASSUME CatalogInv, NEW q, UpdateInv(q), q.pc \in {"ask", "fill"}, NEW row \in Rows \cup {Null}, NEW d,
         d.id = q.id /\ d.dto = q.dto /\ d.list = q.list /\ d.ver = q.ver,
         Fresh(d) => Fresh(q) /\ Agree(rows[q.at], row),
         \/ d.pc = "refused"
         \/ d.pc = "units" /\ d.seen = q.seen /\ (row = Null \/ row.parent = Null)
         \/ /\ d.pc = "ask" /\ row # Null /\ row.parent # Null /\ row.parent \notin q.seen
            /\ d.at = row.parent /\ d.seen = q.seen \cup {row.parent}
  PROVE  UpdateInv(d)
<1>1. /\ q.id \in Ids /\ q.dto \in Writes \cup {Promotion} /\ q.list[1] \in Rows
      /\ q.ver \in Nat /\ q.ver <= version /\ q.seen \subseteq Ids
      /\ q.ver = version => rows[q.id] = q.list[1]
      /\ q.id \in q.seen /\ q.dto.parent \in Walked(q) /\ q.at \in Walked(q)
      /\ Fresh(q) => Closed(q, Walked(q) \ {q.at})
  BY DEF UpdateInv, Updating
<1>2. \A x, y : <<x, y>> \in Links(rows) => y = rows[x].parent /\ rows[x] # Null /\ y # Null
  <2>1. rows \in Tables
    BY DEF CatalogInv, Sound
  <2> QED
    BY <2>1, LinkFacts, IdsFacts, StartsAssumption
<1>3. CASE d.pc = "refused"
  BY <1>3 DEF UpdateInv, Updating
<1>4. CASE d.pc = "units" /\ d.seen = q.seen /\ (row = Null \/ row.parent = Null)
  <2>1. Walked(d) = Walked(q)
    BY <1>4 DEF Walked
  <2>2. Fresh(d) => Closed(d, Walked(d))
    BY <1>1, <1>2, <1>4, <2>1 DEF Closed, Agree
  <2> QED
    BY <1>1, <1>4, <2>1, <2>2 DEF UpdateInv, Updating
<1>5. CASE /\ d.pc = "ask" /\ row # Null /\ row.parent # Null /\ row.parent \notin q.seen
           /\ d.at = row.parent /\ d.seen = q.seen \cup {row.parent}
  <2>1. d.at \in Ids
    BY <1>5 DEF Rows
  <2>2. Walked(d) = Walked(q) \cup {d.at} /\ d.at \notin Walked(q)
    BY <1>1, <1>5 DEF Walked
  <2>3. Fresh(d) => Closed(d, Walked(d) \ {d.at})
    BY <1>1, <1>2, <1>5, <2>2 DEF Closed, Agree
  <2>4. d.id \in d.seen /\ d.seen \subseteq Ids
    BY <1>1, <1>5, <2>1
  <2> QED
    BY <1>1, <1>5, <2>2, <2>3, <2>4 DEF UpdateInv, Updating
<1>6. QED
  BY <1>3, <1>4, <1>5

\* What getAncestors does with a row.
LEMMA UpFields ==
  ASSUME NEW q, Fits(q), q.at \in Ids, NEW row \in Rows \cup {Null}, NEW d, d = AfterUp(q, row)
  PROVE  Fits(d) /\ (d.pc = "store" \/ (d.pc = "ask" /\ d.at \in Ids))
<1>1. row = Null \/ row.parent \in Ids \cup {Null}
  BY DEF Rows
<1>2. CASE q.at = Last(<<q.id>> \o q.list)
  BY <1>1, <1>2 DEF AfterUp, Fits, Fields
<1>3. CASE q.at # Last(<<q.id>> \o q.list)
  BY <1>3 DEF AfterUp, Fits, Fields
<1>4. QED
  BY <1>2, <1>3

\* A row in hand, right or not, and the request goes on.
LEMMA GoesOn ==
  ASSUME CatalogInv, NEW r \in Requests, req[r].pc \in {"ask", "fill"}, NEW row \in Rows \cup {Null},
         NEW a, a = After(r, row), NEW d, Fits(d),
         d.pc = a.pc /\ d.id = a.id /\ d.dto = a.dto /\ d.at = a.at /\ d.seen = a.seen,
         d.list = a.list /\ d.ver = a.ver,
         Fresh(d) => Fresh(a) /\ (r \in Writers /\ Fresh(req[r]) => Agree(rows[req[r].at], row))
  PROVE  PlaceInv(d) /\ (r \in Writers => UpdateInv(d))
<1>1. PlaceInv(req[r]) /\ Fits(req[r]) /\ req[r].at \in Ids
  BY FitsHere DEF PlaceInv
<1>2. CASE r \in Writers
  <2>1. a = AfterCheck(req[r], row)
    BY <1>2 DEF After
  <2>2. /\ a.id = req[r].id /\ a.dto = req[r].dto /\ a.list = req[r].list /\ a.ver = req[r].ver
        /\ a.stale = req[r].stale
        /\ \/ a.pc = "refused"
           \/ a.pc = "units" /\ a.seen = req[r].seen /\ (row = Null \/ row.parent = Null)
           \/ /\ a.pc = "ask" /\ row # Null /\ row.parent # Null /\ row.parent \notin req[r].seen
              /\ a.at = row.parent /\ a.seen = req[r].seen \cup {row.parent}
    <3>1. Checked(req[r], row, a)
      BY <1>1, <2>1, CheckFields
    <3> QED
      BY <3>1 DEF Checked
  <2>3. Fresh(d) => Fresh(req[r]) /\ Agree(rows[req[r].at], row)
    BY <1>2, <2>2 DEF Fresh
  <2>4. UpdateInv(req[r])
    BY <1>2, FitsHere
  <2>5. UpdateInv(d)
    BY <2>2, <2>3, <2>4, WalksOn
  <2>6. row # Null /\ row.parent # Null => row.parent \in Ids
    BY DEF Rows
  <2>7. PlaceInv(d)
    BY <2>2, <2>6 DEF PlaceInv
  <2> QED
    BY <2>5, <2>7
<1>3. CASE r \notin Writers
  <2>1. a = AfterUp(req[r], row)
    BY <1>3 DEF After
  <2>2. a.pc = "store" \/ (a.pc = "ask" /\ a.at \in Ids)
    BY <1>1, <2>1, UpFields
  <2> QED
    BY <1>3, <2>2 DEF PlaceInv
<1>4. QED
  BY <1>2, <1>3

\* Whatever After does, it leaves a request.
LEMMA AfterFits ==
  ASSUME CatalogInv, NEW r \in Requests, req[r].pc \in {"ask", "fill"}, NEW row \in Rows \cup {Null}
  PROVE  Fits(After(r, row))
<1>1. Fits(req[r]) /\ req[r].at \in Ids
  BY FitsHere DEF PlaceInv
<1>2. CASE r \in Writers
  BY <1>1, <1>2, CheckFields DEF After, Checked
<1>3. CASE r \notin Writers
  BY <1>1, <1>3, UpFields DEF After
<1>4. QED
  BY <1>2, <1>3

\* One field of a request.
LEMMA FieldSet ==
  ASSUME NEW a, NEW k \in DOMAIN a, NEW v, NEW d, d = [a EXCEPT ![k] = v]
  PROVE  DOMAIN d = DOMAIN a /\ d[k] = v /\ \A j \in DOMAIN a : j # k => d[j] = a[j]
OBVIOUS

LEMMA AskHitKeeps ==
  ASSUME CatalogInv, NEW r \in Requests, AskHit(r)
  PROVE  CatalogInv'
<1> DEFINE e == <<"row", req[r].at>>
<1>1. PlaceInv(req[r]) /\ Fits(req[r]) /\ req[r].at \in Ids /\ req[r].pc = "ask"
  BY FitsHere DEF AskHit, PlaceInv
<1>2. PICK row : row = cache[e]
  OBVIOUS
<1>3. row \in Rows
  BY <1>1, <1>2 DEF AskHit, CatalogInv
<1>4. PICK a : a = After(r, row)
  OBVIOUS
<1>5. Fits(a)
  BY <1>1, <1>3, <1>4, AfterFits
<1>6. PICK v : v = (a.stale \/ ~Agree(rows[req[r].at], row))
  OBVIOUS
<1>7. PICK d : d = [a EXCEPT !.stale = v]
  OBVIOUS
<1>8. req' = [req EXCEPT ![r] = d]
  BY <1>2, <1>4, <1>6, <1>7 DEF AskHit
<1>9. /\ Fits(d) /\ d.stale = v
      /\ d.pc = a.pc /\ d.id = a.id /\ d.dto = a.dto /\ d.at = a.at /\ d.seen = a.seen
      /\ d.list = a.list /\ d.ver = a.ver
  BY <1>5, <1>7 DEF Fits, Fields
<1>10. Fresh(d) => Fresh(a) /\ Agree(rows[req[r].at], row)
  BY <1>6, <1>9, Zenon DEF Fresh
<1>11. PlaceInv(d) /\ (r \in Writers => UpdateInv(d))
  BY <1>1, <1>3, <1>4, <1>9, <1>10, GoesOn
<1>12. Becomes(r, d)
  BY <1>8, Becoming DEF CatalogInv
<1>13. QED
  BY <1>11, <1>12, ReadKeeps DEF AskHit, Quiet

LEMMA AskMissKeeps ==
  ASSUME CatalogInv, NEW r \in Requests, AskMiss(r)
  PROVE  CatalogInv'
<1>1. PlaceInv(req[r]) /\ Fits(req[r]) /\ req[r].at \in Ids /\ req[r].pc = "ask"
  BY FitsHere DEF AskMiss, PlaceInv
<1>2. PICK row : row = rows[req[r].at]
  OBVIOUS
<1>3. row \in Rows \cup {Null}
  BY <1>1, <1>2, FitsHere DEF Tables
<1>4. CASE row = Null
  <2>1. PICK d : d = After(r, row)
    OBVIOUS
  <2>2. Fits(d)
    BY <1>1, <1>3, <2>1, AfterFits
  <2>3. PlaceInv(d) /\ (r \in Writers => UpdateInv(d))
    BY <1>1, <1>2, <1>3, <2>1, <2>2, GoesOn DEF Agree
  <2>4. Becomes(r, d)
    BY <1>2, <1>4, <2>1, Becoming DEF CatalogInv, AskMiss
  <2> QED
    BY <2>3, <2>4, ReadKeeps DEF AskMiss, Quiet
<1>5. CASE row # Null
  <2>1. PICK d : d = [req[r] EXCEPT !.pc = "fill", !.row = row]
    OBVIOUS
  <2>2. Becomes(r, d)
    BY <1>2, <1>5, <2>1, Becoming DEF CatalogInv, AskMiss
  <2>3. /\ Fits(d) /\ d.pc = "fill" /\ d.row = row /\ d.id = req[r].id /\ d.dto = req[r].dto
        /\ d.at = req[r].at /\ d.seen = req[r].seen /\ d.list = req[r].list /\ d.ver = req[r].ver
        /\ d.stale = req[r].stale
    BY <1>1, <2>1 DEF Fits, Fields
  <2>4. PlaceInv(d)
    BY <1>1, <1>3, <1>5, <2>3 DEF PlaceInv
  <2>5. ASSUME r \in Writers PROVE UpdateInv(d)
    <3>1. UpdateInv(req[r])
      BY <2>5, FitsHere
    <3> QED
      BY <1>1, <1>2, <2>3, <3>1 DEF UpdateInv, Updating, Walked, Fresh, Closed
  <2> QED
    BY <2>2, <2>4, <2>5, ReadKeeps DEF AskMiss, Quiet
<1>6. QED
  BY <1>4, <1>5

LEMMA AskFillKeeps ==
  ASSUME CatalogInv, NEW r \in Requests, AskFill(r)
  PROVE  CatalogInv'
<1>1. PlaceInv(req[r]) /\ Fits(req[r]) /\ req[r].at \in Ids /\ req[r].pc = "fill"
  BY FitsHere DEF AskFill, PlaceInv
<1>2. PICK row : row = req[r].row
  OBVIOUS
<1>3. row \in Rows
  BY <1>1, <1>2 DEF PlaceInv
<1>4. PICK d : d = After(r, row)
  OBVIOUS
<1>5. Fits(d)
  BY <1>1, <1>3, <1>4, AfterFits
<1>6. r \in Writers /\ Fresh(req[r]) => Agree(rows[req[r].at], row)
  BY <1>1, <1>2, FitsHere DEF UpdateInv, Updating, Fresh, Agree
<1>7. PlaceInv(d) /\ (r \in Writers => UpdateInv(d))
  BY <1>1, <1>3, <1>4, <1>5, <1>6, GoesOn
<1>8. Becomes(r, d)
  BY <1>2, <1>4, Becoming DEF CatalogInv, AskFill
<1>9. QED
  <2>1. PICK e : e = <<"row", req[r].at>>
    OBVIOUS
  <2>2. cache' = [cache EXCEPT ![e] = row]
    BY <1>2, <2>1 DEF AskFill, Put
  <2>3. e # <<"all">>
    BY <2>1
  <2> QED
    BY <1>3, <1>7, <1>8, <2>2, <2>3, ReadKeeps DEF AskFill, Quiet

LEMMA UpStartKeeps ==
  ASSUME CatalogInv, NEW r \in Requests \ Writers, UpStart(r)
  PROVE  CatalogInv'
<1>1. PICK i \in Present(rows) :
         req' = [req EXCEPT ![r] = [NewReq EXCEPT !.pc = "ask", !.id = i, !.at = i, !.seen = {i}]]
  BY DEF UpStart
<1>2. PICK d : d = [NewReq EXCEPT !.pc = "ask", !.id = i, !.at = i, !.seen = {i}]
  OBVIOUS
<1>3. Fits(d) /\ d.pc = "ask" /\ d.at \in Ids
  BY <1>2 DEF Fits, Fields, NewReq, Present
<1>4. PlaceInv(d)
  BY <1>3 DEF PlaceInv
<1>5. Becomes(r, d)
  BY <1>1, <1>2, Becoming DEF CatalogInv
<1>6. QED
  BY <1>4, <1>5, ReadKeeps DEF UpStart, Quiet

\* An entry that is no row and not the catalogue.
LEMMA AsideKeeps ==
  ASSUME CatalogInv, Quiet, NEW r \in Requests, NEW d, Becomes(r, d), Fits(d), d.pc \in Over,
         NEW k \in {"up", "down", "name"}, NEW x, NEW v, Put(<<k, x>>, v)
  PROVE  CatalogInv'
<1>1. PICK e : e = <<k, x>>
  OBVIOUS
<1>2. cache' = [cache EXCEPT ![e] = v]
  BY <1>1 DEF Put
<1>3. e # <<"all">> /\ \A i \in Ids : e # <<"row", i>>
  BY <1>1
<1>4. PlaceInv(d) /\ UpdateInv(d)
  BY OverFits
<1>5. QED
  BY <1>2, <1>3, <1>4, ReadKeeps DEF Quiet

LEMMA UpStoreKeeps ==
  ASSUME CatalogInv, NEW r \in Requests, UpStore(r)
  PROVE  CatalogInv'
<1>1. PICK d : Becomes(r, d) /\ Fits(d) /\ d.pc = "done"
  BY Stepped DEF UpStore
<1>2. Put(<<"up", req[r].id>>, req[r].list) /\ Quiet
  BY DEF UpStore
<1>3. d.pc \in Over
  BY <1>1 DEF Over
<1>4. QED
  BY <1>1, <1>2, <1>3, AsideKeeps

LEMMA DownStartKeeps ==
  ASSUME CatalogInv, NEW r \in Requests \ Writers, DownStart(r)
  PROVE  CatalogInv'
<1>1. PICK i, l : req' = [req EXCEPT ![r] = [NewReq EXCEPT !.pc = "store down", !.id = i, !.list = l]]
  BY DEF DownStart
<1>2. PICK d : d = [NewReq EXCEPT !.pc = "store down", !.id = i, !.list = l]
  OBVIOUS
<1>3. Fits(d) /\ d.pc \in Over
  BY <1>2 DEF Fits, Fields, NewReq, Over
<1>4. PlaceInv(d)
  BY <1>3, OverFits
<1>5. Becomes(r, d)
  BY <1>1, <1>2, Becoming DEF CatalogInv
<1>6. QED
  BY <1>4, <1>5, ReadKeeps DEF DownStart, Quiet

LEMMA DownStoreKeeps ==
  ASSUME CatalogInv, NEW r \in Requests, DownStore(r)
  PROVE  CatalogInv'
<1>1. PICK d : Becomes(r, d) /\ Fits(d) /\ d.pc = "done"
  BY Stepped DEF DownStore
<1>2. Put(<<"down", req[r].id>>, req[r].list) /\ Quiet
  BY DEF DownStore
<1>3. d.pc \in Over
  BY <1>1 DEF Over
<1>4. QED
  BY <1>1, <1>2, <1>3, AsideKeeps

LEMMA SearchNameKeeps ==
  ASSUME CatalogInv, NEW r \in Requests \ Writers, SearchName(r)
  PROVE  CatalogInv'
<1>1. PICK d : req' = [req EXCEPT ![r] = d] /\ Fits(d) /\ d.pc \in Over
  <2>1. PICK n \in Names :
          LET known == n \in Ids
              held  == IF known THEN cache[<<"name", n>>] ELSE Null
              row   == IF known THEN rows[n] ELSE Null
              q     == [NewReq EXCEPT !.id = n, !.row = row]
          IN  req' = [req EXCEPT ![r] =
                IF held # Null THEN [q EXCEPT !.pc = "done", !.match = Match(n, "exact", 100)]
                ELSE IF row # Null THEN [q EXCEPT !.pc = "fill name"]
                ELSE [q EXCEPT !.pc = "catalog"]]
    BY DEF SearchName
  <2>a. PICK held : held = IF n \in Ids THEN cache[<<"name", n>>] ELSE Null
    OBVIOUS
  <2>b. PICK row : row = IF n \in Ids THEN rows[n] ELSE Null
    OBVIOUS
  <2>c. PICK match : match = Match(n, "exact", 100)
    OBVIOUS
  <2>2. PICK q : q = [NewReq EXCEPT !.id = n, !.row = row]
    OBVIOUS
  <2>3. Fits(q)
    BY <2>2 DEF Fits, Fields, NewReq
  <2>4. PICK d : d = IF held # Null THEN [q EXCEPT !.pc = "done", !.match = match]
                     ELSE IF row # Null THEN [q EXCEPT !.pc = "fill name"]
                     ELSE [q EXCEPT !.pc = "catalog"]
    OBVIOUS
  <2>5. Fits(d) /\ d.pc \in Over
    BY <2>3, <2>4 DEF Fits, Fields, Over
  <2> QED
    BY <2>1, <2>a, <2>b, <2>c, <2>2, <2>4, <2>5
<1>2. PlaceInv(d)
  BY <1>1, OverFits
<1>3. Becomes(r, d)
  BY <1>1, Becoming DEF CatalogInv
<1>4. QED
  BY <1>2, <1>3, ReadKeeps DEF SearchName, Quiet

LEMMA SearchFillNameKeeps ==
  ASSUME CatalogInv, NEW r \in Requests, SearchFillName(r)
  PROVE  CatalogInv'
<1>1. PICK d : d = [req[r] EXCEPT !.pc = "done", !.match = Match(req[r].id, "exact", 100)]
  OBVIOUS
<1>2. Becomes(r, d)
  BY <1>1, Becoming DEF CatalogInv, SearchFillName
<1>3. Fits(d) /\ d.pc \in Over
  BY <1>1, FitsHere DEF Fits, Fields, Over
<1>4. Put(<<"name", req[r].id>>, req[r].row) /\ Quiet
  BY DEF SearchFillName
<1>5. QED
  BY <1>2, <1>3, <1>4, AsideKeeps

\* A set of naturals that is not empty has a least.
LEMMA LeastIs ==
  ASSUME NEW S \in SUBSET Nat, S # {}
  PROVE  Min(S) \in S
<1>1. PICK n \in S : \A m \in S : ~ (<<m, n>> \in OpToRel(<, Nat))
  BY NatLessThanWellFounded, WFMin
<1>2. ASSUME NEW m \in S, ~(n <= m) PROVE FALSE
  <2>1. m < n
    BY <1>2
  <2>2. <<m, n>> \in OpToRel(<, Nat)
    BY <2>1 DEF OpToRel
  <2> QED
    BY <1>1, <2>2
<1>3. QED
  BY <1>2 DEF Min

\* A search over a table without a cycle comes to an end.
LEMMA NeverHangs ==
  ASSUME NEW t \in Tables, Acyclic(t), NEW u, NEW name, NEW m, m = LooseMatch(u, t, name, 70)
  PROVE  ~(m # Null /\ m.how = "hangs")
<1> DEFINE h == HierarchicalMatch(t, name)
           s == SynonymMatch(t, name)
           f == FuzzyMatch(u, name)
<1>1. h = Null \/ h.how # "hangs"
  <2> DEFINE stop(i) == /\ t[i] # Null
                        /\ \/ Contains(Chain(t, i), name) \/ Endless(t, i)
                           \/ Contains(Descendants(t, i), name)
             hits == {k \in DOMAIN Order : stop(Order[k])}
  <2>1. h = IF hits = {} THEN Null ELSE MatchAt(t, name, Chain(t, Order[Min(hits)]))
    BY DEF HierarchicalMatch
  <2>2. CASE hits # {}
    <3>1. DOMAIN Order = 1..N /\ hits \in SUBSET Nat
      BY OrderAssumption DEF N
    <3>2. Min(hits) \in hits
      BY <2>2, <3>1, LeastIs
    <3>3. PICK k \in 1..N : k = Min(hits) /\ t[Order[k]] # Null
      BY <3>1, <3>2
    <3>4. PICK i : i = Order[k]
      OBVIOUS
    <3>5. i \in Present(t)
      BY <3>3, <3>4, IdsFacts DEF Present
    <3>6. PICK c : c = Chain(t, i)
      OBVIOUS
    <3>7. ~Closes(t, c)
      BY <3>5, <3>6, NoReturn
    <3>8. MatchAt(t, name, c).how # "hangs"
      BY <3>7 DEF MatchAt, Match
    <3>9. h = MatchAt(t, name, c)
      BY <2>1, <2>2, <3>3, <3>4, <3>6
    <3> QED
      BY <3>8, <3>9
  <2> QED
    BY <2>1, <2>2
<1>2. s = Null \/ s.how # "hangs"
  BY DEF SynonymMatch, Match
<1>3. f = Null \/ f.how # "hangs"
  BY DEF FuzzyMatch, Match
<1>4. m = FirstGood(70, h, s, f)
  BY DEF LooseMatch
<1> HIDE DEF h, s, f
<1>5. m \in {h, s, f, Null}
  BY <1>4 DEF FirstGood
<1>6. QED
  BY <1>1, <1>2, <1>3, <1>5

LEMMA FoundFits ==
  ASSUME CatalogInv, NEW r \in Requests, NEW t, Sound(t), NEW d, d = Found(r, t)
  PROVE  PlaceInv(d)
<1>1. PICK m : m = LooseMatch(rows, t, req[r].id, 70)
  OBVIOUS
<1>2. d = [req[r] EXCEPT !.pc = IF m # Null /\ m.how = "hangs" THEN "hangs" ELSE "done", !.match = m]
  BY <1>1, Zenon DEF Found
<1>3. ~unchecked => ~(m # Null /\ m.how = "hangs")
  BY <1>1, NeverHangs DEF Sound
<1>4. Fits(d) /\ d.pc = IF m # Null /\ m.how = "hangs" THEN "hangs" ELSE "done"
  BY <1>2, FitsHere DEF Fits, Fields
<1>5. QED
  BY <1>3, <1>4 DEF PlaceInv

LEMMA SearchCachedKeeps ==
  ASSUME CatalogInv, NEW r \in Requests \ Writers, SearchCached(r)
  PROVE  CatalogInv'
<1>1. PICK t : t = cache[<<"all">>]
  OBVIOUS
<1>2. Sound(t)
  BY <1>1 DEF SearchCached, CatalogInv
<1>3. PICK d : d = Found(r, t)
  OBVIOUS
<1>4. Becomes(r, d)
  BY <1>1, <1>3, Becoming DEF CatalogInv, SearchCached
<1>5. PlaceInv(d)
  BY <1>2, <1>3, FoundFits
<1>6. QED
  BY <1>4, <1>5, ReadKeeps DEF SearchCached, Quiet

LEMMA SearchReadKeeps ==
  ASSUME CatalogInv, NEW r \in Requests \ Writers, SearchRead(r)
  PROVE  CatalogInv'
<1>1. PICK d : d = [req[r] EXCEPT !.pc = "fill all", !.row = rows]
  OBVIOUS
<1>2. Becomes(r, d)
  BY <1>1, Becoming DEF CatalogInv, SearchRead
<1>3. Fits(d) /\ d.pc = "fill all" /\ d.row = rows
  BY <1>1, FitsHere DEF Fits, Fields
<1>4. PlaceInv(d)
  BY <1>3 DEF PlaceInv, CatalogInv
<1>5. QED
  BY <1>2, <1>4, ReadKeeps DEF SearchRead, Quiet

LEMMA SearchFillKeeps ==
  ASSUME CatalogInv, NEW r \in Requests \ Writers, SearchFill(r)
  PROVE  CatalogInv'
<1>1. PICK t : t = req[r].row
  OBVIOUS
<1>2. Sound(t)
  BY <1>1, FitsHere DEF SearchFill, PlaceInv
<1>3. PICK d : d = Found(r, t)
  OBVIOUS
<1>4. Becomes(r, d)
  BY <1>1, <1>3, Becoming DEF CatalogInv, SearchFill
<1>5. PlaceInv(d)
  BY <1>2, <1>3, FoundFits
<1>6. PICK e : e = <<"all">>
  OBVIOUS
<1>7. cache' = [cache EXCEPT ![e] = t] /\ \A i \in Ids : e # <<"row", i>>
  BY <1>1, <1>6 DEF SearchFill, Put
<1>8. QED
  BY <1>2, <1>4, <1>5, <1>7, ReadKeeps DEF SearchFill, Quiet

-----------------------------------------------------------------------------
(* The writers.                                                             *)

\* An update begins: the row it read is in its list, the walk at the new parent.
LEMMA UpdateReadKeeps ==
  ASSUME CatalogInv, NEW r \in Requests, UpdateRead(r)
  PROVE  CatalogInv'
<1>1. PICK i \in Targets \cap Present(rows), dto \in Writes :
        LET q == [NewReq EXCEPT !.pc = "units", !.id = i, !.dto = dto, !.list = <<rows[i]>>,
                                !.ver = version]
        IN  req' = [req EXCEPT ![r] =
              IF dto.parent \in {Keep, Null, rows[i].parent} THEN q ELSE WalkFrom(q, dto.parent)]
  BY DEF UpdateRead
<1>2. PICK q : q = [NewReq EXCEPT !.pc = "units", !.id = i, !.dto = dto, !.list = <<rows[i]>>,
                                  !.ver = version]
  OBVIOUS
<1>3. PICK l : l = <<rows[i]>>
  OBVIOUS
<1>4. /\ Fits(q) /\ q.pc = "units" /\ q.id = i /\ q.dto = dto /\ q.list = l /\ q.ver = version
      /\ l[1] = rows[i]
  BY <1>2, <1>3 DEF NewReq, Fits, Fields
<1>5. i \in Ids /\ rows[i] \in Rows /\ version \in Nat
  BY FitsHere DEF Present, Tables, CatalogInv
<1>6. CASE dto.parent \in {Keep, Null, rows[i].parent}
  <2>1. Becomes(r, q)
    BY <1>1, <1>2, <1>6, Becoming DEF CatalogInv
  <2>2. q.seen = {}
    BY <1>2 DEF NewReq
  <2>3. ~NewParent(q)
    BY <1>4, <1>6 DEF NewParent
  <2>4. PlaceInv(q) /\ UpdateInv(q)
    BY <1>4, <1>5, <2>2, <2>3 DEF PlaceInv, UpdateInv, Updating
  <2> QED
    BY <2>1, <2>4, ReadKeeps DEF UpdateRead, Quiet
<1>7. CASE dto.parent \notin {Keep, Null, rows[i].parent}
  <2>1. PICK d : d = WalkFrom(q, dto.parent)
    OBVIOUS
  <2>2. Becomes(r, d)
    BY <1>1, <1>2, <1>7, <2>1, Becoming DEF CatalogInv
  <2>3. CASE dto.parent = i
    <3>1. Fits(d) /\ d.pc = "refused"
      BY <1>4, <2>1, <2>3 DEF WalkFrom, Fits, Fields
    <3>2. PlaceInv(d) /\ UpdateInv(d)
      BY <3>1, OverFits DEF Over
    <3> QED
      BY <2>2, <3>2, ReadKeeps DEF UpdateRead, Quiet
  <2>4. CASE dto.parent # i
    <3>1. /\ Fits(d) /\ d.pc = "ask" /\ d.at = dto.parent /\ d.seen = {i, dto.parent}
          /\ d.id = i /\ d.dto = dto /\ d.list = l /\ d.ver = version
      BY <1>4, <2>1, <2>4 DEF WalkFrom, Fits, Fields
    <3>2. dto.parent \in Ids
      BY <1>7, RequestsAssumption
    <3>3. Walked(d) = {dto.parent}
      BY <2>4, <3>1 DEF Walked
    <3>4. Closed(d, Walked(d) \ {d.at})
      BY <3>1, <3>3 DEF Closed
    <3>5. PlaceInv(d)
      BY <3>1, <3>2 DEF PlaceInv
    <3>6. UpdateInv(d)
      BY <1>4, <1>5, <3>1, <3>2, <3>3, <3>4 DEF UpdateInv, Updating
    <3> QED
      BY <2>2, <3>5, <3>6, ReadKeeps DEF UpdateRead, Quiet
  <2> QED
    BY <2>3, <2>4
<1>8. QED
  BY <1>6, <1>7

LEMMA UpdateUnitsKeeps ==
  ASSUME CatalogInv, NEW r \in Requests, UpdateUnits(r)
  PROVE  CatalogInv'
<1>1. PICK p : Step(r, p) /\ p \in {"refused", "save"}
  BY DEF UpdateUnits
<1>2. req[r].pc = "units" /\ UNCHANGED <<rows, version, unchecked, cast, cache>>
  BY DEF UpdateUnits, Quiet
<1>3. CASE p = "refused"
  BY <1>1, <1>2, <1>3, StepOver DEF Over
<1>4. CASE p = "save"
  <2>1. PICK d : Becomes(r, d) /\ d = [req[r] EXCEPT !.pc = p] /\ Fits(d) /\ d.pc = p
    BY <1>1, Stepped
  <2>2. /\ d.id = req[r].id /\ d.dto = req[r].dto /\ d.list = req[r].list /\ d.ver = req[r].ver
        /\ d.stale = req[r].stale /\ d.seen = req[r].seen
    BY <2>1, FitsHere DEF Fits, Fields
  <2>3. PlaceInv(d)
    BY <1>4, <2>1 DEF PlaceInv
  <2>4. ASSUME r \in Writers PROVE UpdateInv(d)
    <3>1. UpdateInv(req[r])
      BY <2>4, FitsHere
    <3> QED
      BY <1>2, <1>4, <2>1, <2>2, <3>1 DEF UpdateInv, Updating, Fresh, Closed, Walked, NewParent
  <2> QED
    BY <1>2, <2>1, <2>3, <2>4, ReadKeeps
<1>5. QED
  BY <1>1, <1>3, <1>4

\* A table stays one when a row is put into it whose parent is there.
LEMMA PutRow ==
  ASSUME NEW t \in Tables, NEW i \in Ids, NEW row \in Rows, row.parent # Null => t[row.parent] # Null,
         NEW u, u = [t EXCEPT ![i] = row]
  PROVE  u \in Tables
<1>1. u \in [Ids -> Rows \cup {Null}] /\ \A k \in Ids : u[k] = IF k = i THEN row ELSE t[k]
  BY DEF Tables
<1>2. ASSUME NEW k \in Present(u), u[k].parent # Null PROVE u[u[k].parent] # Null
  <2>1. u[k] \in Rows /\ u[k].parent \in Ids
    BY <1>1, <1>2 DEF Present, Rows
  <2>2. t[u[k].parent] # Null
    BY <1>1, <1>2 DEF Present, Tables
  <2> QED
    BY <1>1, <2>1, <2>2, StartsAssumption
<1>3. QED
  BY <1>1, <1>2 DEF Tables

\* Its links are those of the old one, and the one of the new row.
LEMMA PutLinks ==
  ASSUME NEW t \in Tables, NEW u \in Tables, NEW i \in Ids, NEW row \in Rows, u = [t EXCEPT ![i] = row]
  PROVE  \A x, y : <<x, y>> \in Links(u) =>
           IF x = i THEN y = row.parent ELSE <<x, y>> \in Links(t)
<1>1. \A k \in Ids : u[k] = IF k = i THEN row ELSE t[k]
  BY DEF Tables
<1>2. SUFFICES ASSUME NEW x, NEW y, <<x, y>> \in Links(u)
               PROVE  IF x = i THEN y = row.parent ELSE <<x, y>> \in Links(t)
  OBVIOUS
<1>3. x \in Ids /\ y \in Ids /\ u[x] \in Rows /\ y = u[x].parent
  BY <1>2, LinkFacts
<1>4. y # Null /\ u[x] # Null
  BY <1>3, IdsFacts, StartsAssumption
<1>5. QED
  BY <1>1, <1>3, <1>4 DEF Links, Present

LEMMA UpdateSaveKeeps ==
  ASSUME CatalogInv, NEW r \in Requests, r \in Writers, UpdateSave(r)
  PROVE  CatalogInv'
<1>1. PICK q : q = req[r]
  OBVIOUS
<1>2. PICK row : row = [q.list[1] EXCEPT !.parent = Wanted(@, q.dto.parent), !.unit = Wanted(@, q.dto.unit)]
  OBVIOUS
<1>3. /\ q.pc = "save" /\ UNCHANGED <<cache, cast>>
      /\ \/ Step(r, "refused") /\ UNCHANGED <<rows, version, unchecked>>
         \/ /\ ~(row.parent # Null /\ rows[row.parent] = Null)
            /\ Step(r, "clear") /\ rows' = [rows EXCEPT ![q.id] = row] /\ version' = version + 1
            /\ unchecked' = (unchecked \/ q.stale \/ version # q.ver)
  BY <1>1, <1>2, Zenon DEF UpdateSave, Stage
<1>4. CASE Step(r, "refused") /\ UNCHANGED <<rows, version, unchecked>>
  BY <1>3, <1>4, StepOver DEF Over
<1>5. CASE /\ ~(row.parent # Null /\ rows[row.parent] = Null)
           /\ Step(r, "clear") /\ rows' = [rows EXCEPT ![q.id] = row] /\ version' = version + 1
           /\ unchecked' = (unchecked \/ q.stale \/ version # q.ver)
  <2>1. /\ rows \in Tables /\ UpdateInv(q) /\ q.id \in Ids /\ q.dto \in Writes \cup {Promotion} /\ q.list[1] \in Rows
        /\ q.ver = version => rows[q.id] = q.list[1]
        /\ (Fresh(q) /\ NewParent(q)) => q.dto.parent \in Walked(q) /\ Closed(q, Walked(q))
        /\ q.seen \subseteq Ids
    BY <1>1, <1>3, FitsHere DEF UpdateInv, Updating
  <2>a. q.dto.parent \in Ids \cup {Null, Keep} /\ q.dto.unit \in Units \cup {Keep}
    BY <2>1, RequestsAssumption DEF Promotion
  <2>2. /\ row \in Rows /\ row.parent = Wanted(q.list[1].parent, q.dto.parent)
    BY <1>2, <2>1, <2>a DEF Rows, Wanted
  <2>3. PICK t : t = rows
    OBVIOUS
  <2>4. PICK u : u = [t EXCEPT ![q.id] = row]
    OBVIOUS
  <2>5. u \in Tables
    BY <1>5, <2>1, <2>2, <2>3, <2>4, PutRow
  <2>6. \A x, y : <<x, y>> \in Links(u) => IF x = q.id THEN y = row.parent ELSE <<x, y>> \in Links(t)
    <3>1. t \in Tables /\ q.id \in Ids /\ row \in Rows
      BY <2>1, <2>2, <2>3
    <3> QED
      BY <2>4, <2>5, <3>1, PutLinks, Zenon
  <2>7. unchecked' \in BOOLEAN /\ (unchecked => unchecked') /\ (~unchecked' => ~unchecked /\ Fresh(q))
    BY <1>5, Zenon DEF Fresh
  <2>8. ASSUME ~unchecked' PROVE Acyclic(u)
    <3>1. Acyclic(t) /\ Fresh(q) /\ q.list[1] = t[q.id]
      BY <2>1, <2>3, <2>7, <2>8 DEF CatalogInv, Sound, Fresh
    <3>2. CASE NewParent(q)
      <4>1. PICK C : C = Walked(q)
        OBVIOUS
      <4>2. C \in SUBSET (Ids \ {q.id}) /\ q.dto.parent \in C
        BY <2>1, <3>1, <3>2, <4>1 DEF Walked
      <4>3. \A x, y : (x \in C /\ <<x, y>> \in Links(t)) => y \in C
        BY <2>1, <2>3, <3>1, <3>2, <4>1 DEF Closed
      <4>4. row.parent = q.dto.parent
        BY <2>2, <3>2 DEF NewParent, Wanted
      <4>5. Acyclic(u)
        <5>1. PICK M : M = {q.id}
          OBVIOUS
        <5>2. M \subseteq Ids /\ C \subseteq Ids \ M /\ row.parent \in C
          BY <2>1, <4>2, <4>4, <5>1
        <5>3. MovedTo(t, u, M, row.parent)
          BY <2>6, <5>1 DEF MovedTo
        <5>4. t \in Tables /\ Acyclic(t) /\ ClosedIn(t, C)
          BY <2>1, <2>3, <3>1, <4>3 DEF ClosedIn
        <5> QED
          BY <5>2, <5>3, <5>4, MoveAcyclic, Zenon
      <4> QED
        BY <4>5
    <3>3. CASE ~NewParent(q)
      <4>1. row.parent = Null \/ row.parent = t[q.id].parent
        BY <2>2, <3>1, <3>3 DEF NewParent, Wanted
      <4>2. ASSUME NEW l \in Links(u) PROVE l \in Links(t)
        <5>1. PICK x, y : l = <<x, y>>
          BY DEF Links
        <5>2. x # q.id => l \in Links(t)
          BY <2>6, <5>1
        <5>3. ASSUME x = q.id PROVE l \in Links(t)
          <6>1. x \in Ids /\ y \in Ids /\ y = row.parent /\ y # Null
            BY <2>5, <2>6, <5>1, <5>3, LinkFacts, IdsFacts
          <6>2. y = t[x].parent /\ t[x] \in Rows
            BY <2>1, <3>1, <4>1, <5>3, <6>1
          <6> QED
            BY <5>1, <6>1, <6>2, StartsAssumption DEF Links, Present
        <5> QED
          BY <5>2, <5>3
      <4> QED
        BY <3>1, <4>2, FewerLinks
    <3> QED
      BY <3>2, <3>3
  <2>9. Sound(rows)'
    BY <1>5, <2>3, <2>4, <2>5, <2>8 DEF Sound
  <2> QED
    BY <1>3, <1>5, <2>7, <2>9, WriteKeeps
<1>6. QED
  BY <1>3, <1>4, <1>5

LEMMA CreateCheckKeeps ==
  ASSUME CatalogInv, NEW r \in Requests, CreateCheck(r)
  PROVE  CatalogInv'
<1>1. PICK i \in Ids, p \in Ids \cup {Null}, pc \in {"refused", "insert"} :
        req' = [req EXCEPT ![r] = [NewReq EXCEPT !.pc = pc, !.id = i, !.at = p]]
  BY DEF CreateCheck
<1>2. PICK d : d = [NewReq EXCEPT !.pc = pc, !.id = i, !.at = p]
  OBVIOUS
<1>3. Fits(d) /\ d.pc \in {"refused", "insert"} /\ d.id \in Ids /\ d.at \in Ids \cup {Null}
  BY <1>2 DEF Fits, Fields, NewReq
<1>4. PlaceInv(d) /\ UpdateInv(d)
  BY <1>3 DEF PlaceInv, UpdateInv, Updating
<1>5. Becomes(r, d)
  BY <1>1, <1>2, Becoming DEF CatalogInv
<1>6. QED
  BY <1>4, <1>5, ReadKeeps DEF CreateCheck, Quiet

LEMMA CreateSaveKeeps ==
  ASSUME CatalogInv, NEW r \in Requests, CreateSave(r)
  PROVE  CatalogInv'
<1>1. PICK i, p : i = req[r].id /\ p = req[r].at
  OBVIOUS
<1>2. PICK row : row = [parent |-> p, unit |-> "ml", syn |-> <<>>]
  OBVIOUS
<1>3. /\ req[r].pc = "insert" /\ UNCHANGED <<cache, cast, unchecked>>
      /\ \/ Step(r, "refused") /\ UNCHANGED <<rows, version>>
         \/ /\ rows[i] = Null /\ (p = Null \/ rows[p] # Null)
            /\ Step(r, "clear") /\ rows' = [rows EXCEPT ![i] = row] /\ version' = version + 1
  BY <1>1, <1>2, Zenon DEF CreateSave, Stage
<1>4. CASE Step(r, "refused") /\ UNCHANGED <<rows, version>>
  BY <1>3, <1>4, StepOver DEF Over
<1>5. CASE /\ rows[i] = Null /\ (p = Null \/ rows[p] # Null)
           /\ Step(r, "clear") /\ rows' = [rows EXCEPT ![i] = row] /\ version' = version + 1
  <2>1. i \in Ids /\ p \in Ids \cup {Null}
    BY <1>1, <1>3, FitsHere DEF PlaceInv
  <2>2. row \in Rows /\ row.parent = p
    <3>1. <<>> \in Seq(Names \cup Ids)
      OBVIOUS
    <3>2. "ml" \in Units
      BY DEF Units, GeneratedUnits
    <3>3. \A l \in Seq(Names \cup Ids), u \in Units : [parent |-> p, unit |-> u, syn |-> l] \in Rows
      BY <2>1 DEF Rows
    <3>4. row \in Rows
      BY <1>2, <3>1, <3>2, <3>3, Zenon
    <3> QED
      BY <1>2, <3>4
  <2>3. PICK t : t = rows
    OBVIOUS
  <2>4. t \in Tables
    BY <2>3, FitsHere
  <2>5. PICK u : u = [t EXCEPT ![i] = row]
    OBVIOUS
  <2>6. u \in Tables
    BY <1>5, <2>1, <2>2, <2>3, <2>4, <2>5, PutRow
  <2>7. \A x, y : <<x, y>> \in Links(u) => IF x = i THEN y = row.parent ELSE <<x, y>> \in Links(t)
    BY <2>1, <2>2, <2>4, <2>5, <2>6, PutLinks, Zenon
  <2>8. ASSUME NEW l \in Links(u) PROVE l \in Links(t) \cup {<<i, p>>} /\ (p = Null => l \in Links(t))
    <3>1. PICK x, y : l = <<x, y>>
      BY DEF Links
    <3>2. y \in Ids
      BY <2>6, <3>1, LinkFacts
    <3> QED
      BY <2>2, <2>7, <3>1, <3>2, IdsFacts
  <2>9. ASSUME ~unchecked' PROVE Acyclic(u)
    <3>1. Acyclic(t)
      BY <1>3, <2>3, <2>9 DEF CatalogInv, Sound
    <3>2. CASE p = Null
      BY <2>8, <3>1, <3>2, FewerLinks
    <3>3. CASE p # Null
      <4>1. t[i] = Null /\ p # i /\ Links(u) \subseteq Links(t) \cup {<<i, p>>}
        BY <1>5, <2>3, <2>8, <3>3
      <4> QED
        BY <2>1, <2>4, <3>1, <4>1, LeafAcyclic
    <3> QED
      BY <3>2, <3>3
  <2>10. Sound(rows)'
    BY <1>5, <2>3, <2>5, <2>6, <2>9 DEF Sound
  <2>11. unchecked' \in BOOLEAN /\ (unchecked => unchecked')
    BY <1>3, Zenon DEF CatalogInv
  <2> QED
    BY <1>3, <1>5, <2>10, <2>11, WriteKeeps
<1>6. QED
  BY <1>3, <1>4, <1>5

LEMMA RemoveReadKeeps ==
  ASSUME CatalogInv, NEW r \in Requests, RemoveRead(r)
  PROVE  CatalogInv'
<1>1. PICK i \in Ids : req' = [req EXCEPT ![r] = [NewReq EXCEPT !.pc = "delete", !.id = i]]
  BY DEF RemoveRead, Present
<1>2. PICK d : d = [NewReq EXCEPT !.pc = "delete", !.id = i]
  OBVIOUS
<1>3. Fits(d) /\ d.pc = "delete" /\ d.id \in Ids
  BY <1>2 DEF Fits, Fields, NewReq
<1>4. PlaceInv(d) /\ UpdateInv(d)
  BY <1>3 DEF PlaceInv, UpdateInv, Updating
<1>5. Becomes(r, d)
  BY <1>1, <1>2, Becoming DEF CatalogInv
<1>6. QED
  BY <1>4, <1>5, ReadKeeps DEF RemoveRead, Quiet

LEMMA RemoveRowKeeps ==
  ASSUME CatalogInv, NEW r \in Requests, RemoveRow(r)
  PROVE  CatalogInv'
<1>1. PICK i : i = req[r].id
  OBVIOUS
<1>2. PICK t : t = rows
  OBVIOUS
<1>3. PICK u : u = [k \in Ids |-> IF k = i THEN Null
                                  ELSE IF t[k] # Null /\ t[k].parent = i
                                       THEN [t[k] EXCEPT !.parent = Null] ELSE t[k]]
  OBVIOUS
<1>4. /\ req[r].pc = "delete" /\ UNCHANGED <<cache, cast, unchecked>>
      /\ \/ Step(r, "refused") /\ UNCHANGED <<rows, version>>
         \/ Step(r, "clear") /\ rows' = u /\ version' = version + 1
  BY <1>1, <1>2, <1>3, Zenon DEF RemoveRow, Stage
<1>5. CASE Step(r, "refused") /\ UNCHANGED <<rows, version>>
  BY <1>4, <1>5, StepOver DEF Over
<1>6. CASE Step(r, "clear") /\ rows' = u /\ version' = version + 1
  <2>1. t \in Tables
    BY <1>2, FitsHere
  <2>2. ASSUME NEW k \in Ids
        PROVE  \/ u[k] = Null
               \/ k # i /\ u[k] \in Rows /\ u[k].parent = Null
               \/ k # i /\ u[k] \in Rows /\ u[k] = t[k] /\ t[k].parent # i
    <3>1. t[k] \in Rows \cup {Null}
      BY <2>1 DEF Tables
    <3>2. CASE k = i
      BY <1>3, <3>2
    <3>3. CASE k # i /\ t[k] # Null /\ t[k].parent = i
      <4>1. u[k] = [t[k] EXCEPT !.parent = Null] /\ t[k] \in Rows
        BY <1>3, <3>1, <3>3
      <4> QED
        BY <3>3, <4>1 DEF Rows
    <3>4. CASE k # i /\ ~(t[k] # Null /\ t[k].parent = i)
      BY <1>3, <3>1, <3>4
    <3> QED
      BY <3>2, <3>3, <3>4
  <2>3. ASSUME NEW k \in Ids, k # i, t[k] # Null PROVE u[k] # Null
    BY <1>3, <2>1, <2>3, StartsAssumption DEF Tables, Rows
  <2>4. u \in Tables
    <3>1. u \in [Ids -> Rows \cup {Null}]
      BY <1>3, <2>2
    <3>2. ASSUME NEW k \in Present(u), u[k].parent # Null PROVE u[u[k].parent] # Null
      <4>1. k \in Ids /\ u[k] \in Rows /\ u[k] = t[k] /\ t[k].parent # i
        BY <2>2, <3>2 DEF Present
      <4>2. t[k].parent \in Ids /\ t[t[k].parent] # Null
        BY <2>1, <3>2, <4>1 DEF Present, Tables, Rows
      <4> QED
        BY <2>3, <4>1, <4>2
    <3> QED
      BY <3>1, <3>2 DEF Tables
  <2>5. ASSUME NEW l \in Links(u) PROVE l \in Links(t)
    <3>1. PICK x, y : l = <<x, y>>
      BY DEF Links
    <3>2. x \in Ids /\ y \in Ids /\ u[x] \in Rows /\ y = u[x].parent
      BY <2>4, <3>1, LinkFacts
    <3>3. u[x] = t[x]
      BY <2>2, <3>2, IdsFacts, StartsAssumption
    <3> QED
      BY <3>1, <3>2, <3>3, StartsAssumption, IdsFacts DEF Links, Present
  <2>6. ASSUME ~unchecked' PROVE Acyclic(u)
    <3>1. Acyclic(t)
      BY <1>2, <1>4, <2>6 DEF CatalogInv, Sound
    <3> QED
      BY <2>5, <3>1, FewerLinks
  <2>7. Sound(rows)'
    BY <1>6, <2>4, <2>6 DEF Sound
  <2>8. unchecked' \in BOOLEAN /\ (unchecked => unchecked')
    BY <1>4, Zenon DEF CatalogInv
  <2> QED
    BY <1>4, <1>6, <2>7, <2>8, WriteKeeps
<1>7. QED
  BY <1>4, <1>5, <1>6

\* A promotion goes on like an update that changes nothing.
LEMMA PromoteReadKeeps ==
  ASSUME CatalogInv, NEW r \in Requests, PromoteRead(r)
  PROVE  CatalogInv'
<1>1. PICK i \in Present(rows), pc \in {"refused", "save"} :
        req' = [req EXCEPT ![r] = [NewReq EXCEPT
          !.pc = pc, !.id = i, !.dto = Promotion, !.list = <<rows[i]>>, !.ver = version]]
  BY DEF PromoteRead
<1>2. PICK l : l = <<rows[i]>>
  OBVIOUS
<1>3. PICK d : d = [NewReq EXCEPT !.pc = pc, !.id = i, !.dto = Promotion, !.list = l, !.ver = version]
  OBVIOUS
<1>4. /\ Fits(d) /\ d.pc \in {"refused", "save"} /\ d.id = i /\ d.dto = Promotion /\ d.list = l
      /\ d.ver = version /\ d.seen = {} /\ l[1] = rows[i]
  BY <1>2, <1>3 DEF Fits, Fields, NewReq
<1>5. i \in Ids /\ rows[i] \in Rows /\ version \in Nat
  BY FitsHere DEF Present, Tables, CatalogInv
<1>6. ~NewParent(d)
  BY <1>4 DEF NewParent, Promotion
<1>7. PlaceInv(d)
  BY <1>4 DEF PlaceInv
<1>8. UpdateInv(d)
  BY <1>4, <1>5, <1>6 DEF UpdateInv, Updating
<1>9. Becomes(r, d)
  BY <1>1, <1>2, <1>3, Becoming DEF CatalogInv
<1>10. QED
  BY <1>7, <1>8, <1>9, ReadKeeps DEF PromoteRead, Quiet

LEMMA MergeReadKeeps ==
  ASSUME CatalogInv, NEW r \in Requests, MergeRead(r)
  PROVE  CatalogInv'
<1>1. PICK i \in Ids, j \in Ids, pc \in {"refused", "merge"} :
        req' = [req EXCEPT ![r] = [NewReq EXCEPT !.pc = pc, !.id = i, !.at = j]]
  BY DEF MergeRead, Present
<1>2. PICK d : d = [NewReq EXCEPT !.pc = pc, !.id = i, !.at = j]
  OBVIOUS
<1>3. Fits(d) /\ d.pc \in {"refused", "merge"} /\ d.id \in Ids /\ d.at \in Ids
  BY <1>2 DEF Fits, Fields, NewReq
<1>4. PlaceInv(d) /\ UpdateInv(d)
  BY <1>3 DEF PlaceInv, UpdateInv, Updating
<1>5. Becomes(r, d)
  BY <1>1, <1>2, Becoming DEF CatalogInv
<1>6. QED
  BY <1>4, <1>5, ReadKeeps DEF MergeRead, Quiet

Kids(t, i) == {k \in Present(t) : t[k].parent = i}
\* What a merge leaves of a table: the rows below i have a new parent, if any.
MergedIn(t, i, new) ==
  [k \in Ids |-> IF k = i THEN Null
                 ELSE IF t[k] # Null /\ t[k].parent = i
                      THEN [t[k] EXCEPT !.parent = new] ELSE t[k]]
KidsUnder(t, u, i, j) ==
  \A x, y : <<x, y>> \in Links(u) =>
    IF x \in Kids(t, i) THEN y = j /\ i # j ELSE <<x, y>> \in Links(t)
LEMMA MergedRows ==
  ASSUME NEW t, NEW i, NEW j, NEW new, NEW u, t \in Tables, i \in Ids, j \in Ids,
         ~(t[j] = Null /\ Kids(t, i) # {}),
         new = IF i = j THEN Null ELSE j, u = MergedIn(t, i, new)
  PROVE  u \in Tables /\ KidsUnder(t, u, i, j)
<1>1. ASSUME NEW k \in Ids
      PROVE  \/ u[k] = Null
             \/ k # i /\ u[k] \in Rows /\ u[k].parent = new /\ t[k] # Null /\ t[k].parent = i
             \/ k # i /\ u[k] \in Rows /\ u[k] = t[k] /\ t[k].parent # i
  <2>1. t[k] \in Rows \cup {Null}
    BY DEF Tables
  <2>2. CASE k = i
    BY <2>2 DEF MergedIn
  <2>3. CASE k # i /\ t[k] # Null /\ t[k].parent = i
    <3>1. u[k] = [t[k] EXCEPT !.parent = new] /\ t[k] \in Rows
      BY <2>1, <2>3 DEF MergedIn
    <3> QED
      BY <2>3, <3>1 DEF Rows
  <2>4. CASE k # i /\ ~(t[k] # Null /\ t[k].parent = i)
    BY <2>1, <2>4 DEF MergedIn
  <2> QED
    BY <2>2, <2>3, <2>4
<1>2. ASSUME NEW k \in Ids, k # i, t[k] # Null PROVE u[k] # Null
  BY <1>2, StartsAssumption DEF MergedIn, Tables, Rows
<1>3. u \in Tables
  <2>1. u \in [Ids -> Rows \cup {Null}]
    BY <1>1 DEF MergedIn
  <2>2. ASSUME NEW k \in Present(u), u[k].parent # Null PROVE u[u[k].parent] # Null
    <3>1. k \in Ids /\ u[k] # Null
      BY DEF Present
    <3>2. CASE u[k].parent = new /\ t[k] # Null /\ t[k].parent = i
      <4>1. i # j /\ u[k].parent = j
        BY <2>2, <3>2
      <4>2. t[j] # Null
        BY <3>1, <3>2 DEF Present, Kids
      <4> QED
        BY <1>2, <4>1, <4>2
    <3>3. CASE u[k] \in Rows /\ u[k] = t[k] /\ t[k].parent # i
      <4>1. t[k].parent \in Ids /\ t[t[k].parent] # Null
        BY <2>2, <3>1, <3>3 DEF Present, Tables, Rows
      <4> QED
        BY <1>2, <3>3, <4>1
    <3> QED
      BY <1>1, <3>1, <3>2, <3>3
  <2> QED
    BY <2>1, <2>2 DEF Tables
<1>4. ASSUME NEW x, NEW y, <<x, y>> \in Links(u)
      PROVE  IF x \in Kids(t, i) THEN y = j /\ i # j ELSE <<x, y>> \in Links(t)
  <2>1. x \in Ids /\ y \in Ids /\ u[x] \in Rows /\ y = u[x].parent
    BY <1>3, <1>4, LinkFacts, Zenon
  <2>2. y # Null /\ u[x] # Null
    BY <2>1, IdsFacts, StartsAssumption
  <2>3. CASE u[x].parent = new /\ t[x] # Null /\ t[x].parent = i
    BY <2>1, <2>2, <2>3 DEF Kids, Present
  <2>4. CASE u[x] \in Rows /\ u[x] = t[x] /\ t[x].parent # i
    BY <2>1, <2>2, <2>4 DEF Links, Present, Kids
  <2> QED
    BY <1>1, <2>1, <2>2, <2>3, <2>4
<1>5. QED
  BY <1>3, <1>4 DEF KidsUnder

\* A merge of an ingredient into one that is not below it makes no cycle.
LEMMA MergeAcyclic ==
  ASSUME NEW t \in Tables, Acyclic(t), NEW i \in Ids, NEW j \in Ids, NEW u,
         ~(t[j] = Null /\ Kids(t, i) # {}),
         ~(i # j /\ Contains(Ancestors(t, j), i)), KidsUnder(t, u, i, j)
  PROVE  Acyclic(u)
<1> USE DEF KidsUnder
<1> DEFINE M == Kids(t, i)
<1>1. CASE i = j \/ t[j] = Null
  <2>1. ASSUME NEW l \in Links(u) PROVE l \in Links(t)
    <3>1. PICK x, y : l = <<x, y>>
      BY DEF Links
    <3>2. ~(x \in Kids(t, i) /\ i # j)
      BY <1>1
    <3> QED
      BY <3>1, <3>2
  <2> QED
    BY <2>1, FewerLinks
<1>2. CASE i # j /\ t[j] # Null
  <2>1. PICK C \in SUBSET Ids :
          /\ j \in C /\ \A x, y : (x \in C /\ <<x, y>> \in Links(t)) => y \in C
          /\ \A k \in C : k = j \/ Contains(Ancestors(t, j), k)
    <3>1. j \in Present(t)
      BY <1>2 DEF Present
    <3> QED
      BY <3>1, WalkClosed
  <2>2. i \notin C
    BY <1>2, <2>1
  <2>3. ASSUME NEW x \in C, x \in M PROVE FALSE
    <3>1. <<x, i>> \in Links(t)
      BY <2>3, IdsFacts DEF Links, Kids
    <3> QED
      BY <2>1, <2>2, <3>1
  <2>4. M \subseteq Ids /\ C \subseteq Ids \ M /\ j \in C
    BY <2>1, <2>3 DEF Present, Kids
  <2>5. MovedTo(t, u, M, j)
    BY DEF MovedTo
  <2>6. t \in Tables /\ Acyclic(t) /\ ClosedIn(t, C)
    BY <2>1 DEF ClosedIn
  <2> HIDE DEF M
  <2> QED
    BY <2>4, <2>5, <2>6, MoveAcyclic, Zenon
<1>3. QED
  BY <1>1, <1>2

LEMMA MergeCommitKeeps ==
  ASSUME CatalogInv, NEW r \in Requests, MergeCommit(r)
  PROVE  CatalogInv'
<1>1. PICK i, j : i = req[r].id /\ j = req[r].at
  OBVIOUS
<1>2. PICK t : t = rows
  OBVIOUS
<1>3. PICK new : new = IF i = j THEN Null ELSE j
  OBVIOUS
<1>4. PICK u : u = MergedIn(t, i, new)
  OBVIOUS
<1>5. Merged(i, j) = u
  BY <1>2, <1>3, <1>4, Zenon DEF Merged, MergedIn
<1>6. /\ req[r].pc = "merge" /\ UNCHANGED <<cache, cast>>
      /\ \/ Step(r, "refused") /\ UNCHANGED <<rows, version, unchecked>>
         \/ /\ ~(t[j] = Null /\ Kids(t, i) # {})
            /\ Step(r, "clear") /\ rows' = u /\ version' = version + 1
            /\ unchecked' = (unchecked \/ (i # j /\ Contains(Ancestors(t, j), i)))
  BY <1>1, <1>2, <1>5 DEF MergeCommit, Stage, Kids
<1>7. CASE Step(r, "refused") /\ UNCHANGED <<rows, version, unchecked>>
  BY <1>6, <1>7, StepOver DEF Over
<1>8. CASE /\ ~(t[j] = Null /\ Kids(t, i) # {})
           /\ Step(r, "clear") /\ rows' = u /\ version' = version + 1
           /\ unchecked' = (unchecked \/ (i # j /\ Contains(Ancestors(t, j), i)))
  <2>1. t \in Tables /\ i \in Ids /\ j \in Ids
    BY <1>1, <1>2, <1>6, FitsHere DEF PlaceInv
  <2>2. u \in Tables /\ KidsUnder(t, u, i, j)
    BY <1>3, <1>4, <1>8, <2>1, MergedRows, Zenon
  <2>3. unchecked' \in BOOLEAN /\ (unchecked => unchecked')
        /\ (~unchecked' => ~unchecked /\ ~(i # j /\ Contains(Ancestors(t, j), i)))
    BY <1>8, Zenon
  <2>4. ASSUME ~unchecked' PROVE Acyclic(u)
    <3>1. Acyclic(t)
      BY <1>2, <2>3, <2>4 DEF CatalogInv, Sound
    <3> QED
      BY <1>8, <2>1, <2>2, <2>3, <2>4, <3>1, MergeAcyclic
  <2>5. Sound(rows)'
    BY <1>8, <2>2, <2>4 DEF Sound
  <2> QED
    BY <1>6, <1>8, <2>3, <2>5, WriteKeeps
<1>9. QED
  BY <1>6, <1>7, <1>8

LEMMA SynonymReadKeeps ==
  ASSUME CatalogInv, NEW r \in Requests, SynonymRead(r)
  PROVE  CatalogInv'
<1>1. PICK i \in Present(rows), n \in Names, pc \in {"refused", "save synonym"} :
        req' = [req EXCEPT ![r] = [NewReq EXCEPT
          !.pc = pc, !.id = i, !.list = <<[rows[i] EXCEPT !.syn = Append(@, n)]>>]]
  BY DEF SynonymRead
<1>2. PICK row : row = [rows[i] EXCEPT !.syn = Append(@, n)]
  OBVIOUS
<1>3. row \in Rows
  <2>1. rows[i] \in Rows
    BY FitsHere DEF Present, Tables
  <2>2. rows[i].syn \in Seq(Names \cup Ids)
    BY <2>1 DEF Rows
  <2>3. PICK l : l = Append(rows[i].syn, n)
    OBVIOUS
  <2>4. l \in Seq(Names \cup Ids)
    <3>1. PICK s, S : s = rows[i].syn /\ S = Names \cup Ids
      OBVIOUS
    <3>2. s \in Seq(S) /\ n \in S
      BY <2>2, <3>1
    <3>3. Append(s, n) \in Seq(S)
      BY <3>2, AppendProperties, Zenon
    <3> QED
      BY <2>3, <3>1, <3>3
  <2>5. row = [rows[i] EXCEPT !.syn = l]
    BY <1>2, <2>3
  <2> QED
    BY <2>1, <2>4, <2>5 DEF Rows
<1>4. PICK l : l = <<row>>
  OBVIOUS
<1>5. PICK d : d = [NewReq EXCEPT !.pc = pc, !.id = i, !.list = l]
  OBVIOUS
<1>6. Fits(d) /\ d.pc \in {"refused", "save synonym"} /\ d.id \in Ids /\ d.list[1] \in Rows
  BY <1>3, <1>4, <1>5 DEF Fits, Fields, NewReq, Present
<1>7. PlaceInv(d) /\ UpdateInv(d)
  BY <1>6 DEF PlaceInv, UpdateInv, Updating
<1>8. Becomes(r, d)
  BY <1>1, <1>2, <1>4, <1>5, Becoming DEF CatalogInv
<1>9. QED
  BY <1>7, <1>8, ReadKeeps DEF SynonymRead, Quiet

LEMMA SynonymSaveKeeps ==
  ASSUME CatalogInv, NEW r \in Requests, SynonymSave(r)
  PROVE  CatalogInv'
<1>1. PICK i, row : i = req[r].id /\ row = req[r].list[1]
  OBVIOUS
<1>2. PICK t : t = rows
  OBVIOUS
<1>3. PICK u : u = [t EXCEPT ![i] = row]
  OBVIOUS
<1>4. /\ req[r].pc = "save synonym" /\ UNCHANGED <<cache, cast>>
      /\ \/ Step(r, "refused") /\ UNCHANGED <<rows, version, unchecked>>
         \/ /\ ~(row.parent # Null /\ t[row.parent] = Null)
            /\ Step(r, "done") /\ rows' = u /\ version' = version + 1
            /\ unchecked' = (unchecked \/ ~Agree(t[i], row))
  BY <1>1, <1>2, <1>3, Zenon DEF SynonymSave, Stage
<1>5. CASE Step(r, "refused") /\ UNCHANGED <<rows, version, unchecked>>
  BY <1>4, <1>5, StepOver DEF Over
<1>6. CASE /\ ~(row.parent # Null /\ t[row.parent] = Null)
           /\ Step(r, "done") /\ rows' = u /\ version' = version + 1
           /\ unchecked' = (unchecked \/ ~Agree(t[i], row))
  <2>1. t \in Tables /\ i \in Ids /\ row \in Rows
    BY <1>1, <1>2, <1>4, FitsHere DEF PlaceInv
  <2>2. u \in Tables
    BY <1>3, <1>6, <2>1, PutRow
  <2>3. unchecked' \in BOOLEAN /\ (unchecked => unchecked') /\ (~unchecked' => ~unchecked /\ Agree(t[i], row))
    BY <1>6, Zenon
  <2>4. ASSUME ~unchecked' PROVE Acyclic(u)
    <3>1. Acyclic(t) /\ Agree(t[i], row)
      BY <1>2, <2>3, <2>4 DEF CatalogInv, Sound
    <3>2. t[i] \in Rows /\ t[i].parent = row.parent
      BY <2>1, <3>1, StartsAssumption DEF Agree, Tables
    <3>3. ASSUME NEW l \in Links(u) PROVE l \in Links(t)
      <4>1. PICK x, y : l = <<x, y>>
        BY DEF Links
      <4>2. x \in Ids /\ y \in Ids /\ IF x = i THEN y = row.parent ELSE <<x, y>> \in Links(t)
        <5>1. <<x, y>> \in Links(u)
          BY <4>1
        <5>2. x \in Ids /\ y \in Ids
          BY <2>2, <5>1, LinkFacts
        <5>3. IF x = i THEN y = row.parent ELSE <<x, y>> \in Links(t)
          BY <1>3, <2>1, <2>2, <5>1, PutLinks, Zenon
        <5> QED
          BY <5>2, <5>3
      <4> QED
        BY <3>2, <4>1, <4>2, StartsAssumption, IdsFacts DEF Links, Present
    <3> QED
      BY <3>1, <3>3, FewerLinks
  <2>5. Sound(rows)'
    BY <1>6, <2>2, <2>4 DEF Sound
  <2> QED
    BY <1>4, <1>6, <2>3, <2>5, WriteKeeps
<1>7. QED
  BY <1>4, <1>5, <1>6

LEMMA GeneratedReadKeeps ==
  ASSUME CatalogInv, NEW r \in Requests, GeneratedRead(r)
  PROVE  CatalogInv'
<1>1. PICK i \in Ids : req' = [req EXCEPT ![r] = [NewReq EXCEPT !.pc = "generated", !.id = i]]
  BY DEF GeneratedRead
<1>2. PICK d : d = [NewReq EXCEPT !.pc = "generated", !.id = i]
  OBVIOUS
<1>3. Fits(d) /\ d.pc = "generated" /\ d.id \in Ids
  BY <1>2 DEF Fits, Fields, NewReq
<1>4. PlaceInv(d) /\ UpdateInv(d)
  BY <1>3 DEF PlaceInv, UpdateInv, Updating
<1>5. Becomes(r, d)
  BY <1>1, <1>2, Becoming DEF CatalogInv
<1>6. QED
  BY <1>4, <1>5, ReadKeeps DEF GeneratedRead, Quiet

LEMMA GeneratedInsertKeeps ==
  ASSUME CatalogInv, NEW r \in Requests, GeneratedInsert(r)
  PROVE  CatalogInv'
<1>1. PICK i : i = req[r].id
  OBVIOUS
<1>2. PICK t : t = rows
  OBVIOUS
<1>3. /\ req[r].pc = "generated" /\ UNCHANGED <<cache, cast, unchecked>>
      /\ \/ Step(r, "refused") /\ UNCHANGED <<rows, version>>
         \/ /\ t[i] = Null /\ Step(r, "done") /\ version' = version + 1
            /\ \E unit \in GeneratedUnits : rows' = [t EXCEPT ![i] = [parent |-> Null, unit |-> unit, syn |-> <<>>]]
  BY <1>1, <1>2, Zenon DEF GeneratedInsert, Stage
<1>4. CASE Step(r, "refused") /\ UNCHANGED <<rows, version>>
  BY <1>3, <1>4, StepOver DEF Over
<1>5. CASE /\ t[i] = Null /\ Step(r, "done") /\ version' = version + 1
           /\ \E unit \in GeneratedUnits : rows' = [t EXCEPT ![i] = [parent |-> Null, unit |-> unit, syn |-> <<>>]]
  <2>1. PICK unit \in GeneratedUnits : rows' = [t EXCEPT ![i] = [parent |-> Null, unit |-> unit, syn |-> <<>>]]
    BY <1>5
  <2>2. PICK row : row = [parent |-> Null, unit |-> unit, syn |-> <<>>]
    OBVIOUS
  <2>3. row \in Rows /\ row.parent = Null
    <3>1. <<>> \in Seq(Names \cup Ids)
      OBVIOUS
    <3>2. unit \in Units
      BY DEF Units
    <3>3. \A l \in Seq(Names \cup Ids), v \in Units : [parent |-> Null, unit |-> v, syn |-> l] \in Rows
      BY DEF Rows
    <3>4. row \in Rows
      BY <2>2, <3>1, <3>2, <3>3, Zenon
    <3> QED
      BY <2>2, <3>4
  <2>4. t \in Tables /\ i \in Ids
    BY <1>1, <1>2, <1>3, FitsHere DEF PlaceInv
  <2>5. PICK u : u = [t EXCEPT ![i] = row]
    OBVIOUS
  <2>6. u \in Tables
    BY <2>3, <2>4, <2>5, PutRow
  <2>7. ASSUME NEW l \in Links(u) PROVE l \in Links(t)
    <3>1. PICK x, y : l = <<x, y>>
      BY DEF Links
    <3>2. y \in Ids /\ IF x = i THEN y = row.parent ELSE <<x, y>> \in Links(t)
      <4>1. <<x, y>> \in Links(u)
        BY <3>1
      <4>2. y \in Ids
        BY <2>6, <4>1, LinkFacts
      <4>3. IF x = i THEN y = row.parent ELSE <<x, y>> \in Links(t)
        BY <2>3, <2>4, <2>5, <2>6, <4>1, PutLinks, Zenon
      <4> QED
        BY <4>2, <4>3
    <3> QED
      BY <2>3, <3>1, <3>2, IdsFacts
  <2>8. ASSUME ~unchecked' PROVE Acyclic(u)
    <3>1. Acyclic(t)
      BY <1>2, <1>3, <2>8 DEF CatalogInv, Sound
    <3> QED
      BY <2>7, <3>1, FewerLinks
  <2>9. Sound(rows)'
    BY <2>1, <2>2, <2>5, <2>6, <2>8 DEF Sound
  <2>10. unchecked' \in BOOLEAN /\ (unchecked => unchecked')
    BY <1>3, Zenon DEF CatalogInv
  <2> QED
    BY <1>3, <1>5, <2>9, <2>10, WriteKeeps
<1>6. QED
  BY <1>3, <1>4, <1>5

LEMMA ClearCacheKeeps ==
  ASSUME CatalogInv, NEW r \in Requests, ClearCache(r)
  PROVE  CatalogInv'
<1>1. PICK d : Becomes(r, d) /\ Fits(d) /\ d.pc = "done"
  BY Stepped DEF ClearCache
<1>2. PlaceInv(d) /\ UpdateInv(d)
  BY <1>1, OverFits DEF Over
<1>3. UNCHANGED <<rows, version, unchecked, cast>> /\ cache' = [e \in Entries |-> Null]
  BY DEF ClearCache, Quiet
<1>4. ASSUME NEW s \in Requests PROVE ReqInv(s)'
  <2>1. CASE s = r
    <3>1. PlaceInv(d)' /\ UpdateInv(d)'
      BY <1>1 DEF PlaceInv, UpdateInv, Updating, Fits
    <3> QED
      BY <1>1, <2>1, <3>1 DEF ReqInv, Becomes
  <2>2. CASE s # r
    BY <1>1, <1>3, <2>2, OthersStay DEF Becomes
  <2> QED
    BY <2>1, <2>2
<1>5. (\A i \in Ids : <<"row", i>> \in Entries) /\ <<"all">> \in Entries
  BY DEF Entries
<1>6. Sound(rows)' /\ cache'[<<"all">>] = Null
  BY <1>3, <1>5 DEF CatalogInv, Sound
<1>7. QED
  BY <1>1, <1>3, <1>4, <1>5, <1>6 DEF CatalogInv, Becomes

-----------------------------------------------------------------------------
LEMMA InitCatalog == Init => CatalogInv
<1> SUFFICES ASSUME Init PROVE CatalogInv
  OBVIOUS
<1>1. PICK start \in Starts : rows = start.rows /\ cast = start.cast
  BY DEF Init
<1>2. rows \in Tables /\ Acyclic(rows) /\ cast \subseteq Requests
  BY <1>1, StartsAssumption
<1>3. version = 0 /\ unchecked = FALSE /\ cache = [e \in Entries |-> Null] /\ req = [r \in Requests |-> NewReq]
  BY DEF Init
<1>4. Fits(NewReq) /\ NewReq.pc = "new"
  BY DEF Fits, Fields, NewReq
<1>5. PlaceInv(NewReq) /\ UpdateInv(NewReq)
  BY <1>4, OverFits DEF Over
<1>6. \A r \in Requests : ReqInv(r)
  BY <1>3, <1>5 DEF ReqInv
<1>7. (\A i \in Ids : cache[<<"row", i>>] = Null) /\ cache[<<"all">>] = Null
  BY <1>3 DEF Entries
<1>8. QED
  BY <1>2, <1>3, <1>6, <1>7 DEF CatalogInv, Sound

LEMMA StepCatalog == CatalogInv /\ [Next]_vars => CatalogInv'
<1> SUFFICES ASSUME CatalogInv, [Next]_vars PROVE CatalogInv'
  OBVIOUS
<1>1. cast \subseteq Requests /\ Writers \subseteq Requests /\ (Walkers \cup Searchers) \cap Writers = {}
  BY RequestsAssumption DEF CatalogInv, Requests
<1>2. ASSUME NEW r \in cast, AskHit(r) \/ AskMiss(r) \/ AskFill(r) PROVE CatalogInv'
  BY <1>1, <1>2, AskHitKeeps, AskMissKeeps, AskFillKeeps
<1>3. ASSUME NEW r \in cast \cap Walkers, UpStart(r) \/ UpStore(r) \/ DownStart(r) \/ DownStore(r) PROVE CatalogInv'
  BY <1>1, <1>3, UpStartKeeps, UpStoreKeeps, DownStartKeeps, DownStoreKeeps
<1>4. ASSUME NEW r \in cast \cap Searchers,
             \/ SearchName(r) \/ SearchFillName(r) \/ SearchCached(r)
             \/ SearchRead(r) \/ SearchFill(r)
      PROVE  CatalogInv'
  <2>1. r \in Requests \ Writers
    BY <1>1
  <2> QED
    BY <1>4, <2>1, SearchNameKeeps, SearchFillNameKeeps, SearchCachedKeeps, SearchReadKeeps, SearchFillKeeps
<1>5. ASSUME NEW r \in cast \cap Writers,
             \/ UpdateRead(r) \/ UpdateUnits(r) \/ UpdateSave(r) \/ CreateCheck(r)
             \/ CreateSave(r) \/ RemoveRead(r) \/ RemoveRow(r) \/ ClearCache(r)
             \/ PromoteRead(r) \/ MergeRead(r) \/ MergeCommit(r)
             \/ SynonymRead(r) \/ SynonymSave(r) \/ GeneratedRead(r) \/ GeneratedInsert(r)
      PROVE  CatalogInv'
  <2>1. r \in Requests /\ r \in Writers
    BY <1>1
  <2> QED
    BY <1>5, <2>1, UpdateReadKeeps, UpdateUnitsKeeps, UpdateSaveKeeps, CreateCheckKeeps,
       CreateSaveKeeps, RemoveReadKeeps, RemoveRowKeeps, ClearCacheKeeps, PromoteReadKeeps,
       MergeReadKeeps, MergeCommitKeeps, SynonymReadKeeps, SynonymSaveKeeps, GeneratedReadKeeps,
       GeneratedInsertKeeps
<1>6. ASSUME NEW e \in Entries, Lapse(e) PROVE CatalogInv'
  <2>1. UNCHANGED <<rows, req, cast, version, unchecked>> /\ cache' = [cache EXCEPT ![e] = Null]
    BY <1>6 DEF Lapse
  <2>2. cache' = [k \in Entries |-> cache'[k]] /\ \A k \in Entries : cache'[k] \in {cache[k], Null}
    BY <2>1 DEF CatalogInv
  <2> QED
    BY <2>1, <2>2, StandStill
<1>7. ASSUME NEW i \in Targets, Use(i) PROVE CatalogInv'
  BY <1>7, StandStill DEF Use, Stage, CatalogInv
<1>8. CASE UNCHANGED vars
  BY <1>8, StandStill DEF vars, CatalogInv
<1>9. QED
  BY <1>2, <1>3, <1>4, <1>5, <1>6, <1>7, <1>8 DEF Next

\* A cycle in the ingredient table, or a search that walks up one for ever,
\* takes a row written back over another write, a parent checked against a
\* stale entry, or a merge into an ingredient below the one merged: what
\* detectCycle has walked over is closed as long as nothing is written, so the
\* row does not move below itself; neither do the rows a merge moves under an
\* ingredient beside; create adds a leaf, and remove cuts links
\* (ingredients.service.ts, admin.service.ts).
THEOREM CyclesAreUncheckedHolds == Spec => []CyclesAreUnchecked
<1>1. CatalogInv => CyclesAreUnchecked
  <2> SUFFICES ASSUME CatalogInv, ~unchecked PROVE Acyclic(rows) /\ \A r \in Searchers : req[r].pc # "hangs"
    BY DEF CyclesAreUnchecked
  <2>1. \A r \in Searchers : r \in Requests
    BY DEF Requests
  <2> QED
    BY <2>1 DEF CatalogInv, Sound, ReqInv, PlaceInv
<1>2. QED
  BY InitCatalog, StepCatalog, <1>1, PTL DEF Spec

-----------------------------------------------------------------------------
(* Entries that are out of date.                                            *)

\* A step of a request that is not before its clearCache, which puts one
\* entry into the cache or none.
LEMMA PutKeeps ==
  ASSUME CatalogInv, StaleOnlyByRace, UNCHANGED <<rows, added>>, NEW r, NEW d, req' = [req EXCEPT ![r] = d],
         req[r].pc # "clear",
         (UNCHANGED <<cache, late>>) \/ \E e, v : Put(e, v)
  PROVE  StaleOnlyByRace'
<1>1. \A s \in Writers : req[s].pc = "clear" => req'[s].pc = "clear"
  BY DEF CatalogInv, Requests
<1>2. SUFFICES ASSUME NEW e \in Entries, cache'[e] # Null, ~Alike(rows, added, e, cache'[e])
               PROVE  e \in late' \/ \E s \in Writers : req'[s].pc = "clear"
  BY DEF StaleOnlyByRace
<1>3. CASE UNCHANGED <<cache, late>>
  BY <1>1, <1>2, <1>3 DEF StaleOnlyByRace
<1>4. CASE \E k, v : Put(k, v)
  <2>1. PICK k, v : /\ cache' = [cache EXCEPT ![k] = v]
                    /\ late' = IF Alike(rows, added, k, v) THEN late \ {k} ELSE late \cup {k}
    BY <1>4 DEF Put
  <2>2. CASE e = k
    BY <1>2, <2>1, <2>2 DEF CatalogInv
  <2>3. CASE e # k
    BY <1>1, <1>2, <2>1, <2>3 DEF StaleOnlyByRace, CatalogInv
  <2> QED
    BY <2>2, <2>3
<1>5. QED
  BY <1>3, <1>4

\* A writer that is before its clearCache accounts for every entry.
LEMMA ClearAhead ==
  ASSUME CatalogInv, NEW r \in Writers, Step(r, "clear")
  PROVE  StaleOnlyByRace'
<1>1. PICK d : Becomes(r, d) /\ d.pc = "clear"
  BY Stepped DEF Requests
<1>2. req'[r].pc = "clear"
  BY <1>1 DEF Becomes, Requests
<1>3. QED
  BY <1>2 DEF StaleOnlyByRace

LEMMA StepAside ==
  ASSUME CatalogInv, StaleOnlyByRace, UNCHANGED <<rows, added, cache, late>>, NEW r \in Requests, NEW p, Step(r, p),
         req[r].pc # "clear"
  PROVE  StaleOnlyByRace'
<1>1. PICK d : d = [req[r] EXCEPT !.pc = p]
  OBVIOUS
<1>2. req' = [req EXCEPT ![r] = d]
  BY <1>1 DEF Step
<1>3. QED
  BY <1>2, PutKeeps

LEMMA AsksLeaveTrue ==
  ASSUME CatalogInv, StaleOnlyByRace, NEW r \in Requests, AskHit(r) \/ AskMiss(r) \/ AskFill(r)
  PROVE  StaleOnlyByRace'
<1>1. CASE AskHit(r)
  <2>1. PICK d : req' = [req EXCEPT ![r] = d]
    BY <1>1, Zenon DEF AskHit
  <2> QED
    BY <1>1, <2>1, PutKeeps DEF AskHit, Quiet
<1>2. CASE AskMiss(r)
  <2>1. PICK d : req' = [req EXCEPT ![r] = d]
    BY <1>2, Zenon DEF AskMiss
  <2> QED
    BY <1>2, <2>1, PutKeeps DEF AskMiss, Quiet
<1>3. CASE AskFill(r)
  <2>1. PICK d : req' = [req EXCEPT ![r] = d]
    BY <1>3, Zenon DEF AskFill
  <2>2. \E e, v : Put(e, v)
    BY <1>3, Zenon DEF AskFill
  <2> QED
    BY <1>3, <2>1, <2>2, PutKeeps DEF AskFill, Quiet
<1>4. QED
  BY <1>1, <1>2, <1>3

LEMMA WalksLeaveTrue ==
  ASSUME CatalogInv, StaleOnlyByRace, NEW r \in Requests, UpStart(r) \/ UpStore(r) \/ DownStart(r) \/ DownStore(r)
  PROVE  StaleOnlyByRace'
<1>1. CASE UpStart(r)
  <2>1. PICK d : req' = [req EXCEPT ![r] = d]
    BY <1>1, Zenon DEF UpStart
  <2> QED
    BY <1>1, <2>1, PutKeeps DEF UpStart, Quiet
<1>2. CASE UpStore(r)
  <2>1. PICK d : d = [req[r] EXCEPT !.pc = "done"]
    OBVIOUS
  <2>2. req' = [req EXCEPT ![r] = d]
    BY <1>2, <2>1 DEF UpStore, Step
  <2>3. \E e, v : Put(e, v)
    BY <1>2, Zenon DEF UpStore
  <2> QED
    BY <1>2, <2>2, <2>3, PutKeeps DEF UpStore, Quiet
<1>3. CASE DownStart(r)
  <2>1. PICK d : req' = [req EXCEPT ![r] = d]
    BY <1>3, Zenon DEF DownStart
  <2> QED
    BY <1>3, <2>1, PutKeeps DEF DownStart, Quiet
<1>4. CASE DownStore(r)
  <2>1. PICK d : d = [req[r] EXCEPT !.pc = "done"]
    OBVIOUS
  <2>2. req' = [req EXCEPT ![r] = d]
    BY <1>4, <2>1 DEF DownStore, Step
  <2>3. \E e, v : Put(e, v)
    BY <1>4, Zenon DEF DownStore
  <2> QED
    BY <1>4, <2>2, <2>3, PutKeeps DEF DownStore, Quiet
<1>5. QED
  BY <1>1, <1>2, <1>3, <1>4

LEMMA SearchesLeaveTrue ==
  ASSUME CatalogInv, StaleOnlyByRace, NEW r \in Requests,
         \/ SearchName(r) \/ SearchFillName(r) \/ SearchCached(r)
         \/ SearchRead(r) \/ SearchFill(r)
  PROVE  StaleOnlyByRace'
<1>1. CASE SearchName(r)
  <2>1. PICK d : req' = [req EXCEPT ![r] = d]
    BY <1>1, Zenon DEF SearchName
  <2> QED
    BY <1>1, <2>1, PutKeeps DEF SearchName, Quiet
<1>2. CASE SearchFillName(r)
  <2>1. PICK d : req' = [req EXCEPT ![r] = d]
    BY <1>2, Zenon DEF SearchFillName
  <2>2. \E e, v : Put(e, v)
    BY <1>2, Zenon DEF SearchFillName
  <2> QED
    BY <1>2, <2>1, <2>2, PutKeeps DEF SearchFillName, Quiet
<1>3. CASE SearchCached(r)
  <2>1. PICK d : req' = [req EXCEPT ![r] = d]
    BY <1>3, Zenon DEF SearchCached
  <2> QED
    BY <1>3, <2>1, PutKeeps DEF SearchCached, Quiet
<1>4. CASE SearchRead(r)
  <2>1. PICK d : req' = [req EXCEPT ![r] = d]
    BY <1>4, Zenon DEF SearchRead
  <2> QED
    BY <1>4, <2>1, PutKeeps DEF SearchRead, Quiet
<1>5. CASE SearchFill(r)
  <2>1. PICK d : req' = [req EXCEPT ![r] = d]
    BY <1>5, Zenon DEF SearchFill
  <2>2. \E e, v : Put(e, v)
    BY <1>5, Zenon DEF SearchFill
  <2> QED
    BY <1>5, <2>1, <2>2, PutKeeps DEF SearchFill, Quiet
<1>6. QED
  BY <1>1, <1>2, <1>3, <1>4, <1>5

\* A row put where it makes no parent changes no list of relatives.
SameParent(t, i, row) == row.parent = IF t[i] = Null THEN Null ELSE t[i].parent
SameLists(t, u) == \A k : Ancestors(u, k) = Ancestors(t, k) /\ Descendants(u, k) = Descendants(t, k)
LEMMA SameRelatives ==
  ASSUME NEW t, NEW i, NEW row, NEW u, t \in Tables, i \in Ids, row \in Rows, u = [t EXCEPT ![i] = row],
         SameParent(t, i, row)
  PROVE  SameLists(t, u)
<1>1. \A k \in Ids : u[k] = IF k = i THEN row ELSE t[k]
  BY DEF Tables
<1>2. ParentsOf(u) = ParentsOf(t)
  <2>1. ASSUME NEW k \in Ids
        PROVE  (IF u[k] = Null THEN Null ELSE u[k].parent) = (IF t[k] = Null THEN Null ELSE t[k].parent)
    BY <1>1, StartsAssumption DEF SameParent
  <2> QED
    BY <2>1 DEF ParentsOf
<1>3. QED
  BY <1>2 DEF SameLists, Ancestors, Descendants

\* A synonym more or an ingredient more does not make an entry wrong.
LEMMA StaysAlike ==
  ASSUME NEW t \in Tables, NEW i \in Ids, NEW row \in Rows, NEW u, u = [t EXCEPT ![i] = row],
         NEW new, NEW more, new \subseteq more,
         \/ t[i] # Null /\ Agree(t[i], row)
         \/ t[i] = Null /\ row.parent = Null /\ i \in more,
         NEW e \in Entries, NEW v, v # Null, Alike(t, new, e, v)
  PROVE  Alike(u, more, e, v)
<1>1. /\ \A k \in Ids : u[k] = IF k = i THEN row ELSE t[k]
      /\ row # Null
  BY StartsAssumption DEF Tables
<1>2. CASE e = <<"all">>
  <2>1. \A k \in Ids : Agree(t[k], v[k]) \/ (v[k] = Null /\ k \in new)
    BY <1>2 DEF Alike
  <2>2. ASSUME NEW k \in Ids PROVE Agree(u[k], v[k]) \/ (v[k] = Null /\ k \in more)
    <3>1. CASE k # i
      BY <1>1, <2>1, <3>1
    <3>2. CASE k = i
      BY <1>1, <2>1, <3>2 DEF Agree
    <3> QED
      BY <3>1, <3>2
  <2> QED
    BY <1>2, <2>2 DEF Alike
<1>3. CASE e # <<"all">>
  <2>1. e[1] \in {"row", "name", "up", "down"} /\ e[2] \in Ids
    BY <1>3 DEF Entries
  <2>2. SameLists(t, u)
    <3>1. SameParent(t, i, row)
      BY <1>1 DEF Agree, SameParent
    <3>2. t \in Tables /\ i \in Ids /\ row \in Rows /\ u = [t EXCEPT ![i] = row]
      OBVIOUS
    <3> QED
      BY <3>1, <3>2, SameRelatives, Zenon
  <2>3. CASE e[1] = "up"
    BY <1>3, <2>2, <2>3 DEF Alike, SameLists
  <2>4. CASE e[1] = "down"
    BY <1>3, <2>2, <2>4 DEF Alike, SameLists
  <2>5. CASE e[1] \in {"row", "name"}
    <3>1. Agree(t[e[2]], v)
      BY <1>3, <2>5 DEF Alike
    <3>2. Agree(u[e[2]], v)
      BY <1>1, <2>1, <3>1 DEF Agree
    <3> QED
      BY <1>3, <2>5, <3>2 DEF Alike
  <2> QED
    BY <2>1, <2>3, <2>4, <2>5
<1>4. QED
  BY <1>2, <1>3

LEMMA SynonymLeavesTrue ==
  ASSUME CatalogInv, StaleOnlyByRace, NEW r \in Requests, SynonymSave(r)
  PROVE  StaleOnlyByRace'
<1>1. PICK i, row : i = req[r].id /\ row = req[r].list[1]
  OBVIOUS
<1>2. /\ req[r].pc = "save synonym" /\ UNCHANGED <<cache, added>>
      /\ \/ Step(r, "refused") /\ UNCHANGED <<rows, late>>
         \/ /\ Step(r, "done") /\ rows' = [rows EXCEPT ![i] = row]
            /\ late' = IF ~Agree(rows[i], row)
                       THEN late \cup {e \in Entries : cache[e] # Null /\ ~Alike(rows', added, e, cache[e])}
                       ELSE late
  BY <1>1, Zenon DEF SynonymSave
<1>3. CASE Step(r, "refused") /\ UNCHANGED <<rows, late>>
  BY <1>2, <1>3, StepAside
<1>4. CASE /\ Step(r, "done") /\ rows' = [rows EXCEPT ![i] = row]
           /\ late' = IF ~Agree(rows[i], row)
                      THEN late \cup {e \in Entries : cache[e] # Null /\ ~Alike(rows', added, e, cache[e])}
                      ELSE late
  <2>1. \A s \in Writers : req[s].pc = "clear" => req'[s].pc = "clear"
    BY <1>2, <1>4 DEF Step, CatalogInv, Requests
  <2>2. SUFFICES ASSUME NEW e \in Entries, cache[e] # Null, ~Alike(rows', added, e, cache[e])
                 PROVE  e \in late' \/ \E s \in Writers : req'[s].pc = "clear"
    BY <1>2 DEF StaleOnlyByRace
  <2>3. CASE ~Agree(rows[i], row)
    BY <1>4, <2>2, <2>3
  <2>4. CASE Agree(rows[i], row)
    <3>1. PICK t, u, v : t = rows /\ u = rows' /\ v = cache[e]
      OBVIOUS
    <3>2. t \in Tables /\ i \in Ids /\ row \in Rows /\ u = [t EXCEPT ![i] = row] /\ v # Null
      BY <1>1, <1>2, <1>4, <2>2, <3>1, FitsHere DEF PlaceInv
    <3>3. t[i] # Null /\ Agree(t[i], row)
      BY <2>4, <3>1, <3>2, StartsAssumption DEF Agree
    <3>4. ~Alike(t, added, e, v)
      BY <2>2, <3>1, <3>2, <3>3, StaysAlike
    <3>5. e \in late \/ \E s \in Writers : req[s].pc = "clear"
      BY <2>2, <3>1, <3>4 DEF StaleOnlyByRace
    <3> QED
      BY <1>4, <2>1, <2>4, <3>5
  <2> QED
    BY <2>3, <2>4
<1>5. QED
  BY <1>2, <1>3, <1>4

LEMMA GeneratedLeavesTrue ==
  ASSUME CatalogInv, StaleOnlyByRace, NEW r \in Requests, GeneratedInsert(r)
  PROVE  StaleOnlyByRace'
<1>1. PICK i : i = req[r].id
  OBVIOUS
<1>2. /\ req[r].pc = "generated" /\ UNCHANGED <<cache, late>>
      /\ \/ Step(r, "refused") /\ UNCHANGED <<rows, added>>
         \/ /\ rows[i] = Null /\ Step(r, "done") /\ added' = added \cup {i}
            /\ \E unit \in GeneratedUnits : rows' = [rows EXCEPT ![i] = [parent |-> Null, unit |-> unit, syn |-> <<>>]]
  BY <1>1, Zenon DEF GeneratedInsert
<1>3. CASE Step(r, "refused") /\ UNCHANGED <<rows, added>>
  BY <1>2, <1>3, StepAside
<1>4. CASE /\ rows[i] = Null /\ Step(r, "done") /\ added' = added \cup {i}
           /\ \E unit \in GeneratedUnits : rows' = [rows EXCEPT ![i] = [parent |-> Null, unit |-> unit, syn |-> <<>>]]
  <2>1. \A s \in Writers : req[s].pc = "clear" => req'[s].pc = "clear"
    BY <1>2, <1>4 DEF Step, CatalogInv, Requests
  <2>2. SUFFICES ASSUME NEW e \in Entries, cache[e] # Null, ~Alike(rows', added', e, cache[e])
                 PROVE  e \in late \/ \E s \in Writers : req'[s].pc = "clear"
    BY <1>2 DEF StaleOnlyByRace
  <2>3. PICK unit \in GeneratedUnits : rows' = [rows EXCEPT ![i] = [parent |-> Null, unit |-> unit, syn |-> <<>>]]
    BY <1>4
  <2>4. PICK row : row = [parent |-> Null, unit |-> unit, syn |-> <<>>]
    OBVIOUS
  <2>5. row \in Rows /\ row.parent = Null
    <3>1. <<>> \in Seq(Names \cup Ids)
      OBVIOUS
    <3>2. unit \in Units
      BY DEF Units
    <3>3. \A l \in Seq(Names \cup Ids), v \in Units : [parent |-> Null, unit |-> v, syn |-> l] \in Rows
      BY DEF Rows
    <3>4. row \in Rows
      BY <2>4, <3>1, <3>2, <3>3, Zenon
    <3> QED
      BY <2>4, <3>4
  <2>6. PICK t, u, v, new, more : t = rows /\ u = rows' /\ v = cache[e] /\ new = added /\ more = added'
    OBVIOUS
  <2>7. /\ t \in Tables /\ i \in Ids /\ u = [t EXCEPT ![i] = row] /\ v # Null /\ t[i] = Null
        /\ new \subseteq more /\ i \in more
    BY <1>1, <1>2, <1>4, <2>2, <2>3, <2>4, <2>6, FitsHere DEF PlaceInv
  <2>8. ~Alike(t, new, e, v)
    BY <2>2, <2>5, <2>6, <2>7, StaysAlike
  <2>9. e \in late \/ \E s \in Writers : req[s].pc = "clear"
    BY <2>2, <2>6, <2>8 DEF StaleOnlyByRace
  <2> QED
    BY <2>1, <2>9
<1>5. QED
  BY <1>2, <1>3, <1>4

LEMMA WritersLeaveTrue ==
  ASSUME CatalogInv, StaleOnlyByRace, NEW r \in Writers,
         \/ UpdateRead(r) \/ UpdateUnits(r) \/ UpdateSave(r) \/ CreateCheck(r)
         \/ CreateSave(r) \/ RemoveRead(r) \/ RemoveRow(r) \/ ClearCache(r)
         \/ PromoteRead(r) \/ MergeRead(r) \/ MergeCommit(r)
         \/ SynonymRead(r) \/ SynonymSave(r) \/ GeneratedRead(r) \/ GeneratedInsert(r)
  PROVE  StaleOnlyByRace'
<1>0. r \in Requests
  BY DEF Requests
<1>1. CASE UpdateRead(r)
  <2>1. PICK d : req' = [req EXCEPT ![r] = d]
    BY <1>1, Zenon DEF UpdateRead
  <2> QED
    BY <1>1, <2>1, PutKeeps DEF UpdateRead, Quiet
<1>2. CASE UpdateUnits(r)
  <2>1. PICK p : Step(r, p)
    BY <1>2, Zenon DEF UpdateUnits
  <2> QED
    BY <1>0, <1>2, <2>1, StepAside DEF UpdateUnits, Quiet
<1>3. CASE UpdateSave(r)
  <2>1. \/ Step(r, "clear")
        \/ Step(r, "refused") /\ UNCHANGED <<rows, added, cache, late>> /\ req[r].pc # "clear"
    BY <1>3, Zenon DEF UpdateSave
  <2> QED
    BY <1>0, <2>1, ClearAhead, StepAside
<1>4. CASE CreateCheck(r)
  <2>1. PICK d : req' = [req EXCEPT ![r] = d]
    BY <1>4, Zenon DEF CreateCheck
  <2> QED
    BY <1>4, <2>1, PutKeeps DEF CreateCheck, Quiet
<1>5. CASE CreateSave(r)
  <2>1. \/ Step(r, "clear")
        \/ Step(r, "refused") /\ UNCHANGED <<rows, added, cache, late>> /\ req[r].pc # "clear"
    BY <1>5, Zenon DEF CreateSave
  <2> QED
    BY <1>0, <2>1, ClearAhead, StepAside
<1>6. CASE RemoveRead(r)
  <2>1. PICK d : req' = [req EXCEPT ![r] = d]
    BY <1>6, Zenon DEF RemoveRead
  <2> QED
    BY <1>6, <2>1, PutKeeps DEF RemoveRead, Quiet
<1>7. CASE RemoveRow(r)
  <2>1. \/ Step(r, "clear")
        \/ Step(r, "refused") /\ UNCHANGED <<rows, added, cache, late>> /\ req[r].pc # "clear"
    BY <1>7, Zenon DEF RemoveRow
  <2> QED
    BY <1>0, <2>1, ClearAhead, StepAside
<1>8. CASE ClearCache(r)
  <2>1. \A e \in Entries : cache'[e] = Null
    BY <1>8 DEF ClearCache
  <2> QED
    BY <2>1 DEF StaleOnlyByRace
<1>9. CASE PromoteRead(r)
  <2>1. PICK d : req' = [req EXCEPT ![r] = d]
    BY <1>9, Zenon DEF PromoteRead
  <2> QED
    BY <1>9, <2>1, PutKeeps DEF PromoteRead, Quiet
<1>10. CASE MergeRead(r)
  <2>1. PICK d : req' = [req EXCEPT ![r] = d]
    BY <1>10, Zenon DEF MergeRead
  <2> QED
    BY <1>10, <2>1, PutKeeps DEF MergeRead, Quiet
<1>11. CASE SynonymRead(r)
  <2>1. PICK d : req' = [req EXCEPT ![r] = d]
    BY <1>11, Zenon DEF SynonymRead
  <2> QED
    BY <1>11, <2>1, PutKeeps DEF SynonymRead, Quiet
<1>12. CASE GeneratedRead(r)
  <2>1. PICK d : req' = [req EXCEPT ![r] = d]
    BY <1>12, Zenon DEF GeneratedRead
  <2> QED
    BY <1>12, <2>1, PutKeeps DEF GeneratedRead, Quiet
<1>13. CASE MergeCommit(r)
  <2>1. \/ Step(r, "clear")
        \/ Step(r, "refused") /\ UNCHANGED <<rows, added, cache, late>> /\ req[r].pc # "clear"
    BY <1>13, Zenon DEF MergeCommit
  <2> QED
    BY <1>0, <2>1, ClearAhead, StepAside
<1>14. QED
  BY <1>0, <1>1, <1>2, <1>3, <1>4, <1>5, <1>6, <1>7, <1>8, <1>9, <1>10, <1>11, <1>12, <1>13,
     SynonymLeavesTrue, GeneratedLeavesTrue

LEMMA StepStale == CatalogInv /\ StaleOnlyByRace /\ [Next]_vars => StaleOnlyByRace'
<1> SUFFICES ASSUME CatalogInv, StaleOnlyByRace, [Next]_vars PROVE StaleOnlyByRace'
  OBVIOUS
<1>1. cast \subseteq Requests
  BY DEF CatalogInv
<1>2. ASSUME NEW e \in Entries, Lapse(e) PROVE StaleOnlyByRace'
  <2>1. UNCHANGED <<rows, added, req>> /\ cache' = [cache EXCEPT ![e] = Null] /\ late' = late \ {e}
    BY <1>2 DEF Lapse
  <2>3. SUFFICES ASSUME NEW k \in Entries, cache'[k] # Null, ~Alike(rows, added, k, cache'[k])
                 PROVE  k \in late' \/ \E s \in Writers : req'[s].pc = "clear"
    BY <2>1 DEF StaleOnlyByRace
  <2>4. k # e /\ cache'[k] = cache[k]
    BY <1>2, <2>1, <2>3 DEF CatalogInv
  <2> QED
    BY <2>1, <2>3, <2>4 DEF StaleOnlyByRace
<1>3. ASSUME UNCHANGED <<rows, added, cache, req, late>> PROVE StaleOnlyByRace'
  BY <1>3 DEF StaleOnlyByRace
<1>4. ASSUME NEW i \in Targets, Use(i) PROVE StaleOnlyByRace'
  BY <1>3, <1>4 DEF Use
<1>5. CASE UNCHANGED vars
  BY <1>3, <1>5 DEF vars
<1>6. QED
  BY <1>1, <1>2, <1>4, <1>5, AsksLeaveTrue, WalksLeaveTrue, SearchesLeaveTrue, WritersLeaveTrue DEF Next

\* An entry of the cache that differs from the table in more than synonyms and
\* generated ingredients is about to be cleared, or was made wrong by a request
\* that a write overtook: a reader puts in what it read, writes of parents and
\* units have clearCache behind them, and a synonym put back into the row that
\* is still there or a row without a parent changes no relatives
\* (ingredients.service.ts, admin.service.ts, ai.service.ts).
THEOREM StaleOnlyByRaceHolds == Spec => []StaleOnlyByRace
<1>1. Init => StaleOnlyByRace
  BY DEF Init, StaleOnlyByRace
<1>2. CatalogInv /\ StaleOnlyByRace /\ [Next]_vars => (CatalogInv /\ StaleOnlyByRace)'
  BY StepCatalog, StepStale
<1>3. QED
  BY InitCatalog, <1>1, <1>2, PTL DEF Spec
=============================================================================

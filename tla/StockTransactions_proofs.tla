---------------------- MODULE StockTransactions_proofs ----------------------
(***************************************************************************)
(* No update is lost, and ordered locking excludes deadlocks, for any      *)
(* number of transactions, items and ingredients.                          *)
(*                                                                         *)
(* No update is lost (CommitsApplyHolds): whatever a transaction has        *)
(* written it has locked, so nobody else commits those rows before it       *)
(* does, and after n items what it has written is what those n items make   *)
(* of the committed stock of every ingredient.  A quantity that an admin's  *)
(* transaction sums up in memory was read under the same lock.              *)
(*                                                                         *)
(* No deadlock (OrderedLocking): while a transaction visits its items in    *)
(* ascending order it never owns a lock above the one it waits for, so the  *)
(* member of a circle that waits for the highest lock waits in vain for     *)
(* one that has gone past it.  bulkAdd sorts its items: SortedAscends.      *)
(***************************************************************************)
EXTENDS StockTransactions, TLAPS, WellFoundedInduction, FiniteSetTheorems

-----------------------------------------------------------------------------
(* The items: what they are sorted into, and what they add up to           *)

\* A set of naturals that has 0, and with a number the next one, has them all.
LEMMA NatClosed ==
  ASSUME NEW A, 0 \in A, \A n \in Nat : n \in A => n + 1 \in A
  PROVE  Nat \subseteq A
<1> SUFFICES ASSUME Nat \ A # {} PROVE FALSE
  OBVIOUS
<1>1. PICK n \in Nat \ A : \A m \in Nat \ A : ~ (<<m, n>> \in OpToRel(<, Nat))
  BY NatLessThanWellFounded, WFMin, Nat \ A \subseteq Nat
<1>2. n # 0 /\ n - 1 \in Nat /\ n - 1 < n /\ (n - 1) + 1 = n
  OBVIOUS
<1>3. <<n - 1, n>> \in OpToRel(<, Nat)
  BY <1>2 DEF OpToRel
<1>4. n - 1 \in A
  BY <1>1, <1>2, <1>3
<1>5. QED
  BY <1>2, <1>4

\* What a stable sort by the keys v puts last.
Latest(v, n, m) == \A k \in 1..n : v[k] <= v[m] /\ (v[k] = v[m] => k <= m)
LEMMA LatestExists ==
  ASSUME NEW n \in Nat, NEW v \in [1..(n + 1) -> Nat]
  PROVE  \E m \in 1..(n + 1) : Latest(v, n + 1, m)
<1> DEFINE A == {k \in Nat : k <= n => \E m \in 1..(k + 1) : Latest(v, k + 1, m)}
<1>1. 0 \in A
  <2>1. Latest(v, 0 + 1, 1)
    BY DEF Latest
  <2>2. QED
    BY <2>1
<1>2. ASSUME NEW k \in Nat, k \in A
      PROVE  k + 1 \in A
  <2> SUFFICES ASSUME k + 1 <= n PROVE \E m \in 1..((k + 1) + 1) : Latest(v, (k + 1) + 1, m)
    OBVIOUS
  <2> PICK m \in 1..(k + 1) : Latest(v, k + 1, m)
    BY <1>2
  <2>1. m \in 1..(n + 1) /\ (k + 1) + 1 \in 1..(n + 1) /\ \A j \in 1..((k + 1) + 1) : j \in 1..(n + 1)
    OBVIOUS
  <2>2. CASE v[m] <= v[(k + 1) + 1]
    <3>1. Latest(v, (k + 1) + 1, (k + 1) + 1)
      BY <2>1, <2>2 DEF Latest
    <3>2. QED
      BY <3>1
  <2>3. CASE ~(v[m] <= v[(k + 1) + 1])
    <3>1. Latest(v, (k + 1) + 1, m)
      BY <2>1, <2>3 DEF Latest
    <3>2. QED
      BY <3>1
  <2>4. QED
    BY <2>2, <2>3
<1>3. Nat \subseteq A
  <2> HIDE DEF A
  <2>1. QED
    BY <1>1, <1>2, NatClosed
<1>4. QED
  BY <1>3

\* An order of positions by their keys, which is what sorts them.
Arranges(v, n, p) == \A j, k \in 1..n : j < k => v[p[j]] <= v[p[k]] /\ (v[p[j]] = v[p[k]] => p[j] < p[k])

\* The positions other than m, in their order.
LEMMA PastExists ==
  ASSUME NEW k \in Nat, NEW m \in 1..(k + 1)
  PROVE  \E past \in [1..k -> 1..(k + 1)] :
           /\ \A j \in 1..k : past[j] # m
           /\ \A i, j \in 1..k : i < j <=> past[i] < past[j]
           /\ \A t \in 1..(k + 1) : t # m => \E j \in 1..k : past[j] = t
<1> DEFINE past == [j \in 1..k |-> IF j < m THEN j ELSE j + 1]
<1>1. past \in [1..k -> 1..(k + 1)] /\ \A j \in 1..k : past[j] # m
  OBVIOUS
<1>2. \A i, j \in 1..k : i < j <=> past[i] < past[j]
  OBVIOUS
<1>3. ASSUME NEW t \in 1..(k + 1), t # m
      PROVE  \E j \in 1..k : past[j] = t
  <2>1. CASE t < m
    <3>1. t \in 1..k /\ past[t] = t
      BY <2>1
    <3>2. QED
      BY <3>1
  <2>2. CASE m < t
    <3>1. t - 1 \in 1..k /\ past[t - 1] = t
      BY <2>2
    <3>2. QED
      BY <3>1
  <2>3. QED
    BY <1>3, <2>1, <2>2
<1> HIDE DEF past
<1>4. QED
  BY <1>1, <1>2, <1>3

\* The latest comes after the others, in whatever order they are.
LEMMA LatestLast ==
  ASSUME NEW k \in Nat, NEW w \in [1..(k + 1) -> Nat], NEW m \in 1..(k + 1), Latest(w, k + 1, m),
         NEW r \in [1..k -> 1..(k + 1)], Arranges(w, k, r),
         \A i \in 1..k : r[i] # m,
         \A i, j \in 1..k : r[i] = r[j] => i = j,
         \A t \in 1..(k + 1) : t # m => \E i \in 1..k : r[i] = t
  PROVE  \E p \in Bijection(1..(k + 1), 1..(k + 1)) : Arranges(w, k + 1, p)
<1> DEFINE p == [i \in 1..(k + 1) |-> IF i = k + 1 THEN m ELSE r[i]]
<1>1. p \in [1..(k + 1) -> 1..(k + 1)] /\ p[k + 1] = m /\ \A i \in 1..k : p[i] = r[i]
  OBVIOUS
<1>2. \A i \in 1..(k + 1) : i = k + 1 \/ i \in 1..k
  OBVIOUS
<1>3. k + 1 \in 1..(k + 1) /\ \A i \in 1..k : i \in 1..(k + 1)
  OBVIOUS
<1> HIDE DEF p
<1>4. ASSUME NEW i \in 1..(k + 1), NEW j \in 1..(k + 1), p[i] = p[j]
      PROVE  i = j
  BY <1>1, <1>2, <1>4
<1>5. ASSUME NEW t \in 1..(k + 1)
      PROVE  \E i \in 1..(k + 1) : p[i] = t
  <2>1. CASE t = m
    BY <1>1, <1>3, <2>1
  <2>2. CASE t # m
    <3> PICK i \in 1..k : r[i] = t
      BY <2>2
    <3>1. QED
      BY <1>1, <1>3
  <2>3. QED
    BY <2>1, <2>2
<1>6. p \in Bijection(1..(k + 1), 1..(k + 1))
  <2>1. DOMAIN p = 1..(k + 1)
    BY <1>1
  <2>2. IsInjective(p)
    BY <1>4, <2>1 DEF IsInjective
  <2>3. QED
    BY <1>1, <1>5, <2>2 DEF Bijection, Injection, Surjection
<1>7. ASSUME NEW i \in 1..(k + 1), NEW j \in 1..(k + 1), i < j
      PROVE  w[p[i]] <= w[p[j]] /\ (w[p[i]] = w[p[j]] => p[i] < p[j])
  <2>1. i \in 1..k
    BY <1>7
  <2>2. CASE j = k + 1
    <3>1. p[i] \in 1..(k + 1) /\ p[i] # m /\ p[j] = m
      BY <1>1, <2>1, <2>2
    <3>2. w[p[i]] <= w[m] /\ (w[p[i]] = w[m] => p[i] <= m)
      BY <3>1 DEF Latest
    <3>3. QED
      BY <3>1, <3>2
  <2>3. CASE j \in 1..k
    BY <1>1, <1>7, <2>1, <2>3 DEF Arranges
  <2>4. QED
    BY <1>2, <2>2, <2>3
<1>8. Arranges(w, k + 1, p)
  BY <1>7 DEF Arranges
<1>9. QED
  BY <1>6, <1>8

\* Every list of keys can be sorted.
LEMMA ArrangementExists ==
  ASSUME NEW n \in Nat, NEW v \in [1..n -> Nat]
  PROVE  \E p \in Bijection(1..n, 1..n) : Arranges(v, n, p)
<1> DEFINE A == {m \in Nat : \A w \in [1..m -> Nat] : \E p \in Bijection(1..m, 1..m) : Arranges(w, m, p)}
<1>1. 0 \in A
  <2> SUFFICES ASSUME NEW w \in [1..0 -> Nat] PROVE \E p \in Bijection(1..0, 1..0) : Arranges(w, 0, p)
    OBVIOUS
  <2>1. [i \in 1..0 |-> i] \in Bijection(1..0, 1..0)
    BY DEF Bijection, Injection, Surjection, IsInjective
  <2>2. Arranges(w, 0, [i \in 1..0 |-> i])
    BY DEF Arranges
  <2>3. QED
    BY <2>1, <2>2
<1>2. ASSUME NEW k \in Nat, k \in A
      PROVE  k + 1 \in A
  <2> SUFFICES ASSUME NEW w \in [1..(k + 1) -> Nat]
               PROVE  \E p \in Bijection(1..(k + 1), 1..(k + 1)) : Arranges(w, k + 1, p)
    OBVIOUS
  <2> PICK m \in 1..(k + 1) : Latest(w, k + 1, m)
    BY LatestExists
  <2>1. PICK past \in [1..k -> 1..(k + 1)] :
          /\ \A j \in 1..k : past[j] # m
          /\ \A i, j \in 1..k : i < j <=> past[i] < past[j]
          /\ \A t \in 1..(k + 1) : t # m => \E j \in 1..k : past[j] = t
    BY PastExists
  <2>2. [j \in 1..k |-> w[past[j]]] \in [1..k -> Nat]
    OBVIOUS
  <2>3. PICK q \in Bijection(1..k, 1..k) : Arranges([j \in 1..k |-> w[past[j]]], k, q)
    BY <1>2, <2>2
  <2>4. /\ q \in [1..k -> 1..k]
        /\ \A i, j \in 1..k : q[i] = q[j] => i = j
        /\ \A t \in 1..k : \E i \in 1..k : q[i] = t
    BY <2>3 DEF Bijection, Injection, Surjection, IsInjective
  <2> HIDE DEF A
  <2>5. \A i, j \in 1..k : i < j => /\ w[past[q[i]]] <= w[past[q[j]]]
                                    /\ w[past[q[i]]] = w[past[q[j]]] => q[i] < q[j]
    BY <2>3, <2>4 DEF Arranges
  <2>6. \A i, j \in 1..k : past[i] = past[j] => i = j
    BY <2>1
  <2> DEFINE r == [i \in 1..k |-> past[q[i]]]
  <2>7. \A i \in 1..k : r[i] = past[q[i]] /\ q[i] \in 1..k
    BY <2>4
  <2>8. r \in [1..k -> 1..(k + 1)]
    BY <2>1, <2>4
  <2> HIDE DEF r
  <2>9. Arranges(w, k, r)
    <3>1. ASSUME NEW i \in 1..k, NEW j \in 1..k, i < j
          PROVE  w[r[i]] <= w[r[j]] /\ (w[r[i]] = w[r[j]] => r[i] < r[j])
      <4>1. w[past[q[i]]] <= w[past[q[j]]] /\ (w[past[q[i]]] = w[past[q[j]]] => q[i] < q[j])
        BY <2>5, <3>1
      <4>2. q[i] < q[j] => past[q[i]] < past[q[j]]
        BY <2>1, <2>7
      <4>3. r[i] = past[q[i]] /\ r[j] = past[q[j]]
        BY <2>7
      <4>4. QED
        BY <4>1, <4>2, <4>3
    <3>2. QED
      BY <3>1 DEF Arranges
  <2>10. \A i \in 1..k : r[i] # m
    BY <2>1, <2>7
  <2>11. \A i, j \in 1..k : r[i] = r[j] => i = j
    <3> TAKE i, j \in 1..k
    <3>1. q[i] \in 1..k /\ q[j] \in 1..k /\ r[i] = past[q[i]] /\ r[j] = past[q[j]]
      BY <2>7
    <3>2. past[q[i]] = past[q[j]] => q[i] = q[j]
      BY <2>6, <3>1
    <3>3. QED
      BY <2>4, <3>1, <3>2
  <2>12. \A t \in 1..(k + 1) : t # m => \E i \in 1..k : r[i] = t
    <3> TAKE t \in 1..(k + 1)
    <3> HAVE t # m
    <3>1. PICK j \in 1..k : past[j] = t
      BY <2>1
    <3>2. PICK i \in 1..k : q[i] = j
      BY <2>4
    <3>3. r[i] = t
      BY <2>7, <3>1, <3>2
    <3>4. QED
      BY <3>3
  <2>13. QED
    BY <2>8, <2>9, <2>10, <2>11, <2>12, LatestLast
<1>3. Nat \subseteq A
  <2> HIDE DEF A
  <2>1. QED
    BY <1>1, <1>2, NatClosed
<1>4. QED
  BY <1>3

\* bulkAdd's sort gives the items in the order of their ingredients.
LEMMA SortedAscends ==
  ASSUME NEW s \in Seq(Item)
  PROVE  /\ Sorted(s) \in Seq(Item) /\ Len(Sorted(s)) = Len(s)
         /\ \A j, k \in 1..Len(s) : j < k => Sorted(s)[j].ing <= Sorted(s)[k].ing
<1> DEFINE n == Len(s)
           v == [k \in 1..n |-> s[k].ing]
<1>1. n \in Nat /\ DOMAIN s = 1..n /\ \A k \in 1..n : s[k] \in Item
  OBVIOUS
<1>2. \A k \in 1..n : s[k].ing \in Nat
  BY <1>1, IngredientsAssumption DEF Item
<1>3. v \in [1..n -> Nat]
  BY <1>2
<1>4. \A k \in 1..n : v[k] = s[k].ing
  OBVIOUS
<1> HIDE DEF n, v
<1> PICK b \in Bijection(1..n, 1..n) : Arranges(v, n, b)
  BY <1>1, <1>3, ArrangementExists
<1>5. \A p \in Bijection(1..n, 1..n) : \A k \in 1..n : p[k] \in 1..n
  BY DEF Bijection, Injection
<1>6. Sorting(s, b)
  BY <1>1, <1>4, <1>5 DEF Arranges, Sorting
<1> DEFINE p == CHOOSE p \in Bijection(DOMAIN s, DOMAIN s) : Sorting(s, p)
<1>7. p \in Bijection(1..n, 1..n) /\ Sorting(s, p)
  BY <1>1, <1>6
<1>8. Sorted(s) = [k \in 1..n |-> s[p[k]]]
  BY <1>1 DEF Sorted
<1> HIDE DEF p
<1>9. Sorted(s) \in Seq(Item) /\ Len(Sorted(s)) = n
  BY <1>1, <1>5, <1>7, <1>8
<1>10. \A j, k \in 1..n : j < k => s[p[j]].ing <= s[p[k]].ing
  BY <1>1, <1>7 DEF Sorting
<1>11. QED
  BY <1>8, <1>9, <1>10 DEF n

\* What every transaction visits, in what number.
LEMMA ItemsType ==
  ASSUME NEW t \in Txs
  PROVE  /\ Len(Items(t)) \in Nat /\ 1 \in 1..Len(Items(t)) /\ DOMAIN Items(t) = 1..Len(Items(t))
         /\ \A k \in 1..Len(Items(t)) : Items(t)[k].ing \in Ingredients /\ Items(t)[k].amount \in Nat
         /\ Kind(t) \in {"add", "set"} => Len(Items(t)) = 1
         /\ Kind(t) \in {"add", "set", "bulk-add"} =>
              \A j, k \in 1..Len(Items(t)) : j < k => Items(t)[j].ing <= Items(t)[k].ing
<1> DEFINE s == Request[t].items
<1>1. s \in Seq(Item) /\ s # <<>> /\ (Kind(t) \in {"add", "set"} => Len(s) = 1)
  BY RequestAssumption DEF Kind
<1> HIDE DEF s
<1>2. Items(t) \in Seq(Item) /\ Len(Items(t)) = Len(s)
  BY <1>1, SortedAscends DEF Items, s
<1>3. Kind(t) = "bulk-add" => \A j, k \in 1..Len(s) : j < k => Items(t)[j].ing <= Items(t)[k].ing
  BY <1>1, SortedAscends DEF Items, s
<1>4. Len(s) \in Nat /\ Len(s) > 0
  BY <1>1
<1> DEFINE a == Items(t)
<1>5. a \in Seq(Item) /\ Len(a) = Len(s)
  BY <1>2
<1> HIDE DEF a
<1>6. DOMAIN a = 1..Len(a) /\ \A k \in 1..Len(a) : a[k] \in Item
  BY <1>5
<1>7. \A k \in 1..Len(a) : a[k].ing \in Ingredients /\ a[k].amount \in Nat
  BY <1>6 DEF Item
<1>8. QED
  BY <1>1, <1>3, <1>4, <1>5, <1>6, <1>7 DEF a

\* There is a running sum of what is asked for.
LEMMA SumExists ==
  ASSUME NEW n \in Nat, NEW v
  PROVE  \E g : g = [k \in 0..n |-> IF k = 0 THEN 0 ELSE g[k - 1] + v[k]]
<1> DEFINE A == {m \in Nat : \E g : g = [k \in 0..m |-> IF k = 0 THEN 0 ELSE g[k - 1] + v[k]]}
<1>1. 0 \in A
  <2> DEFINE g == [k \in 0..0 |-> 0]
  <2>1. g = [k \in 0..0 |-> IF k = 0 THEN 0 ELSE g[k - 1] + v[k]]
    OBVIOUS
  <2> HIDE DEF g
  <2>2. QED
    BY <2>1
<1>2. ASSUME NEW m \in Nat, m \in A
      PROVE  m + 1 \in A
  <2> PICK g : g = [k \in 0..m |-> IF k = 0 THEN 0 ELSE g[k - 1] + v[k]]
    BY <1>2
  <2> DEFINE h == [k \in 0..(m + 1) |-> IF k = m + 1 THEN g[m] + v[m + 1] ELSE g[k]]
  <2>1. ASSUME NEW k \in 0..(m + 1)
        PROVE  h[k] = IF k = 0 THEN 0 ELSE h[k - 1] + v[k]
    <3>1. CASE k = 0
      BY <3>1
    <3>2. CASE k = m + 1
      <4>1. k # 0 /\ k - 1 = m /\ m \in 0..(m + 1) /\ m # m + 1
        BY <3>2
      <4>2. h[m] = g[m] /\ h[k] = g[m] + v[m + 1]
        BY <3>2, <4>1
      <4>3. QED
        BY <3>2, <4>1, <4>2
    <3>3. CASE k # 0 /\ k # m + 1
      <4>1. k \in 0..m /\ k - 1 \in 0..(m + 1) /\ k - 1 # m + 1
        BY <3>3
      <4>2. g[k] = g[k - 1] + v[k]
        BY <3>3, <4>1
      <4>3. h[k] = g[k] /\ h[k - 1] = g[k - 1]
        BY <3>3, <4>1
      <4>4. QED
        BY <3>3, <4>2, <4>3
    <3>4. QED
      BY <3>1, <3>2, <3>3
  <2>2. h = [k \in 0..(m + 1) |-> IF k = 0 THEN 0 ELSE h[k - 1] + v[k]]
    <3>1. h = [k \in 0..(m + 1) |-> h[k]]
      OBVIOUS
    <3> HIDE DEF h
    <3>2. QED
      BY <2>1, <3>1
  <2> HIDE DEF h
  <2>3. QED
    BY <2>2
<1>3. Nat \subseteq A
  <2> HIDE DEF A
  <2>1. QED
    BY <1>1, <1>2, NatClosed
<1>4. QED
  BY <1>3

\* One item more.
LEMMA AmountNext ==
  ASSUME NEW t \in Txs, NEW i
  PROVE  /\ AmountTo(t, i)[0] = 0
         /\ \A n \in 1..Len(Items(t)) :
              AmountTo(t, i)[n] = AmountTo(t, i)[n - 1]
                                    + (IF Items(t)[n].ing = i THEN Items(t)[n].amount ELSE 0)
<1> DEFINE N == Len(Items(t))
           v == [n \in 1..N |-> IF Items(t)[n].ing = i THEN Items(t)[n].amount ELSE 0]
           Sum(g) == g = [n \in 0..N |-> IF n = 0 THEN 0
                                         ELSE g[n - 1] + (IF Items(t)[n].ing = i THEN Items(t)[n].amount ELSE 0)]
<1>1. N \in Nat
  BY ItemsType
<1>2. \A n \in 1..N : v[n] = IF Items(t)[n].ing = i THEN Items(t)[n].amount ELSE 0
  OBVIOUS
<1>3. AmountTo(t, i) = CHOOSE g : Sum(g)
  BY DEF AmountTo
<1> HIDE DEF v, N
<1>4. PICK g : g = [k \in 0..N |-> IF k = 0 THEN 0 ELSE g[k - 1] + v[k]]
  BY <1>1, SumExists
<1>5. Sum(g)
  <2>1. \A k \in 0..N : (IF k = 0 THEN 0 ELSE g[k - 1] + v[k])
          = IF k = 0 THEN 0 ELSE g[k - 1] + (IF Items(t)[k].ing = i THEN Items(t)[k].amount ELSE 0)
    BY <1>1, <1>2
  <2>2. QED
    BY <1>4, <2>1
<1>6. Sum(AmountTo(t, i))
  <2> HIDE DEF Sum
  <2>1. QED
    BY <1>3, <1>5
<1>7. QED
  BY <1>1, <1>6 DEF N

-----------------------------------------------------------------------------
(* The invariant: what is written is locked, and is what it should be      *)

\* The statements of each kind of transaction.
Path(kind) ==
  CASE kind \in {"add", "bulk-add"} -> {"new", "find", "lock", "count", "save", "commit"}
    [] kind = "set" -> {"new", "lock", "assign", "commit"}
    [] kind = "undo" -> {"new", "find", "lock", "restore", "commit"}
    [] kind = "order" -> {"new", "scan", "take", "commit"}
    [] OTHER -> {"new", "check", "source", "target", "into", "drop", "unlist", "commit"}

Books ==
  /\ stock \in [Ingredients -> Quantity]
  /\ owner \in [Ingredients -> Txs \cup {Nobody}]
  /\ seen \in [Txs -> [Ingredients -> Quantity]]
  /\ dirty \in [Txs -> [Ingredients -> Quantity \cup {Nobody}]]
  /\ item \in [Txs -> Nat] /\ \A t \in Txs : item[t] \in 1..Len(Items(t))
  /\ pc = [t \in Txs |-> pc[t]] /\ \A t \in Txs : pc[t] \in Path(Kind(t)) \cup Ended
  /\ skipped = [t \in Txs |-> skipped[t]]

\* What is written is locked until the end.
Guarded == \A t \in Txs, i \in Ingredients : dirty[t][i] # Nobody => owner[i] = t
\* A row that was read with FOR UPDATE is still as it was read.
Informed(t) == pc[t] \in {"count", "save", "restore"} =>
  LET i == This(t).ing IN seen[t][i] # Absent => owner[i] = t /\ View(t, i) = seen[t][i]

\* The number of items that are done, their ingredients, and what they make of q.
Past(t) == IF pc[t] = "commit" THEN item[t] ELSE item[t] - 1
Touched(t) == {Items(t)[k].ing : k \in 1..Past(t)}
Outcome(t, i, q) ==
  CASE Kind(t) = "set" -> Items(t)[1].amount
    [] Kind(t) = "order" -> q - AmountTo(t, i)[Past(t)]
    [] OTHER -> Plus(q, AmountTo(t, i)[Past(t)])
\* The items done are written as if the transaction were alone, the others not at all.
Applied(t) == Kind(t) # "merge" /\ pc[t] \notin Ended /\ skipped[t] = {} =>
  /\ pc[t] = "new" => item[t] = 1
  /\ pc[t] = "commit" => item[t] = Len(Items(t))
  /\ \A i \in Ingredients :
       /\ AmountTo(t, i)[Past(t)] \in Nat
       /\ i \notin Touched(t) => dirty[t][i] = Nobody /\ AmountTo(t, i)[Past(t)] = 0
       /\ i \in Touched(t) => /\ dirty[t][i] = Outcome(t, i, stock[i]) /\ dirty[t][i] # Nobody
                              /\ Kind(t) = "order" => stock[i] # Absent
CommitInv == Books /\ Guarded /\ \A t \in Txs : Informed(t) /\ Applied(t)

LEMMA KindAt ==
  ASSUME Books, NEW t \in Txs
  PROVE  /\ Kind(t) \in Kinds
         /\ pc[t] \in {"count", "save"} => Kind(t) \in {"add", "bulk-add"}
         /\ pc[t] = "find" => Kind(t) \in {"add", "bulk-add", "undo"}
         /\ pc[t] = "lock" => Kind(t) \in {"add", "bulk-add", "undo", "set"}
         /\ pc[t] = "assign" => Kind(t) = "set"
         /\ pc[t] = "restore" => Kind(t) = "undo"
         /\ pc[t] \in {"scan", "take"} => Kind(t) = "order"
         /\ pc[t] \in {"check", "source", "target", "into", "drop", "unlist"} => Kind(t) = "merge"
<1>1. Kind(t) \in Kinds
  BY RequestAssumption DEF Kind
<1>2. pc[t] \in Path(Kind(t)) \cup Ended
  BY DEF Books
<1>3. QED
  BY <1>1, <1>2 DEF Path, Kinds, Ended

LEMMA ThisType ==
  ASSUME Books, NEW t \in Txs
  PROVE  /\ This(t) = Items(t)[item[t]] /\ item[t] \in 1..Len(Items(t)) /\ Len(Items(t)) \in Nat
         /\ This(t).ing \in Ingredients /\ This(t).amount \in Nat
  BY ItemsType DEF Books, This

LEMMA EndsOf ==
  ASSUME NEW t \in Txs, Kind(t) = "merge"
  PROVE  Source(t) \in Ingredients /\ Target(t) \in Ingredients /\ Source(t) # Target(t)
<1>1. Len(Request[t].items) = 2 /\ Items(t) = Request[t].items
  BY RequestAssumption DEF Kind, Items
<1>2. 1 \in 1..Len(Items(t)) /\ 2 \in 1..Len(Items(t))
  BY <1>1
<1>3. Items(t)[1].ing # Items(t)[2].ing
  BY <1>1, RequestAssumption DEF Kind
<1>4. QED
  BY <1>2, <1>3, ItemsType DEF Source, Target

LEMMA ViewType ==
  ASSUME Books, NEW t \in Txs, NEW i \in Ingredients
  PROVE  View(t, i) \in Quantity
  BY DEF Books, View

\* What a step that goes on does, and what one does that ends.
Elsewhere(t) == \A u \in Txs \ {t} :
  pc'[u] = pc[u] /\ item'[u] = item[u] /\ seen'[u] = seen[u] /\ dirty'[u] = dirty[u] /\ skipped'[u] = skipped[u]

LEMMA ProceedDoes ==
  ASSUME Books, NEW t \in Txs, NEW next, Proceed(t, next)
  PROVE  /\ stock' = stock /\ owner' = owner /\ pc' = [u \in Txs |-> pc'[u]]
         /\ \A u \in Txs \ {t} : pc'[u] = pc[u] /\ item'[u] = item[u]
         /\ item' \in [Txs -> Nat] /\ \A u \in Txs : item'[u] \in 1..Len(Items(u))
         /\ next # "next" => pc'[t] = next /\ item'[t] = item[t]
         /\ next = "next" => \/ item[t] < Len(Items(t)) /\ pc'[t] = Loop(t) /\ item'[t] = item[t] + 1
                             \/ item[t] = Len(Items(t)) /\ pc'[t] = "commit" /\ item'[t] = item[t]
<1>1. stock' = stock /\ owner' = owner
  BY DEF Proceed, data
<1>2. pc = [u \in Txs |-> pc[u]] /\ item \in [Txs -> Nat] /\ \A u \in Txs : item[u] \in 1..Len(Items(u))
  BY DEF Books
<1>3. pc' = [u \in Txs |-> pc'[u]] /\ \A u \in Txs \ {t} : pc'[u] = pc[u]
  BY <1>2 DEF Proceed
<1>4. pc'[t] = CASE next # "next" -> next [] next = "next" /\ item[t] < Len(Items(t)) -> Loop(t) [] OTHER -> "commit"
  BY <1>2 DEF Proceed
<1>5. item' = IF next = "next" /\ item[t] < Len(Items(t)) THEN [item EXCEPT ![t] = @ + 1] ELSE item
  BY DEF Proceed
<1>6. Len(Items(t)) \in Nat
  BY ItemsType
<1>7. CASE next = "next" /\ item[t] < Len(Items(t))
  BY <1>1, <1>2, <1>3, <1>4, <1>5, <1>6, <1>7
<1>8. CASE ~(next = "next" /\ item[t] < Len(Items(t)))
  <2>1. item' = item
    BY <1>5, <1>8
  <2>2. next = "next" => item[t] = Len(Items(t))
    BY <1>2, <1>6, <1>8
  <2>3. QED
    BY <1>1, <1>2, <1>3, <1>4, <1>8, <2>1, <2>2
<1>9. QED
  BY <1>7, <1>8

LEMMA EndDoes ==
  ASSUME Books, NEW t \in Txs, NEW how, End(t, how)
  PROVE  /\ pc' = [u \in Txs |-> pc'[u]] /\ pc'[t] = how /\ Elsewhere(t)
         /\ item' = item /\ seen' = seen /\ skipped' = skipped
         /\ dirty' \in [Txs -> [Ingredients -> Quantity \cup {Nobody}]]
         /\ owner' \in [Ingredients -> Txs \cup {Nobody}]
         /\ \A i \in Ingredients : dirty'[t][i] = Nobody /\ owner'[i] = IF owner[i] = t THEN Nobody ELSE owner[i]
<1>1. /\ pc = [u \in Txs |-> pc[u]] /\ dirty \in [Txs -> [Ingredients -> Quantity \cup {Nobody}]]
      /\ owner \in [Ingredients -> Txs \cup {Nobody}]
  BY DEF Books
<1>2. QED
  BY <1>1 DEF End, Elsewhere

-----------------------------------------------------------------------------
(* What each statement does                                                *)

\* The kinds of steps: a transaction takes a lock, ends, looks something up, passes
\* over an item, or writes.
Closes(t) == \E how \in Ended :
  /\ End(t, how)
  /\ IF how = "committed" THEN pc[t] = "commit" /\ stock' = [i \in Ingredients |-> View(t, i)] ELSE stock' = stock
Goes(t) ==
  /\ pc[t] \notin Ended \cup {"commit"}
  /\ Elsewhere(t) /\ stock' = stock /\ owner' = owner
  /\ pc' = [u \in Txs |-> pc'[u]] /\ pc'[t] \in Path(Kind(t)) \ {"new"}
  /\ item' \in [Txs -> Nat] /\ \A u \in Txs : item'[u] \in 1..Len(Items(u))
Looks(t) ==
  /\ Goes(t) /\ pc'[t] # "commit" /\ item' = item /\ dirty' = dirty /\ skipped' = skipped
  /\ seen' \in [Txs -> [Ingredients -> Quantity]] /\ Informed(t)'
Passes(t) ==
  /\ Goes(t) /\ pc'[t] \in {"find", "commit"} /\ dirty' = dirty /\ seen' = seen
  /\ skipped' = [u \in Txs |-> skipped'[u]] /\ skipped'[t] # {}
\* What an item makes of the quantity w of its ingredient.
Right(t, w, q) ==
  CASE Kind(t) = "set" -> q = This(t).amount
    [] Kind(t) = "order" -> w # Absent /\ q = w - This(t).amount
    [] OTHER -> q = Plus(w, This(t).amount)
Writes(t) ==
  /\ Goes(t) /\ pc'[t] \notin {"count", "save", "restore"} /\ seen' = seen /\ skipped' = skipped
  /\ dirty' \in [Txs -> [Ingredients -> Quantity \cup {Nobody}]]
  /\ \A i \in Ingredients : dirty'[t][i] # dirty[t][i] => owner[i] = t
  /\ Kind(t) # "merge" =>
       /\ Past(t)' = item[t] /\ (pc'[t] = "commit" => item'[t] = Len(Items(t)))
       /\ \A i \in Ingredients \ {This(t).ing} : dirty'[t][i] = dirty[t][i]
       /\ dirty'[t][This(t).ing] \in Quantity /\ Right(t, View(t, This(t).ing), dirty'[t][This(t).ing])

LEMMA CloseStep ==
  ASSUME NEW t \in Txs, NEW how \in Ended \ {"committed"}, Rollback(t, how)
  PROVE  Closes(t)
  BY DEF Rollback, Closes, data

LEMMA LookStep ==
  ASSUME Books, NEW t \in Txs, NEW next, Proceed(t, next), next \in Path(Kind(t)) \ {"new", "commit"}, next # "next",
         pc[t] \notin Ended \cup {"commit"}, dirty' = dirty, skipped' = skipped,
         seen' = seen \/ \E i \in Ingredients, q \in Quantity : seen' = [seen EXCEPT ![t][i] = q],
         next \notin {"count", "save", "restore"} \/ Informed(t)'
  PROVE  Looks(t)
<1>1. seen' \in [Txs -> [Ingredients -> Quantity]] /\ \A u \in Txs \ {t} : seen'[u] = seen[u]
  <2>1. seen \in [Txs -> [Ingredients -> Quantity]]
    BY DEF Books
  <2>2. ASSUME NEW i \in Ingredients, NEW q \in Quantity, seen' = [seen EXCEPT ![t][i] = q]
        PROVE  seen' \in [Txs -> [Ingredients -> Quantity]] /\ \A u \in Txs \ {t} : seen'[u] = seen[u]
    <3>1. [seen[t] EXCEPT ![i] = q] \in [Ingredients -> Quantity]
      BY <2>1
    <3>2. seen' = [seen EXCEPT ![t] = [seen[t] EXCEPT ![i] = q]]
      BY <2>1, <2>2
    <3>3. QED
      BY <2>1, <3>1, <3>2
  <2>3. QED
    BY <2>1, <2>2
<1>2. item' = item
  BY DEF Proceed
<1>3. pc'[t] = next
  BY ProceedDoes
<1>4. Elsewhere(t)
  BY <1>1, ProceedDoes DEF Elsewhere
<1>5. Goes(t)
  BY <1>3, <1>4, ProceedDoes DEF Goes
<1>6. Informed(t)'
  BY <1>3 DEF Informed
<1>7. QED
  BY <1>1, <1>2, <1>3, <1>5, <1>6 DEF Looks

LEMMA BeginLooks ==
  ASSUME Books, NEW t \in Txs, Begin(t)
  PROVE  Looks(t)
<1> DEFINE next == CASE Kind(t) = "order" -> "scan" [] Kind(t) = "set" -> "lock"
                     [] Kind(t) = "merge" -> "check" [] OTHER -> "find"
<1>1. pc[t] = "new" /\ Proceed(t, next) /\ seen' = seen /\ dirty' = dirty /\ skipped' = skipped
  BY DEF Begin, private
<1>2. next \in Path(Kind(t)) \ {"new", "commit"} /\ next \notin {"next", "count", "save", "restore"}
  BY KindAt DEF Path, Kinds
<1> HIDE DEF next
<1>3. QED
  BY <1>1, <1>2, LookStep DEF Ended

LEMMA FindGoes ==
  ASSUME Books, NEW t \in Txs, Find(t)
  PROVE  Looks(t) \/ Passes(t) \/ Closes(t)
<1>1. pc[t] = "find" /\ Kind(t) \in {"add", "bulk-add", "undo"} /\ Kind(t) \in Kinds
  BY KindAt DEF Find, At
<1>2. CASE This(t).ing \in catalog
  <2>1. Proceed(t, "lock") /\ seen' = seen /\ dirty' = dirty /\ skipped' = skipped
    BY <1>2 DEF Find, private
  <2>2. "lock" \in Path(Kind(t))
    BY <1>1 DEF Path
  <2>3. QED
    BY <1>1, <2>1, <2>2, LookStep DEF Ended
<1>3. CASE This(t).ing \notin catalog /\ Kind(t) = "undo"
  <2>1. Proceed(t, "next") /\ seen' = seen /\ dirty' = dirty /\ skipped' = [skipped EXCEPT ![t] = @ \cup {item[t]}]
    BY <1>3 DEF Find
  <2>2. skipped = [u \in Txs |-> skipped[u]]
    BY DEF Books
  <2>3. skipped' = [u \in Txs |-> skipped'[u]] /\ skipped'[t] # {} /\ \A u \in Txs \ {t} : skipped'[u] = skipped[u]
    BY <2>1, <2>2
  <2>4. pc'[t] \in {"find", "commit"} /\ Elsewhere(t)
    BY <1>3, <2>1, <2>3, ProceedDoes DEF Loop, Elsewhere
  <2>5. pc'[t] \in Path(Kind(t)) \ {"new"}
    BY <1>3, <2>4 DEF Path
  <2>6. Goes(t)
    BY <1>1, <2>1, <2>4, <2>5, ProceedDoes DEF Goes, Ended
  <2>7. QED
    BY <2>1, <2>3, <2>4, <2>6 DEF Passes
<1>4. CASE This(t).ing \notin catalog /\ Kind(t) # "undo"
  BY <1>4, CloseStep DEF Find, Ended
<1>5. QED
  BY <1>2, <1>3, <1>4

LEMMA LockRowGoes ==
  ASSUME Books, Guarded, NEW t \in Txs, LockRow(t)
  PROVE  Looks(t) \/ Closes(t)
<1> DEFINE i == This(t).ing
           q == View(t, i)
           next == CASE Kind(t) = "set" -> "assign" [] Kind(t) = "undo" -> "restore" [] OTHER -> "count"
<1>1. pc[t] = "lock" /\ Kind(t) \in {"add", "bulk-add", "undo", "set"} /\ Locks(t) \subseteq Owned(t)
  BY KindAt DEF LockRow, At
<1>2. i \in Ingredients /\ q \in Quantity
  BY ThisType, ViewType
<1>3. CASE Kind(t) = "set" /\ q = Absent
  BY <1>3, CloseStep DEF LockRow, Ended
<1>4. CASE ~(Kind(t) = "set" /\ q = Absent)
  <2>1. /\ seen' = [seen EXCEPT ![t][i] = q] /\ Proceed(t, next)
        /\ dirty' = dirty /\ skipped' = skipped
    BY <1>4 DEF LockRow
  <2>2. next \in Path(Kind(t)) \ {"new", "commit"} /\ next # "next"
    BY <1>1 DEF Path
  <2>3. q # Absent => owner[i] = t
    <3>1. CASE stock[i] # Absent
      BY <1>1, <1>2, <3>1 DEF Locks, Present, Owned
    <3>2. CASE stock[i] = Absent
      BY <1>2, <3>2 DEF View, Guarded
    <3>3. QED
      BY <3>1, <3>2
  <2>4. This(t)' = This(t) /\ View(t, i)' = q /\ owner' = owner /\ seen'[t][i] = q
    <3>1. item' = item /\ stock' = stock /\ owner' = owner
      BY <2>1, <2>2, ProceedDoes DEF Proceed
    <3>2. seen'[t][i] = q
      BY <1>2, <2>1 DEF Books
    <3>3. QED
      BY <2>1, <3>1, <3>2 DEF This, View
  <2>5. Informed(t)'
    BY <2>3, <2>4 DEF Informed
  <2> HIDE DEF next, q, i
  <2>6. QED
    BY <1>1, <1>2, <2>1, <2>2, <2>5, LookStep DEF Ended
<1>5. QED
  BY <1>3, <1>4

LEMMA CountRowsGoes ==
  ASSUME Books, NEW t \in Txs, Informed(t), CountRows(t)
  PROVE  Looks(t) \/ Closes(t)
<1>1. pc[t] = "count" /\ Kind(t) \in {"add", "bulk-add"}
  BY KindAt DEF CountRows, At
<1>2. CASE Rollback(t, "refused")
  BY <1>2, CloseStep DEF Ended
<1>3. CASE Proceed(t, "save") /\ UNCHANGED private
  <2>1. "save" \in Path(Kind(t))
    BY <1>1 DEF Path
  <2>2. seen' = seen /\ dirty' = dirty /\ skipped' = skipped /\ item' = item /\ stock' = stock /\ owner' = owner
    BY <1>3, ProceedDoes DEF private, Proceed
  <2>3. Informed(t)'
    BY <1>1, <2>2 DEF Informed, This, View
  <2>4. QED
    BY <1>1, <1>3, <2>1, <2>2, <2>3, LookStep DEF Ended
<1>4. QED
  BY <1>2, <1>3 DEF CountRows

LEMMA ScanGoes ==
  ASSUME Books, NEW t \in Txs, Scan(t)
  PROVE  Looks(t) \/ Closes(t)
<1>1. pc[t] = "scan" /\ Kind(t) = "order"
  BY KindAt DEF Scan, At
<1>2. "take" \in Path(Kind(t))
  BY <1>1 DEF Path
<1>3. CASE Proceed(t, "take") /\ UNCHANGED private
  BY <1>1, <1>2, <1>3, LookStep DEF Ended, private
<1>4. CASE Rollback(t, "refused")
  BY <1>4, CloseStep DEF Ended
<1>5. QED
  BY <1>3, <1>4 DEF Scan

LEMMA MergeLooks ==
  ASSUME Books, NEW t \in Txs, CheckMerge(t) \/ ReadSource(t) \/ ReadTarget(t)
  PROVE  Looks(t) \/ Closes(t)
<1>1. pc[t] \in {"check", "source", "target"} /\ Kind(t) = "merge"
  BY KindAt DEF CheckMerge, ReadSource, ReadTarget, At
<1>2. {"source", "target", "into"} \subseteq Path(Kind(t)) \ {"new", "commit"}
  BY <1>1 DEF Path
<1>3. Source(t) \in Ingredients /\ Target(t) \in Ingredients /\ \A i \in Ingredients : stock[i] \in Quantity
  BY <1>1, EndsOf DEF Books
<1>4. CASE CheckMerge(t)
  BY <1>1, <1>2, <1>4, LookStep, CloseStep DEF CheckMerge, Ended, private
<1>5. CASE ReadSource(t)
  BY <1>1, <1>2, <1>3, <1>5, LookStep DEF ReadSource, Read, Ended
<1>6. CASE ReadTarget(t)
  BY <1>1, <1>2, <1>3, <1>6, LookStep DEF ReadTarget, Read, Ended
<1>7. QED
  BY <1>4, <1>5, <1>6

LEMMA WriteDoes ==
  ASSUME Books, NEW t \in Txs, NEW new \in [Ingredients -> Quantity \cup {Nobody}], NEW next, Write(t, new, next)
  PROVE  /\ dirty' \in [Txs -> [Ingredients -> Quantity \cup {Nobody}]] /\ dirty'[t] = new
         /\ Elsewhere(t) /\ seen' = seen /\ skipped' = skipped /\ Proceed(t, next)
<1>1. dirty' = [dirty EXCEPT ![t] = new] /\ Proceed(t, next) /\ seen' = seen /\ skipped' = skipped
  BY DEF Write
<1>2. dirty \in [Txs -> [Ingredients -> Quantity \cup {Nobody}]]
  BY DEF Books
<1>3. dirty' \in [Txs -> [Ingredients -> Quantity \cup {Nobody}]] /\ dirty'[t] = new
      /\ \A u \in Txs \ {t} : dirty'[u] = dirty[u]
  BY <1>1, <1>2
<1>4. QED
  BY <1>1, <1>3, ProceedDoes DEF Elsewhere

\* An item is written.
Follower(t) == IF Kind(t) = "set" THEN "commit" ELSE "next"
LEMMA ItemWrites ==
  ASSUME Books, NEW t \in Txs, pc[t] \in {"save", "restore", "assign", "take"}, This(t).ing \in Owned(t),
         NEW q \in Quantity, Right(t, View(t, This(t).ing), q), NEW next, next = Follower(t),
         Write(t, [dirty[t] EXCEPT ![This(t).ing] = q], next)
  PROVE  Writes(t)
<1>0. /\ (Kind(t) \in {"add", "bulk-add", "undo", "order"} /\ next = "next") \/ (Kind(t) = "set" /\ next = "commit")
      /\ pc[t] \notin Ended \cup {"commit"}
  BY KindAt DEF Follower, Ended
<1> DEFINE i == This(t).ing
           new == [dirty[t] EXCEPT ![i] = q]
<1>1. i \in Ingredients /\ owner[i] = t /\ Len(Items(t)) \in Nat /\ item[t] \in 1..Len(Items(t))
  BY ThisType DEF Owned
<1>2. /\ new \in [Ingredients -> Quantity \cup {Nobody}] /\ new[i] = q
      /\ \A j \in Ingredients \ {i} : new[j] = dirty[t][j]
  BY <1>1 DEF Books
<1>3. Write(t, new, next) /\ Right(t, View(t, i), q)
  OBVIOUS
<1> HIDE DEF i, new
<1>4. /\ dirty' \in [Txs -> [Ingredients -> Quantity \cup {Nobody}]] /\ dirty'[t] = new
      /\ Elsewhere(t) /\ seen' = seen /\ skipped' = skipped /\ Proceed(t, next)
  BY <1>2, <1>3, WriteDoes
<1>5. pc'[t] \in Path(Kind(t)) \ {"new", "count", "save", "restore"}
  <2>1. pc'[t] \in {"commit", Loop(t)} /\ (Kind(t) = "set" => pc'[t] = "commit")
    BY <1>0, <1>4, ProceedDoes
  <2>2. QED
    BY <1>0, <2>1 DEF Path, Loop
<1>6. Past(t)' = item[t] /\ (pc'[t] = "commit" => item'[t] = Len(Items(t)))
  <2>1. CASE next = "next"
    BY <1>1, <1>4, <2>1, ProceedDoes DEF Past, Loop
  <2>2. CASE Kind(t) = "set" /\ next = "commit"
    BY <1>1, <1>4, <2>2, ProceedDoes, ItemsType DEF Past
  <2>3. QED
    BY <1>0, <2>1, <2>2
<1>7. Goes(t)
  BY <1>0, <1>4, <1>5, ProceedDoes DEF Goes
<1>8. \A j \in Ingredients : dirty'[t][j] # dirty[t][j] => owner[j] = t
  BY <1>1, <1>2, <1>4
<1>9. QED
  BY <1>2, <1>3, <1>4, <1>5, <1>6, <1>7, <1>8 DEF Writes, i

LEMMA SaveGoes ==
  ASSUME Books, NEW t \in Txs, Informed(t), Save(t)
  PROVE  Writes(t) \/ Closes(t)
<1> DEFINE i == This(t).ing
           n == This(t).amount
<1>1. pc[t] = "save" /\ Kind(t) \in {"add", "bulk-add"} /\ i \in Ingredients /\ n \in Nat /\ i \in Owned(t)
  <2>1. pc[t] = "save" /\ Locks(t) \subseteq Owned(t)
    BY DEF Save, At
  <2>2. Locks(t) = {i}
    BY <2>1 DEF Locks
  <2>3. QED
    BY <2>1, <2>2, KindAt, ThisType
<1>2. View(t, i) \in Quantity /\ seen[t][i] \in Quantity
  BY <1>1, ViewType DEF Books
<1>3. CASE seen[t][i] = Absent
  <2>1. Insert(t, i, n, "next")
    BY <1>3 DEF Save
  <2>2. CASE i \notin catalog \/ View(t, i) # Absent
    BY <2>1, <2>2, CloseStep DEF Insert, Ended
  <2>3. CASE ~(i \notin catalog \/ View(t, i) # Absent)
    <3>1. Write(t, [dirty[t] EXCEPT ![i] = n], "next")
      BY <2>1, <2>3 DEF Insert
    <3>2. Right(t, View(t, i), n)
      BY <1>1, <2>3 DEF Right, Plus
    <3>3. QED
      BY <1>1, <3>1, <3>2, ItemWrites DEF Follower, Quantity
  <2>4. QED
    BY <2>2, <2>3
<1>4. CASE seen[t][i] # Absent
  <2>1. Write(t, [dirty[t] EXCEPT ![i] = seen[t][i] + n], "next")
    BY <1>4 DEF Save
  <2>2. View(t, i) = seen[t][i] /\ seen[t][i] + n \in Quantity
    BY <1>1, <1>2, <1>4 DEF Informed, Quantity
  <2>3. Right(t, View(t, i), seen[t][i] + n)
    BY <1>1, <1>4, <2>2 DEF Right, Plus
  <2>4. QED
    BY <1>1, <2>1, <2>2, <2>3, ItemWrites DEF Follower
<1>5. QED
  BY <1>3, <1>4

LEMMA RestoreGoes ==
  ASSUME Books, NEW t \in Txs, Informed(t), Restore(t)
  PROVE  Writes(t) \/ Closes(t)
<1> DEFINE i == This(t).ing
           n == This(t).amount
<1>1. pc[t] = "restore" /\ Kind(t) = "undo" /\ i \in Ingredients /\ n \in Nat /\ i \in Owned(t)
  <2>1. pc[t] = "restore" /\ Locks(t) \subseteq Owned(t)
    BY DEF Restore, At
  <2>2. Locks(t) = {i}
    BY <2>1 DEF Locks
  <2>3. QED
    BY <2>1, <2>2, KindAt, ThisType
<1>2. View(t, i) \in Quantity /\ seen[t][i] \in Quantity
  BY <1>1, ViewType DEF Books
<1>3. CASE seen[t][i] = Absent
  <2>1. Insert(t, i, n, "next")
    BY <1>3 DEF Restore
  <2>2. CASE i \notin catalog \/ View(t, i) # Absent
    BY <2>1, <2>2, CloseStep DEF Insert, Ended
  <2>3. CASE ~(i \notin catalog \/ View(t, i) # Absent)
    <3>1. Write(t, [dirty[t] EXCEPT ![i] = n], "next")
      BY <2>1, <2>3 DEF Insert
    <3>2. Right(t, View(t, i), n)
      BY <1>1, <2>3 DEF Right, Plus
    <3>3. QED
      BY <1>1, <3>1, <3>2, ItemWrites DEF Follower, Quantity
  <2>4. QED
    BY <2>2, <2>3
<1>4. CASE seen[t][i] # Absent
  <2>1. Write(t, [dirty[t] EXCEPT ![i] = View(t, i) + n], "next")
    BY <1>4 DEF Restore
  <2>2. View(t, i) = seen[t][i] /\ View(t, i) + n \in Quantity
    BY <1>1, <1>2, <1>4 DEF Informed, Quantity
  <2>3. Right(t, View(t, i), View(t, i) + n)
    BY <1>1, <1>4, <2>2 DEF Right, Plus
  <2>4. QED
    BY <1>1, <2>1, <2>2, <2>3, ItemWrites DEF Follower
<1>5. QED
  BY <1>3, <1>4

LEMMA AssignGoes ==
  ASSUME Books, NEW t \in Txs, Assign(t)
  PROVE  Writes(t)
<1>1. pc[t] = "assign" /\ Kind(t) = "set" /\ Locks(t) \subseteq Owned(t)
  BY KindAt DEF Assign, At
<1>2. This(t).ing \in Owned(t) /\ This(t).amount \in Quantity
  BY <1>1, ThisType DEF Locks, Quantity
<1>3. Right(t, View(t, This(t).ing), This(t).amount)
  BY <1>1 DEF Right
<1>4. QED
  BY <1>1, <1>2, <1>3, ItemWrites DEF Assign, Follower

LEMMA TakeGoes ==
  ASSUME Books, NEW t \in Txs, Take(t)
  PROVE  Writes(t) \/ Closes(t)
<1> DEFINE i == This(t).ing
           n == This(t).amount
           q == View(t, i)
<1>1. pc[t] = "take" /\ Kind(t) = "order" /\ Locks(t) \subseteq Owned(t)
  BY KindAt DEF Take, At
<1>2. i \in Ingredients /\ i \in Owned(t) /\ n \in Nat /\ q \in Quantity
  BY <1>1, ThisType, ViewType DEF Locks
<1>3. CASE q = Absent
  BY <1>3, CloseStep DEF Take, Ended
<1>4. CASE q # Absent /\ q < n
  BY <1>4, CloseStep DEF Take, Ended
<1>5. CASE q # Absent /\ ~(q < n)
  <2>1. Write(t, [dirty[t] EXCEPT ![i] = q - n], "next")
    BY <1>5 DEF Take
  <2>2. q - n \in Quantity
    BY <1>2, <1>5 DEF Quantity
  <2>3. Right(t, q, q - n)
    BY <1>1, <1>5 DEF Right
  <2>4. QED
    BY <1>1, <1>2, <2>1, <2>2, <2>3, ItemWrites DEF Follower
<1>6. QED
  BY <1>3, <1>4, <1>5

\* A merge writes rows that it has locked.
LEMMA MergeWrites ==
  ASSUME Books, NEW t \in Txs, Kind(t) = "merge", pc[t] \notin Ended \cup {"commit"},
         NEW next \in {"drop", "unlist", "commit"}, NEW new \in [Ingredients -> Quantity \cup {Nobody}],
         \A i \in Ingredients : new[i] # dirty[t][i] => owner[i] = t, Write(t, new, next)
  PROVE  Writes(t)
<1>1. /\ dirty' \in [Txs -> [Ingredients -> Quantity \cup {Nobody}]] /\ dirty'[t] = new
      /\ Elsewhere(t) /\ seen' = seen /\ skipped' = skipped /\ Proceed(t, next)
  BY WriteDoes
<1>2. pc'[t] = next /\ next \in Path(Kind(t)) \ {"new"}
  BY <1>1, ProceedDoes DEF Path
<1>3. Goes(t)
  BY <1>1, <1>2, ProceedDoes DEF Goes
<1>4. QED
  BY <1>1, <1>2, <1>3 DEF Writes

LEMMA MergeIntoGoes ==
  ASSUME Books, NEW t \in Txs, MergeInto(t)
  PROVE  Looks(t) \/ Writes(t) \/ Closes(t)
<1> DEFINE s == Source(t)
           d == Target(t)
           sum == seen[t][s] + seen[t][d]
<1>1. pc[t] = "into" /\ Kind(t) = "merge" /\ Locks(t) \subseteq Owned(t) /\ pc[t] \notin Ended \cup {"commit"}
  BY KindAt DEF MergeInto, At, Ended
<1>2. s \in Ingredients /\ d \in Ingredients /\ s # d
  BY <1>1, EndsOf
<1>3. seen[t][s] \in Quantity /\ seen[t][d] \in Quantity /\ stock[s] \in Quantity
  BY <1>2 DEF Books
<1>4. dirty[t] \in [Ingredients -> Quantity \cup {Nobody}]
  BY DEF Books
<1>5. seen[t][s] # Absent => owner[d] = t /\ (seen[t][d] = Absent => owner[s] = t)
  BY <1>1 DEF Locks, Owned
<1>6. ASSUME NEW q \in Quantity, owner[d] = t, Write(t, [dirty[t] EXCEPT ![d] = q], "drop")
      PROVE  Writes(t)
  <2> PICK new : new = [dirty[t] EXCEPT ![d] = q]
    OBVIOUS
  <2>1. /\ new \in [Ingredients -> Quantity \cup {Nobody}]
        /\ \A i \in Ingredients : new[i] # dirty[t][i] => owner[i] = t
    BY <1>2, <1>4, <1>6
  <2>2. Write(t, new, "drop")
    BY <1>6
  <2>3. QED
    BY <1>1, <2>1, <2>2, MergeWrites
<1>7. CASE seen[t][s] = Absent
  <2>1. Proceed(t, "unlist") /\ seen' = seen /\ dirty' = dirty /\ skipped' = skipped
    BY <1>7 DEF MergeInto, private
  <2>2. "unlist" \in Path(Kind(t))
    BY <1>1 DEF Path
  <2>3. QED
    BY <1>1, <2>1, <2>2, LookStep
<1>8. CASE seen[t][s] # Absent /\ seen[t][d] # Absent
  <2>1. sum \in Quantity
    BY <1>3, <1>8 DEF Quantity
  <2>2. IF stock[d] # Absent THEN Write(t, [dirty[t] EXCEPT ![d] = sum], "drop") ELSE Insert(t, d, sum, "drop")
    BY <1>8 DEF MergeInto
  <2>3. Write(t, [dirty[t] EXCEPT ![d] = sum], "drop") \/ \E how \in Ended \ {"committed"} : Rollback(t, how)
    BY <2>2 DEF Insert, Ended
  <2> HIDE DEF sum, d, s
  <2>4. QED
    BY <1>5, <1>6, <1>8, <2>1, <2>3, CloseStep
<1>9. CASE seen[t][s] # Absent /\ seen[t][d] = Absent
  <2>1. (\E how \in Ended \ {"committed"} : Rollback(t, how))
          \/ \E q \in {seen[t][s]} \cup ({stock[s]} \ {Absent}) :
               Write(t, [dirty[t] EXCEPT ![d] = q, ![s] = Absent], "unlist")
    BY <1>9 DEF MergeInto, Ended
  <2>2. ASSUME NEW q \in Quantity, Write(t, [dirty[t] EXCEPT ![d] = q, ![s] = Absent], "unlist")
        PROVE  Writes(t)
    <3> PICK new : new = [dirty[t] EXCEPT ![d] = q, ![s] = Absent]
      OBVIOUS
    <3>1. Absent \in Quantity
      BY DEF Quantity
    <3>2. /\ new \in [Ingredients -> Quantity \cup {Nobody}]
          /\ \A i \in Ingredients : new[i] # dirty[t][i] => owner[i] = t
      BY <1>2, <1>4, <1>5, <1>9, <3>1
    <3>3. Write(t, new, "unlist")
      BY <2>2
    <3>4. QED
      BY <1>1, <3>2, <3>3, MergeWrites
  <2>3. \A q \in {seen[t][s]} \cup ({stock[s]} \ {Absent}) : q \in Quantity
    BY <1>3
  <2>4. QED
    BY <2>1, <2>2, <2>3, CloseStep
<1>10. QED
  BY <1>7, <1>8, <1>9

LEMMA SourceGoes ==
  ASSUME Books, NEW t \in Txs, DropSource(t) \/ Unlist(t)
  PROVE  Writes(t)
<1>1. pc[t] \in {"drop", "unlist"} /\ Kind(t) = "merge" /\ Locks(t) \subseteq Owned(t)
  BY KindAt DEF DropSource, Unlist, At
<1>2. Source(t) \in Ingredients /\ owner[Source(t)] = t
  BY <1>1, EndsOf DEF Locks, Owned
<1> PICK new : new = [dirty[t] EXCEPT ![Source(t)] = Absent]
  OBVIOUS
<1>3. /\ new \in [Ingredients -> Quantity \cup {Nobody}]
      /\ \A i \in Ingredients : new[i] # dirty[t][i] => owner[i] = t
  <2>1. dirty[t] \in [Ingredients -> Quantity \cup {Nobody}] /\ Absent \in Quantity
    BY DEF Books, Quantity
  <2>2. QED
    BY <1>2, <2>1
<1>4. PICK next \in {"unlist", "commit"} : Write(t, new, next)
  BY DEF DropSource, Unlist
<1>5. QED
  BY <1>1, <1>3, <1>4, MergeWrites DEF Ended

LEMMA StatementGoes ==
  ASSUME CommitInv, NEW t \in Txs, Statement(t) \/ Detect(t)
  PROVE  \/ Looks(t) \/ Passes(t) \/ Writes(t) \/ Closes(t)
         \/ \E i \in Ingredients : Acquire(t, i)
<1>1. Books /\ Guarded /\ Informed(t)
  BY DEF CommitInv
<1>2. CASE Begin(t)
  BY <1>1, <1>2, BeginLooks
<1>3. CASE Find(t)
  BY <1>1, <1>3, FindGoes
<1>4. CASE LockRow(t)
  BY <1>1, <1>4, LockRowGoes
<1>5. CASE CountRows(t)
  BY <1>1, <1>5, CountRowsGoes
<1>6. CASE Save(t)
  BY <1>1, <1>6, SaveGoes
<1>7. CASE Assign(t)
  BY <1>1, <1>7, AssignGoes
<1>8. CASE Restore(t)
  BY <1>1, <1>8, RestoreGoes
<1>9. CASE Scan(t)
  BY <1>1, <1>9, ScanGoes
<1>10. CASE Take(t)
  BY <1>1, <1>10, TakeGoes
<1>11. CASE CheckMerge(t) \/ ReadSource(t) \/ ReadTarget(t)
  BY <1>1, <1>11, MergeLooks
<1>12. CASE MergeInto(t)
  BY <1>1, <1>12, MergeIntoGoes
<1>13. CASE DropSource(t) \/ Unlist(t)
  BY <1>1, <1>13, SourceGoes
<1>14. CASE Commit(t)
  BY <1>14 DEF Commit, Closes, Ended
<1>15. CASE Detect(t)
  BY <1>15, CloseStep DEF Detect, Ended
<1>16. QED
  BY <1>2, <1>3, <1>4, <1>5, <1>6, <1>7, <1>8, <1>9, <1>10, <1>11, <1>12, <1>13, <1>14, <1>15 DEF Statement

-----------------------------------------------------------------------------
(* Every step keeps what is written in step with what it is for            *)

\* Nobody disturbs what another one has locked.
LEMMA Undisturbed ==
  ASSUME CommitInv, NEW u \in Txs, Statement(u) \/ Detect(u), NEW t \in Txs \ {u}
  PROVE  /\ pc'[t] = pc[t] /\ item'[t] = item[t] /\ seen'[t] = seen[t] /\ dirty'[t] = dirty[t] /\ skipped'[t] = skipped[t]
         /\ \A i \in Ingredients : owner[i] = t => owner'[i] = t /\ stock'[i] = stock[i]
<1>1. Books /\ Guarded
  BY DEF CommitInv
<1>2. CASE Looks(u) \/ Passes(u) \/ Writes(u)
  BY <1>2 DEF Looks, Passes, Writes, Goes, Elsewhere
<1>3. CASE Closes(u)
  <2>1. PICK how \in Ended : End(u, how) /\
          IF how = "committed" THEN pc[u] = "commit" /\ stock' = [i \in Ingredients |-> View(u, i)] ELSE stock' = stock
    BY <1>3 DEF Closes
  <2>2. Elsewhere(u) /\ \A i \in Ingredients : owner'[i] = IF owner[i] = u THEN Nobody ELSE owner[i]
    BY <1>1, <2>1, EndDoes
  <2>3. ASSUME NEW i \in Ingredients, owner[i] = t
        PROVE  stock'[i] = stock[i]
    <3>1. dirty[u][i] = Nobody
      BY <1>1, <2>3 DEF Guarded
    <3>2. View(u, i) = stock[i]
      BY <3>1 DEF View
    <3>3. QED
      BY <2>1, <3>2
  <2>4. QED
    BY <2>2, <2>3 DEF Elsewhere
<1>4. ASSUME NEW i \in Ingredients, Acquire(u, i)
      PROVE  /\ pc' = pc /\ item' = item /\ seen' = seen /\ dirty' = dirty /\ skipped' = skipped /\ stock' = stock
             /\ \A j \in Ingredients : owner[j] = t => owner'[j] = t
  <2>1. owner \in [Ingredients -> Txs \cup {Nobody}] /\ t # Nobody
    BY <1>1, NamesAssumption DEF Books
  <2>2. owner' = owner \/ (owner[i] = Nobody /\ owner' = [owner EXCEPT ![i] = u])
    BY <1>4 DEF Acquire
  <2>3. QED
    BY <1>4, <2>1, <2>2 DEF Acquire, data, private
<1>5. QED
  BY <1>2, <1>3, <1>4, StatementGoes

LEMMA OthersApply ==
  ASSUME CommitInv, NEW u \in Txs, Statement(u) \/ Detect(u), NEW t \in Txs \ {u}
  PROVE  Informed(t)' /\ Applied(t)'
<1>1. /\ pc'[t] = pc[t] /\ item'[t] = item[t] /\ seen'[t] = seen[t] /\ dirty'[t] = dirty[t] /\ skipped'[t] = skipped[t]
      /\ \A i \in Ingredients : owner[i] = t => owner'[i] = t /\ stock'[i] = stock[i]
  BY Undisturbed
<1>2. Books /\ Guarded /\ Informed(t) /\ Applied(t)
  BY DEF CommitInv
<1>3. This(t)' = This(t) /\ This(t).ing \in Ingredients
  BY <1>1, <1>2, ThisType DEF This
<1>4. Informed(t)'
  BY <1>1, <1>2, <1>3 DEF Informed, View
<1>5. Past(t)' = Past(t) /\ Touched(t)' = Touched(t)
  BY <1>1 DEF Past, Touched
<1>6. ASSUME Kind(t) # "merge" /\ pc[t] \notin Ended /\ skipped[t] = {}, NEW i \in Ingredients
      PROVE  i \in Touched(t) => stock'[i] = stock[i]
  BY <1>1, <1>2, <1>6 DEF Applied, Guarded
<1>7. \A i : Outcome(t, i, stock[i])' = Outcome(t, i, stock'[i])
  BY <1>5 DEF Outcome
<1>8. Applied(t)'
  BY <1>1, <1>2, <1>5, <1>6, <1>7 DEF Applied
<1>9. QED
  BY <1>4, <1>8

LEMMA AcquireDoes ==
  ASSUME Books, NEW t \in Txs, NEW i \in Ingredients, Acquire(t, i)
  PROVE  /\ pc' = pc /\ item' = item /\ seen' = seen /\ dirty' = dirty /\ skipped' = skipped /\ stock' = stock
         /\ owner' \in [Ingredients -> Txs \cup {Nobody}]
         /\ \A u \in Txs, j \in Ingredients : owner[j] = u => owner'[j] = u
<1>1. owner \in [Ingredients -> Txs \cup {Nobody}] /\ Nobody \notin Txs
  BY NamesAssumption DEF Books
<1>2. owner' = owner \/ (owner[i] = Nobody /\ owner' = [owner EXCEPT ![i] = t])
  BY DEF Acquire
<1>3. QED
  BY <1>1, <1>2 DEF Acquire, data, private

LEMMA BooksKept ==
  ASSUME CommitInv, NEW t \in Txs, Statement(t) \/ Detect(t)
  PROVE  Books' /\ Guarded'
<1>1. Books /\ Guarded
  BY DEF CommitInv
<1>2. CASE Looks(t) \/ Passes(t) \/ Writes(t)
  <2>1. Goes(t) /\ Elsewhere(t) /\ stock' = stock /\ owner' = owner
    BY <1>2 DEF Looks, Passes, Writes, Goes
  <2>2. \A u \in Txs : pc'[u] \in Path(Kind(u)) \cup Ended
    BY <1>1, <2>1 DEF Goes, Elsewhere, Books
  <2>3. /\ seen' \in [Txs -> [Ingredients -> Quantity]]
        /\ dirty' \in [Txs -> [Ingredients -> Quantity \cup {Nobody}]]
        /\ skipped' = [u \in Txs |-> skipped'[u]]
    BY <1>1, <1>2 DEF Looks, Passes, Writes, Books
  <2>4. Books'
    BY <1>1, <2>1, <2>2, <2>3 DEF Books, Goes
  <2>5. \A i \in Ingredients : dirty'[t][i] # dirty[t][i] => owner[i] = t
    BY <1>2 DEF Looks, Passes, Writes
  <2>6. Guarded'
    BY <1>1, <2>1, <2>5 DEF Guarded, Elsewhere
  <2>7. QED
    BY <2>4, <2>6
<1>3. CASE Closes(t)
  <2>1. PICK how \in Ended : End(t, how) /\
          IF how = "committed" THEN pc[t] = "commit" /\ stock' = [i \in Ingredients |-> View(t, i)] ELSE stock' = stock
    BY <1>3 DEF Closes
  <2>2. /\ pc' = [u \in Txs |-> pc'[u]] /\ pc'[t] = how /\ Elsewhere(t)
        /\ item' = item /\ seen' = seen /\ skipped' = skipped
        /\ dirty' \in [Txs -> [Ingredients -> Quantity \cup {Nobody}]]
        /\ owner' \in [Ingredients -> Txs \cup {Nobody}]
        /\ \A i \in Ingredients : dirty'[t][i] = Nobody /\ owner'[i] = IF owner[i] = t THEN Nobody ELSE owner[i]
    BY <1>1, <2>1, EndDoes
  <2>3. stock' \in [Ingredients -> Quantity]
    BY <1>1, <2>1, ViewType DEF Books
  <2>4. Books'
    BY <1>1, <2>2, <2>3 DEF Books, Elsewhere
  <2>5. Guarded'
    BY <1>1, <2>2 DEF Guarded, Elsewhere
  <2>6. QED
    BY <2>4, <2>5
<1>4. ASSUME NEW i \in Ingredients, Acquire(t, i)
      PROVE  Books' /\ Guarded'
  BY <1>1, <1>4, AcquireDoes DEF Books, Guarded
<1>5. QED
  BY <1>2, <1>3, <1>4, StatementGoes

\* An item more is written, and no other ingredient touched.
LEMMA WriteApplies ==
  ASSUME CommitInv, NEW t \in Txs, Writes(t)
  PROVE  Applied(t)'
<1> SUFFICES ASSUME Kind(t) # "merge", skipped'[t] = {}
             PROVE  /\ pc'[t] # "new"
                    /\ pc'[t] = "commit" => item'[t] = Len(Items(t))
                    /\ \A i \in Ingredients :
                         /\ AmountTo(t, i)[Past(t)'] \in Nat
                         /\ i \notin Touched(t)' => dirty'[t][i] = Nobody /\ AmountTo(t, i)[Past(t)'] = 0
                         /\ i \in Touched(t)' => /\ dirty'[t][i] = Outcome(t, i, stock[i])' /\ dirty'[t][i] # Nobody
                                                 /\ Kind(t) = "order" => stock'[i] # Absent
  BY DEF Applied
<1>0. PICK n, c, a : n = item[t] /\ c = This(t).ing /\ a = This(t).amount
  OBVIOUS
<1>1. /\ Books /\ pc[t] \notin Ended \cup {"commit"} /\ skipped[t] = {} /\ stock' = stock
      /\ Past(t)' = n /\ pc'[t] # "new" /\ (pc'[t] = "commit" => item'[t] = Len(Items(t)))
      /\ \A i \in Ingredients \ {c} : dirty'[t][i] = dirty[t][i]
      /\ dirty'[t][c] \in Quantity /\ Right(t, View(t, c), dirty'[t][c])
  BY <1>0 DEF CommitInv, Writes, Goes
<1>2. n \in 1..Len(Items(t)) /\ c \in Ingredients /\ a \in Nat /\ Len(Items(t)) \in Nat
      /\ Items(t)[n].ing = c /\ Items(t)[n].amount = a
  BY <1>0, <1>1, ThisType
<1>3. Past(t) = n - 1
  BY <1>0, <1>1 DEF Past
<1>4. \A i \in Ingredients :
        /\ AmountTo(t, i)[n - 1] \in Nat
        /\ i \notin Touched(t) => dirty[t][i] = Nobody /\ AmountTo(t, i)[n - 1] = 0
        /\ i \in Touched(t) => /\ dirty[t][i] = Outcome(t, i, stock[i]) /\ dirty[t][i] # Nobody
                               /\ Kind(t) = "order" => stock[i] # Absent
  BY <1>1, <1>3 DEF CommitInv, Applied
<1>5. Touched(t)' = Touched(t) \cup {c}
  <2>1. 1..n = 1..(n - 1) \cup {n}
    BY <1>2
  <2>2. Touched(t)' = {Items(t)[k].ing : k \in 1..n}
    BY <1>1 DEF Touched
  <2>3. Touched(t) = {Items(t)[k].ing : k \in 1..(n - 1)}
    BY <1>3 DEF Touched
  <2>4. QED
    BY <1>2, <2>1, <2>2, <2>3
<1>6. \A i \in Ingredients : AmountTo(t, i)[n] = AmountTo(t, i)[n - 1] + (IF i = c THEN a ELSE 0)
  BY <1>2, AmountNext
<1>7. /\ Kind(t) = "set" => \A i : Outcome(t, i, stock[i])' = Items(t)[1].amount
      /\ Kind(t) = "order" => \A i : Outcome(t, i, stock[i])' = stock[i] - AmountTo(t, i)[n]
      /\ Kind(t) \notin {"set", "order"} => \A i : Outcome(t, i, stock[i])' = Plus(stock[i], AmountTo(t, i)[n])
  BY <1>1 DEF Outcome
<1>8. /\ Kind(t) = "set" => \A i : Outcome(t, i, stock[i]) = Items(t)[1].amount
      /\ Kind(t) = "order" => \A i : Outcome(t, i, stock[i]) = stock[i] - AmountTo(t, i)[n - 1]
      /\ Kind(t) \notin {"set", "order"} => \A i : Outcome(t, i, stock[i]) = Plus(stock[i], AmountTo(t, i)[n - 1])
  BY <1>3 DEF Outcome
<1>9. \A i \in Ingredients : stock[i] \in Nat \cup {Absent}
  BY <1>1 DEF Books, Quantity
<1>10. Right(t, View(t, c), dirty'[t][c]) /\ dirty'[t][c] \in Nat \cup {Absent}
  BY <1>1 DEF Quantity
<1>11. Kind(t) = "set" => n = 1
  BY <1>2, ItemsType
<1>12. ASSUME NEW i \in Ingredients
       PROVE  AmountTo(t, i)[n] \in Nat
  BY <1>2, <1>4, <1>6
<1>13. ASSUME NEW i \in Ingredients, i # c
       PROVE  /\ i \notin Touched(t)' => dirty'[t][i] = Nobody /\ AmountTo(t, i)[n] = 0
              /\ i \in Touched(t)' => /\ dirty'[t][i] = Outcome(t, i, stock[i])' /\ dirty'[t][i] # Nobody
                                      /\ Kind(t) = "order" => stock[i] # Absent
  <2>1. AmountTo(t, i)[n] = AmountTo(t, i)[n - 1]
    BY <1>4, <1>6, <1>13
  <2>2. Outcome(t, i, stock[i])' = Outcome(t, i, stock[i])
    BY <1>7, <1>8, <2>1
  <2>3. QED
    BY <1>1, <1>4, <1>5, <1>13, <2>1, <2>2
<1>14. dirty'[t][c] = Outcome(t, c, stock[c])' /\ dirty'[t][c] # Nobody
       /\ (Kind(t) = "order" => stock[c] # Absent)
  <2>0. PICK before : before = AmountTo(t, c)[n - 1]
    OBVIOUS
  <2>1. before \in Nat /\ AmountTo(t, c)[n] = before + a /\ a \in Nat
    BY <1>2, <1>4, <1>6, <2>0
  <2>2. \/ dirty[t][c] = Nobody /\ before = 0 /\ View(t, c) = stock[c]
        \/ /\ View(t, c) = Outcome(t, c, stock[c]) /\ (Kind(t) = "order" => stock[c] # Absent)
    BY <1>2, <1>4, <2>0 DEF View
  <2>3. stock[c] \in Nat \cup {Absent} /\ Absent \notin Int
    BY <1>2, <1>9, NamesAssumption
  <2>4. dirty'[t][c] # Nobody
    BY <1>10, NamesAssumption
  <2>5. CASE Kind(t) = "set"
    <3>1. dirty'[t][c] = a
      BY <1>0, <1>10, <2>5 DEF Right
    <3>2. Items(t)[1].amount = a
      BY <1>2, <1>11, <2>5
    <3>3. QED
      BY <1>7, <2>4, <2>5, <3>1, <3>2
  <2>6. CASE Kind(t) = "order"
    <3>1. View(t, c) # Absent /\ dirty'[t][c] = View(t, c) - a
      BY <1>0, <1>10, <2>6 DEF Right
    <3>2. Outcome(t, c, stock[c]) = stock[c] - before /\ Outcome(t, c, stock[c])' = stock[c] - (before + a)
      <4>1. Outcome(t, c, stock[c]) = stock[c] - before
        BY <1>8, <2>0, <2>6
      <4>2. Outcome(t, c, stock[c])' = stock[c] - (before + a)
        BY <1>7, <2>1, <2>6
      <4>3. QED
        BY <4>1, <4>2
    <3>3. stock[c] \in Nat
      BY <2>2, <2>3, <2>6, <3>1
    <3>4. View(t, c) = stock[c] - before
      BY <2>2, <3>2, <3>3
    <3>5. dirty'[t][c] = stock[c] - (before + a)
      BY <2>1, <3>1, <3>3, <3>4
    <3>6. QED
      BY <2>3, <2>4, <3>2, <3>3, <3>5
  <2>7. CASE Kind(t) \notin {"set", "order"}
    <3>1. dirty'[t][c] = Plus(View(t, c), a)
      BY <1>0, <1>10, <2>7 DEF Right
    <3>2. Outcome(t, c, stock[c]) = Plus(stock[c], before) /\ Outcome(t, c, stock[c])' = Plus(stock[c], before + a)
      <4>1. Outcome(t, c, stock[c]) = Plus(stock[c], before)
        BY <1>8, <2>0, <2>7
      <4>2. Outcome(t, c, stock[c])' = Plus(stock[c], before + a)
        BY <1>7, <2>1, <2>7
      <4>3. QED
        BY <4>1, <4>2
    <3>3. CASE stock[c] = Absent
      <4>1. (View(t, c) = Absent /\ before = 0) \/ View(t, c) = before
        BY <2>2, <3>2, <3>3 DEF Plus
      <4>2. Plus(View(t, c), a) = before + a
        BY <2>1, <2>3, <4>1 DEF Plus
      <4>3. QED
        BY <2>4, <2>7, <3>1, <3>2, <3>3, <4>2 DEF Plus
    <3>4. CASE stock[c] \in Nat
      <4>1. View(t, c) = stock[c] + before
        BY <2>2, <2>3, <3>2, <3>4 DEF Plus
      <4>2. Plus(View(t, c), a) = stock[c] + (before + a)
        BY <2>1, <2>3, <3>4, <4>1 DEF Plus
      <4>3. QED
        BY <2>3, <2>4, <2>7, <3>1, <3>2, <3>4, <4>2 DEF Plus
    <3>5. QED
      BY <2>3, <3>3, <3>4
  <2>8. QED
    BY <2>5, <2>6, <2>7
<1>15. ASSUME NEW i \in Ingredients
       PROVE  /\ i \notin Touched(t)' => dirty'[t][i] = Nobody /\ AmountTo(t, i)[n] = 0
              /\ i \in Touched(t)' => /\ dirty'[t][i] = Outcome(t, i, stock[i])' /\ dirty'[t][i] # Nobody
                                      /\ Kind(t) = "order" => stock[i] # Absent
  <2>1. CASE i = c
    <3>1. c \in Touched(t)'
      BY <1>5
    <3>2. QED
      BY <1>14, <2>1, <3>1
  <2>2. CASE i # c
    BY <1>13, <2>2
  <2>3. QED
    BY <2>1, <2>2
<1>16. Past(t)' = n /\ stock' = stock
  BY <1>1
<1>17. \A i \in Ingredients :
         /\ AmountTo(t, i)[Past(t)'] \in Nat
         /\ i \notin Touched(t)' => dirty'[t][i] = Nobody /\ AmountTo(t, i)[Past(t)'] = 0
         /\ i \in Touched(t)' => /\ dirty'[t][i] = Outcome(t, i, stock[i])' /\ dirty'[t][i] # Nobody
                                 /\ Kind(t) = "order" => stock'[i] # Absent
  BY <1>12, <1>15, <1>16
<1>18. QED
  BY <1>1, <1>17

\* A step of a transaction keeps its own books.
LEMMA OwnApplies ==
  ASSUME CommitInv, NEW t \in Txs, Statement(t) \/ Detect(t)
  PROVE  Informed(t)' /\ Applied(t)'
<1>1. Books /\ Informed(t) /\ Applied(t)
  BY DEF CommitInv
<1>2. CASE Looks(t)
  <2>1. /\ pc[t] \notin Ended \cup {"commit"} /\ pc'[t] \notin {"new", "commit"} /\ stock' = stock
        /\ item' = item /\ dirty' = dirty /\ skipped' = skipped /\ Informed(t)'
    BY <1>2 DEF Looks, Goes
  <2>2. Past(t)' = Past(t) /\ Touched(t)' = Touched(t)
    BY <2>1 DEF Past, Touched
  <2>3. \A i : Outcome(t, i, stock[i])' = Outcome(t, i, stock[i])
    BY <2>1, <2>2 DEF Outcome
  <2>4. QED
    BY <1>1, <2>1, <2>2, <2>3 DEF Applied
<1>3. CASE Passes(t)
  BY <1>3 DEF Passes, Informed, Applied
<1>4. CASE Writes(t)
  <2>1. Informed(t)'
    BY <1>4 DEF Writes, Informed
  <2>2. QED
    BY <1>4, <2>1, WriteApplies
<1>5. CASE Closes(t)
  <2>1. pc'[t] \in Ended
    BY <1>1, <1>5, EndDoes DEF Closes
  <2>2. QED
    BY <2>1 DEF Informed, Applied, Ended
<1>6. ASSUME NEW j \in Ingredients, Acquire(t, j)
      PROVE  Informed(t)' /\ Applied(t)'
  <2>1. /\ pc' = pc /\ item' = item /\ seen' = seen /\ dirty' = dirty /\ skipped' = skipped /\ stock' = stock
        /\ \A i \in Ingredients : owner[i] = t => owner'[i] = t
    BY <1>1, <1>6, AcquireDoes
  <2>2. This(t)' = This(t) /\ This(t).ing \in Ingredients /\ \A i : View(t, i)' = View(t, i)
    BY <1>1, <2>1, ThisType DEF This, View
  <2>3. Past(t)' = Past(t) /\ Touched(t)' = Touched(t)
    BY <2>1 DEF Past, Touched
  <2>4. \A i : Outcome(t, i, stock[i])' = Outcome(t, i, stock[i])
    BY <2>1, <2>3 DEF Outcome
  <2>5. Informed(t)'
    BY <1>1, <2>1, <2>2 DEF Informed
  <2>6. Applied(t)'
    BY <1>1, <2>1, <2>3, <2>4 DEF Applied
  <2>7. QED
    BY <2>5, <2>6
<1>7. QED
  BY <1>2, <1>3, <1>4, <1>5, <1>6, StatementGoes

LEMMA CommitInit == Init => CommitInv
<1> SUFFICES ASSUME Init PROVE CommitInv
  OBVIOUS
<1>1. /\ stock \in [Ingredients -> Quantity]
      /\ owner = [i \in Ingredients |-> Nobody]
      /\ pc = [t \in Txs |-> "new"] /\ item = [t \in Txs |-> 1] /\ skipped = [t \in Txs |-> {}]
      /\ seen = [t \in Txs |-> [i \in Ingredients |-> Absent]]
      /\ dirty = [t \in Txs |-> [i \in Ingredients |-> Nobody]]
  BY InitAssumption DEF Init
<1>2. \A t \in Txs : 1 \in 1..Len(Items(t)) /\ "new" \in Path(Kind(t))
  BY ItemsType DEF Path
<1>3. Books
  BY <1>1, <1>2 DEF Books, Quantity
<1>4. Guarded
  BY <1>1 DEF Guarded
<1>5. ASSUME NEW t \in Txs
      PROVE  Informed(t) /\ Applied(t)
  <2>1. pc[t] = "new" /\ item[t] = 1 /\ Past(t) = 0 /\ \A i \in Ingredients : dirty[t][i] = Nobody
    BY <1>1 DEF Past
  <2>2. Touched(t) = {}
    BY <2>1 DEF Touched
  <2>3. \A i \in Ingredients : AmountTo(t, i)[Past(t)] = 0
    BY <2>1, AmountNext
  <2>4. QED
    BY <2>1, <2>2, <2>3 DEF Informed, Applied
<1>6. QED
  BY <1>3, <1>4, <1>5 DEF CommitInv

LEMMA CommitStep == CommitInv /\ [Next]_vars => CommitInv'
<1> SUFFICES ASSUME CommitInv, [Next]_vars PROVE CommitInv'
  OBVIOUS
<1>1. CASE UNCHANGED vars
  <2>1. /\ stock' = stock /\ owner' = owner /\ pc' = pc /\ item' = item
        /\ seen' = seen /\ dirty' = dirty /\ skipped' = skipped
    BY <1>1 DEF vars, data, private
  <2>2. Books' /\ Guarded'
    BY <2>1 DEF CommitInv, Books, Guarded
  <2>3. ASSUME NEW t \in Txs
        PROVE  Informed(t)' /\ Applied(t)'
    <3>1. This(t)' = This(t) /\ (\A i : View(t, i)' = View(t, i)) /\ Past(t)' = Past(t) /\ Touched(t)' = Touched(t)
      BY <2>1 DEF This, View, Past, Touched
    <3>2. \A i : Outcome(t, i, stock[i])' = Outcome(t, i, stock[i])
      BY <2>1, <3>1 DEF Outcome
    <3>3. Informed(t)'
      BY <2>1, <3>1 DEF CommitInv, Informed
    <3>4. Applied(t)'
      BY <2>1, <3>1, <3>2 DEF CommitInv, Applied
    <3>5. QED
      BY <3>3, <3>4
  <2>4. QED
    BY <2>2, <2>3 DEF CommitInv
<1>2. ASSUME NEW u \in Txs, Statement(u) \/ Detect(u)
      PROVE  CommitInv'
  <2>1. Books' /\ Guarded'
    BY <1>2, BooksKept
  <2>2. \A t \in Txs : Informed(t)' /\ Applied(t)'
    <3>1. TAKE t \in Txs
    <3>2. CASE t = u
      BY <1>2, <3>2, OwnApplies
    <3>3. CASE t # u
      BY <1>2, <3>3, OthersApply
    <3>4. QED
      BY <3>2, <3>3
  <2>3. QED
    BY <2>1, <2>2 DEF CommitInv
<1>3. QED
  BY <1>1, <1>2 DEF Next

\* What is written when everything is done is the effect of the transaction.
LEMMA ViewIsEffect ==
  ASSUME CommitInv, NEW t \in Txs, pc[t] = "commit", Kind(t) # "merge", skipped[t] = {}
  PROVE  [i \in Ingredients |-> View(t, i)] = Effect(t, stock)
<1>1. Books /\ Applied(t)
  BY DEF CommitInv
<1>2. Past(t) = Len(Items(t)) /\ item[t] = Len(Items(t)) /\ pc[t] \notin Ended
  BY <1>1 DEF Past, Applied, Ended
<1>3. Touched(t) = Wanted(t)
  BY <1>2, ItemsType DEF Touched, Wanted
<1>4. \A i \in Ingredients :
        /\ i \notin Touched(t) => dirty[t][i] = Nobody
        /\ i \in Touched(t) => dirty[t][i] = Outcome(t, i, stock[i]) /\ dirty[t][i] # Nobody
  BY <1>1, <1>2 DEF Applied
<1>5. Kind(t) = "set" => Items(t)[1].amount = This(t).amount
  BY <1>2, ItemsType DEF This
<1> DEFINE effect(i) == IF i \notin Wanted(t) THEN stock[i]
                         ELSE CASE Kind(t) = "set" -> This(t).amount
                                [] Kind(t) = "order" -> stock[i] - Amount(t, i)
                                [] OTHER -> Plus(stock[i], Amount(t, i))
<1>6. ASSUME NEW i \in Ingredients
      PROVE  View(t, i) = effect(i)
  <2>1. CASE i \notin Wanted(t)
    <3>1. View(t, i) = stock[i]
      BY <1>3, <1>4, <2>1 DEF View
    <3>2. QED
      BY <2>1, <3>1
  <2>2. CASE i \in Wanted(t)
    <3>1. View(t, i) = Outcome(t, i, stock[i])
      BY <1>3, <1>4, <2>2 DEF View
    <3>2. CASE Kind(t) = "set"
      BY <1>5, <2>2, <3>1, <3>2 DEF Outcome
    <3>3. CASE Kind(t) = "order"
      BY <1>2, <2>2, <3>1, <3>3 DEF Outcome, Amount
    <3>4. CASE Kind(t) \notin {"set", "order"}
      BY <1>2, <2>2, <3>1, <3>4 DEF Outcome, Amount
    <3>5. QED
      BY <3>2, <3>3, <3>4
  <2>3. QED
    BY <2>1, <2>2
<1>7. Effect(t, stock) = [i \in Ingredients |-> effect(i)]
  BY DEF Effect
<1> HIDE DEF effect
<1>8. QED
  BY <1>6, <1>7

LEMMA CommitsAre ==
  ASSUME CommitInv, [Next]_vars, NEW t \in Txs, Commits(t), Kind(t) # "merge", skipped[t] = {}
  PROVE  stock' = Effect(t, stock)
<1>1. Books
  BY DEF CommitInv
<1>2. PICK u \in Txs : Statement(u) \/ Detect(u)
  BY DEF Commits, Next, vars
<1>3. u = t
  BY <1>2, Undisturbed DEF Commits
<1>4. Closes(t)
  <2>1. "committed" \notin Path(Kind(t))
    BY DEF Path
  <2>2. ~Looks(t) /\ ~Passes(t) /\ ~Writes(t)
    BY <2>1 DEF Commits, Looks, Passes, Writes, Goes
  <2>3. ~\E i \in Ingredients : Acquire(t, i)
    BY DEF Acquire, Commits
  <2>4. QED
    BY <1>2, <1>3, <2>2, <2>3, StatementGoes
<1>5. PICK how \in Ended : End(t, how) /\
        IF how = "committed" THEN pc[t] = "commit" /\ stock' = [i \in Ingredients |-> View(t, i)] ELSE stock' = stock
  BY <1>4 DEF Closes
<1>6. how = "committed"
  BY <1>1, <1>5, EndDoes DEF Commits
<1>7. QED
  BY <1>5, <1>6, ViewIsEffect

\* No update is lost: an addition, a correction, an order or an undo (of all its items)
\* that commits changes the stock as if it had run alone at that moment.
THEOREM CommitsApplyHolds == Spec => CommitsApply
<1>1. CommitInv /\ [Next]_vars
        => [\A t \in Txs : Commits(t) /\ Kind(t) # "merge" /\ skipped[t] = {}
                             => stock' = Effect(t, stock)]_vars
  BY CommitsAre
<1>2. QED
  BY <1>1, CommitInit, CommitStep, PTL DEF Spec, CommitsApply

-----------------------------------------------------------------------------
(* Ordered locking                                                         *)

\* The items are visited in the order of their ingredients.
Ascending(t) == \A j, k \in 1..Len(Items(t)) : j < k => Items(t)[j].ing <= Items(t)[k].ing

\* Transactions that lock one row an item: every admin's but merges, and undos of
\* deductions that are in the order of the ids; no orders.
OneByOne == \A t \in Txs : Kind(t) \notin {"order", "merge"} /\ (Kind(t) = "undo" => Ascending(t))

Visits == {"new", "find", "lock", "count", "save", "assign", "restore", "commit"}

Shape ==
  /\ owner \in [Ingredients -> Txs \cup {Nobody}]
  /\ pc \in [Txs -> Visits \cup Ended]
  /\ item \in [Txs -> Nat] /\ \A t \in Txs : item[t] \in 1..Len(Items(t))
  /\ want \in [Txs -> Ingredients \cup {Nobody}]

\* Nobody owns a lock above the item it is at.
LocksBehind == \A t \in Txs, i \in Ingredients : owner[i] = t => i <= This(t).ing

OrderedInv == Shape /\ LocksBehind

\* The sort makes bulk-adds ascend, one item ascends by itself, and undos are asked to.
LEMMA AllAscend ==
  ASSUME OneByOne, NEW t \in Txs
  PROVE  /\ Len(Items(t)) \in Nat /\ 1 \in 1..Len(Items(t))
         /\ \A k \in 1..Len(Items(t)) : Items(t)[k].ing \in Ingredients
         /\ \A j, k \in 1..Len(Items(t)) : j < k => Items(t)[j].ing <= Items(t)[k].ing
<1>1. Kind(t) \in {"add", "set", "bulk-add", "undo"}
  BY RequestAssumption DEF OneByOne, Kinds, Kind
<1>2. Kind(t) = "undo" => Ascending(t)
  BY DEF OneByOne
<1>3. QED
  BY <1>1, <1>2, ItemsType DEF Ascending

\* Such a transaction only ever asks for the lock of the item it is at.
LEMMA OneLock ==
  ASSUME OneByOne, OrderedInv, NEW t \in Txs
  PROVE  Locks(t) \subseteq {This(t).ing} /\ This(t).ing \in Ingredients
<1>1. This(t).ing \in Ingredients
  BY AllAscend DEF OrderedInv, Shape, This
<1>2. pc[t] \in Visits \cup Ended
  BY DEF OrderedInv, Shape
<1>3. Locks(t) \subseteq {This(t).ing}
  BY <1>2 DEF Locks, Present, Visits, Ended
<1>4. QED
  BY <1>1, <1>3

\* In any set of transactions that wait for each other one waits for a lock
\* that nobody in the set has passed.
LEMMA Highest ==
  ASSUME NEW S, S # {}, NEW f, \A t \in S : f[t] \in Ingredients,
         NEW N \in Nat, Ingredients \subseteq 0..N
  PROVE  \E t \in S : \A u \in S : f[u] <= f[t]
<1> DEFINE gap(t) == N - f[t]
           T == {gap(t) : t \in S}
<1>1. T \subseteq Nat /\ T # {}
  <2>1. ASSUME NEW t \in S
        PROVE  gap(t) \in Nat
    <3>1. f[t] \in Ingredients
      OBVIOUS
    <3>2. f[t] \in 0..N
      BY <3>1
    <3>3. QED
      BY <3>2
  <2> HIDE DEF gap
  <2>2. QED
    BY <2>1
<1>2. \E x \in T : \A y \in T : ~(<<y, x>> \in OpToRel(<, Nat))
  <2> HIDE DEF T
  <2> QED
    BY <1>1, NatLessThanWellFounded, WFMin
<1>3. PICK x \in T : \A y \in T : ~(y < x)
  BY <1>1, <1>2 DEF OpToRel
<1>4. PICK t \in S : x = gap(t)
  BY <1>3
<1>5. ASSUME NEW u \in S PROVE f[u] <= f[t]
  <2>1. gap(u) \in T
    OBVIOUS
  <2>2. ~(gap(u) < gap(t))
    BY <1>3, <1>4, <2>1
  <2>3. f[u] \in 0..N /\ f[t] \in 0..N
    OBVIOUS
  <2> QED
    BY <2>2, <2>3
<1>6. QED
  BY <1>4, <1>5

\* There is a highest ingredient.
LEMMA Bounded == \E N \in Nat : Ingredients \subseteq 0..N
<1>1. PICK n \in Nat : ExistsBijection(1..n, Ingredients)
  BY IngredientsAssumption, FS_NatBijection
<1>2. PICK f : f \in Surjection(1..n, Ingredients)
  BY <1>1 DEF ExistsBijection, Bijection
<1>3. f \in [1..n -> Nat] /\ \A i \in Ingredients : \E k \in 1..n : f[k] = i
  BY <1>2, IngredientsAssumption DEF Surjection
<1>4. CASE n = 0
  <2>1. Ingredients = {}
    BY <1>3, <1>4
  <2>2. QED
    BY <2>1
<1>5. CASE n # 0
  <2>1. n - 1 \in Nat /\ (n - 1) + 1 = n
    BY <1>5
  <2>2. PICK m \in 1..n : Latest(f, n, m)
    BY <1>3, <2>1, LatestExists
  <2>3. f[m] \in Nat /\ \A k \in 1..n : f[k] <= f[m]
    BY <1>3, <2>2 DEF Latest
  <2>4. Ingredients \subseteq 0..f[m]
    BY <1>3, <2>3
  <2>5. QED
    BY <2>3, <2>4
<1>6. QED
  BY <1>4, <1>5

LEMMA NoCircle ==
  ASSUME OneByOne, OrderedInv
  PROVE  NoDeadlock
<1> SUFFICES ASSUME NEW S \in SUBSET Txs, NEW t0 \in S, Entangled(S) PROVE FALSE
  BY DEF NoDeadlock, InCycle
<1>0. PICK N \in Nat : Ingredients \subseteq 0..N
  BY Bounded
<1>1. ASSUME NEW t \in S
      PROVE  /\ want[t] = This(t).ing /\ want[t] \in Ingredients
             /\ owner[want[t]] \in S \ {t}
  BY OneLock DEF Entangled, Waits
<1>2. PICK t \in S : \A u \in S : want[u] <= want[t]
  BY <1>0, <1>1, Highest
<1> DEFINE u == owner[want[t]]
<1>3. u \in S /\ u # t
  BY <1>1
<1>4. want[t] <= want[u]
  BY <1>1, <1>3 DEF OrderedInv, LocksBehind
<1>5. want[t] = want[u]
  <2>1. want[t] \in Nat /\ want[u] \in Nat /\ want[u] <= want[t]
    BY <1>1, <1>2, <1>3, IngredientsAssumption
  <2> QED
    BY <1>4, <2>1
<1>6. owner[want[u]] # u
  BY <1>1, <1>3
<1>7. QED
  BY <1>5, <1>6

-----------------------------------------------------------------------------
(* Every statement keeps OrderedInv                                        *)

LEMMA InitOrdered == OneByOne /\ Init => OrderedInv
<1> SUFFICES ASSUME OneByOne, Init PROVE OrderedInv
  OBVIOUS
<1>1. ASSUME NEW t \in Txs PROVE 1 \in 1..Len(Items(t))
  BY AllAscend
<1>2. Shape
  BY <1>1 DEF Init, Shape, Visits
<1>3. LocksBehind
  BY NamesAssumption DEF Init, LocksBehind
<1>4. QED
  BY <1>2, <1>3 DEF OrderedInv

LEMMA ProceedOrdered ==
  ASSUME OneByOne, OrderedInv, NEW t \in Txs,
         NEW next \in Visits \cup {"next"}, Proceed(t, next)
  PROVE  OrderedInv'
<1>1. Loop(t) = "find"
  BY DEF Loop, OneByOne
<1>2. pc' \in [Txs -> Visits \cup Ended] /\ want' \in [Txs -> Ingredients \cup {Nobody}]
      /\ owner' = owner
  BY <1>1 DEF Proceed, data, OrderedInv, Shape, Visits, Ended
<1>3. ASSUME NEW u \in Txs
      PROVE  /\ item[u] \in 1..Len(Items(u)) /\ item'[u] \in 1..Len(Items(u))
             /\ item[u] = item'[u] \/ item[u] < item'[u]
  <2>1. item \in [Txs -> Nat] /\ item[u] \in 1..Len(Items(u))
    BY DEF OrderedInv, Shape
  <2>2. Len(Items(u)) \in Nat
    BY AllAscend
  <2>3. \/ item' = item
        \/ item[t] < Len(Items(t)) /\ item' = [item EXCEPT ![t] = @ + 1]
    BY DEF Proceed
  <2>4. CASE item' = item
    BY <2>1, <2>4
  <2>5. CASE item[t] < Len(Items(t)) /\ item' = [item EXCEPT ![t] = @ + 1]
    BY <2>1, <2>2, <2>5
  <2> QED
    BY <2>3, <2>4, <2>5
<1>4. ASSUME NEW u \in Txs, NEW i \in Nat, i <= This(u).ing PROVE i <= This(u)'.ing
  <2> DEFINE now == Items(u)[item[u]].ing
             later == Items(u)[item'[u]].ing
  <2>1. This(u).ing = now /\ This(u)'.ing = later
    BY DEF This
  <2>2. now \in Nat /\ later \in Nat
    BY <1>3, AllAscend, IngredientsAssumption
  <2>3. CASE item[u] = item'[u]
    BY <1>4, <2>1, <2>3
  <2>4. CASE item[u] < item'[u]
    <3>1. now <= later
      BY <1>3, <2>4, AllAscend
    <3> QED
      BY <1>4, <2>1, <2>2, <3>1
  <2> QED
    BY <1>3, <2>3, <2>4
<1>5. LocksBehind'
  <2> SUFFICES ASSUME NEW u \in Txs, NEW i \in Ingredients, owner'[i] = u
               PROVE  i <= This(u)'.ing
    BY DEF LocksBehind
  <2>1. i <= This(u).ing
    BY <1>2 DEF OrderedInv, LocksBehind
  <2>2. i \in Nat
    BY IngredientsAssumption
  <2> QED
    BY <1>4, <2>1, <2>2
<1>6. Shape'
  <2>1. \A u \in Txs : Items(u)' = Items(u)
    OBVIOUS
  <2>2. item' \in [Txs -> Nat]
    BY DEF Proceed, OrderedInv, Shape
  <2> QED
    <3>1. \A u \in Txs : item'[u] \in 1..Len(Items(u)')
      BY <1>3, <2>1
    <3>2. owner' \in [Ingredients -> Txs \cup {Nobody}]
      BY <1>2 DEF OrderedInv, Shape
    <3> QED
      BY <1>2, <2>2, <3>1, <3>2 DEF Shape
<1>7. QED
  BY <1>5, <1>6 DEF OrderedInv

\* The end of a transaction, however it ends, only lets locks go.
LEMMA EndOrdered ==
  ASSUME OrderedInv, NEW t \in Txs, NEW how \in Ended, End(t, how)
  PROVE  OrderedInv'
<1>1. item' = item /\ \A u \in Txs : Items(u)' = Items(u) /\ This(u)' = This(u)
  BY DEF End, This
<1>2. Shape'
  BY <1>1 DEF End, OrderedInv, Shape
<1>3. LocksBehind'
  BY <1>1, NamesAssumption DEF End, OrderedInv, LocksBehind
<1>4. QED
  BY <1>2, <1>3 DEF OrderedInv

LEMMA AcquireOrdered ==
  ASSUME OneByOne, OrderedInv, NEW t \in Txs, NEW i \in Ingredients, Acquire(t, i)
  PROVE  OrderedInv'
<1>1. \A u \in Txs : Items(u)' = Items(u) /\ This(u)' = This(u)
  BY DEF Acquire, This
<1>2. i = This(t).ing /\ i \in Nat
  BY OneLock, IngredientsAssumption DEF Acquire
<1>3. Shape'
  BY <1>1 DEF Acquire, OrderedInv, Shape
<1>4. LocksBehind'
  BY <1>1, <1>2 DEF Acquire, OrderedInv, LocksBehind, Shape
<1>5. QED
  BY <1>3, <1>4 DEF OrderedInv

LEMMA InsertOrdered ==
  ASSUME OneByOne, OrderedInv, NEW t \in Txs, NEW i, NEW q, Insert(t, i, q, "next")
  PROVE  OrderedInv'
  BY ProceedOrdered, EndOrdered DEF Insert, Rollback, Write, Ended

LEMMA StatementOrdered ==
  ASSUME OneByOne, OrderedInv, NEW t \in Txs, Statement(t)
  PROVE  OrderedInv'
<1> DEFINE Others == {"scan", "take", "check", "source", "target", "into", "drop", "unlist"}
<1>0. pc[t] \notin Others
  BY DEF OrderedInv, Shape, Visits, Ended
<1>1. CASE Begin(t)
  BY <1>1, ProceedOrdered DEF Begin, OneByOne, Visits
<1>2. CASE Find(t)
  BY <1>2, ProceedOrdered, EndOrdered DEF Find, Rollback, Visits, Ended
<1>3. CASE LockRow(t)
  BY <1>3, ProceedOrdered, EndOrdered DEF LockRow, Rollback, Visits, Ended
<1>4. CASE CountRows(t)
  BY <1>4, ProceedOrdered, EndOrdered DEF CountRows, Rollback, Visits, Ended
<1>5. CASE Save(t)
  BY <1>5, ProceedOrdered, InsertOrdered DEF Save, Write
<1>6. CASE Assign(t)
  BY <1>6, ProceedOrdered DEF Assign, Write, Visits
<1>7. CASE Restore(t)
  BY <1>7, ProceedOrdered, InsertOrdered DEF Restore, Write
<1>8. CASE Commit(t)
  BY <1>8, EndOrdered DEF Commit, Ended
<1>9. CASE \E i \in Ingredients : Acquire(t, i)
  BY <1>9, AcquireOrdered
<1>10. ~(Scan(t) \/ Take(t) \/ CheckMerge(t) \/ MergeInto(t) \/ DropSource(t) \/ Unlist(t))
  BY <1>0 DEF Scan, Take, CheckMerge, MergeInto, DropSource, Unlist, At
<1>11. ~(ReadSource(t) \/ ReadTarget(t))
  BY <1>0 DEF ReadSource, ReadTarget, At
<1>12. QED
  BY <1>1, <1>2, <1>3, <1>4, <1>5, <1>6, <1>7, <1>8, <1>9, <1>10, <1>11 DEF Statement

LEMMA StepOrdered == OneByOne /\ OrderedInv /\ [Next]_vars => OrderedInv'
<1> SUFFICES ASSUME OneByOne, OrderedInv, [Next]_vars PROVE OrderedInv'
  OBVIOUS
<1>1. ASSUME NEW t \in Txs, Statement(t) PROVE OrderedInv'
  BY <1>1, StatementOrdered
<1>2. ASSUME NEW t \in Txs, Detect(t) PROVE OrderedInv'
  BY <1>2, EndOrdered DEF Detect, Rollback, Ended
<1>3. CASE UNCHANGED vars
  <2>1. \A u \in Txs : Items(u)' = Items(u) /\ This(u)' = This(u)
    BY <1>3 DEF vars, This
  <2> QED
    BY <1>3, <2>1 DEF vars, OrderedInv, Shape, LocksBehind
<1>4. QED
  BY <1>1, <1>2, <1>3 DEF Next

\* Any number of admins who add, bulk-add and set stock, in whatever order they list
\* their items, and of undos in the order of the ids, never wait for each other in a
\* circle: what bulkAdd sorts its items for.
THEOREM OrderedLocking ==
  ASSUME OneByOne
  PROVE  Spec => []NoDeadlock
<1>1. Init => OrderedInv
  BY InitOrdered
<1>2. OrderedInv /\ [Next]_vars => OrderedInv'
  BY StepOrdered
<1>3. OrderedInv => NoDeadlock
  BY NoCircle
<1>4. QED
  BY <1>1, <1>2, <1>3, PTL DEF Spec
=============================================================================

--------------------------- MODULE CountingProofs ---------------------------
(***************************************************************************)
(* The laws of the sums and listings of Counting, which the proofs about   *)
(* the limits, the metrics and the files share.                            *)
(***************************************************************************)
EXTENDS Counting, FiniteSetTheorems, TLAPS

\* A sum of naturals is a natural number.
LEMMA TotalFinite ==
  ASSUME NEW f, NEW S, IsFiniteSet(S), \A x \in S : f[x] \in Nat
  PROVE  IsFiniteSet(Slots(f, S)) /\ Total(f, S) \in Nat
<1> DEFINE slots == [x \in S |-> {x} \X (1..f[x])]
           sets == {{x} \X (1..f[x]) : x \in S}
<1>1. slots \in Surjection(S, sets)
  BY DEF Surjection
<1>2. IsFiniteSet(sets)
  <2> HIDE DEF slots, sets
  <2> QED BY <1>1, FS_Surjection
<1>3. ASSUME NEW x \in S PROVE IsFiniteSet({x} \X (1..f[x]))
  <2>1. f[x] \in Int /\ 1 \in Int
    OBVIOUS
  <2>2. IsFiniteSet(1..f[x])
    BY <2>1, FS_Interval
  <2>3. IsFiniteSet({x})
    BY FS_Singleton
  <2> HIDE DEF slots, sets
  <2> QED BY <2>2, <2>3, FS_Product
<1>4. IsFiniteSet(UNION sets)
  <2>1. \A T \in sets : IsFiniteSet(T)
    BY <1>3
  <2> HIDE DEF sets
  <2> QED BY <2>1, <1>2, FS_UNION
<1> QED BY <1>4, FS_CardinalityType DEF Slots, Total

\* The sum over no element.
LEMMA TotalNone ==
  ASSUME NEW f
  PROVE  Total(f, {}) = 0
<1>1. Slots(f, {}) = {}
  BY DEF Slots
<1> QED BY <1>1, FS_EmptySet DEF Total

\* The sum with one element more.
LEMMA TotalAdd ==
  ASSUME NEW f, NEW S, IsFiniteSet(S), \A y \in S : f[y] \in Nat,
         NEW x, x \notin S, f[x] \in Nat
  PROVE  Total(f, S \cup {x}) = Total(f, S) + f[x]
<1> DEFINE new == {x} \X (1..f[x])
<1>1. IsFiniteSet(new) /\ Cardinality(new) = f[x]
  <2>1. IsFiniteSet(1..f[x]) /\ Cardinality(1..f[x]) = f[x]
    <3>1. f[x] - 1 + 1 = f[x]
      OBVIOUS
    <3>2. 1 \in Int /\ f[x] \in Int
      OBVIOUS
    <3>3. IsFiniteSet(1..f[x]) /\ Cardinality(1..f[x]) = IF 1 > f[x] THEN 0 ELSE f[x] - 1 + 1
      BY ONLY <3>2, FS_Interval
    <3> QED BY ONLY <3>1, <3>3, f[x] \in Nat
  <2>2. IsFiniteSet({x}) /\ Cardinality({x}) = 1
    BY FS_Singleton
  <2>3. IsFiniteSet(new) /\ Cardinality(new) = Cardinality({x}) * Cardinality(1..f[x])
    BY <2>1, <2>2, FS_Product
  <2> HIDE DEF new
  <2> QED BY <2>1, <2>2, <2>3
<1>2. Slots(f, S \cup {x}) = Slots(f, S) \cup new
  BY DEF Slots
<1>3. Slots(f, S) \cap new = {}
  BY DEF Slots
<1>4. IsFiniteSet(Slots(f, S)) /\ Cardinality(Slots(f, S)) \in Nat
  BY TotalFinite DEF Total
<1>5. Cardinality(Slots(f, S) \cup new) = Cardinality(Slots(f, S)) + f[x]
  <2> HIDE DEF new
  <2>1. Cardinality(Slots(f, S) \cap new) = 0
    BY <1>3, FS_EmptySet
  <2>2. Cardinality(Slots(f, S) \cup new) =
          Cardinality(Slots(f, S)) + Cardinality(new) - Cardinality(Slots(f, S) \cap new)
    BY ONLY <1>1, <1>4, FS_Union
  <2> QED BY ONLY <1>1, <1>4, <2>1, <2>2, f[x] \in Nat
<1>6. Cardinality(Slots(f, S \cup {x})) = Cardinality(Slots(f, S) \cup new)
  BY ONLY <1>2, Zenon
<1> QED BY <1>4, <1>5, <1>6 DEF Total

\* The sum without one of its elements.
LEMMA TotalRemove ==
  ASSUME NEW f, NEW S, IsFiniteSet(S), \A y \in S : f[y] \in Nat, NEW x \in S
  PROVE  Total(f, S) = Total(f, S \ {x}) + f[x]
<1>1. IsFiniteSet(S \ {x})
  BY FS_RemoveElement
<1>2. (S \ {x}) \cup {x} = S
  OBVIOUS
<1> QED BY <1>1, <1>2, TotalAdd

\* The sum depends on the values only.
LEMMA TotalSame ==
  ASSUME NEW f, NEW g, NEW S, \A x \in S : f[x] = g[x]
  PROVE  Total(f, S) = Total(g, S)
<1>1. Slots(f, S) = Slots(g, S)
  BY DEF Slots
<1> QED BY <1>1 DEF Total

\* Larger values over a larger set make a larger sum.
LEMMA TotalMonotone ==
  ASSUME NEW f, NEW g, NEW S, NEW T, S \subseteq T, IsFiniteSet(T),
         \A x \in T : g[x] \in Nat, \A x \in S : f[x] \in Nat /\ f[x] <= g[x]
  PROVE  Total(f, S) <= Total(g, T)
<1>1. \A x \in S : 1..f[x] \subseteq 1..g[x]
  OBVIOUS
<1>2. Slots(f, S) \subseteq Slots(g, T)
  BY <1>1 DEF Slots
<1> QED BY <1>2, TotalFinite, FS_Subset DEF Total

\* The sum over one element.
LEMMA TotalOne ==
  ASSUME NEW f, NEW x, f[x] \in Nat
  PROVE  Total(f, {x}) = f[x]
<1>1. Total(f, {} \cup {x}) = Total(f, {}) + f[x]
  BY FS_EmptySet, TotalAdd
<1>2. {} \cup {x} = {x}
  OBVIOUS
<1> QED BY <1>1, <1>2, TotalNone

\* The sum does not depend on what the elements are.
LEMMA TotalImage ==
  ASSUME NEW f, NEW g, NEW S, NEW T, IsFiniteSet(S), NEW h \in Bijection(S, T),
         \A x \in S : f[x] \in Nat /\ f[x] = g[h[x]]
  PROVE  Total(f, S) = Total(g, T)
<1> DEFINE P == Slots(f, S)
           Q == Slots(g, T)
           b == [z \in P |-> <<h[z[1]], z[2]>>]
<1>1. /\ h \in [S -> T] /\ \A x, y \in S : h[x] = h[y] => x = y
      /\ \A y \in T : \E x \in S : h[x] = y
  BY DEF Bijection, Injection, IsInjective, Surjection
<1>2. ASSUME NEW z \in P
      PROVE  z = <<z[1], z[2]>> /\ z[1] \in S /\ z[2] \in 1..f[z[1]]
  BY DEF Slots
<1>3. ASSUME NEW z \in Q
      PROVE  z = <<z[1], z[2]>> /\ z[1] \in T /\ z[2] \in 1..g[z[1]]
  BY DEF Slots
<1>4. \A x \in S : \A i \in 1..f[x] : <<x, i>> \in P
  BY DEF Slots
<1>5. \A y \in T : \A i \in 1..g[y] : <<y, i>> \in Q
  BY DEF Slots
<1> HIDE DEF P, Q
<1>6. b \in [P -> Q]
  BY <1>1, <1>2, <1>5
<1>7. ASSUME NEW y \in P, NEW z \in P, b[y] = b[z] PROVE y = z
  <2>1. <<h[y[1]], y[2]>> = <<h[z[1]], z[2]>>
    BY <1>7
  <2>2. h[y[1]] = h[z[1]] /\ y[2] = z[2]
    BY <2>1
  <2> QED BY <1>1, <1>2, <2>2
<1>8. ASSUME NEW z \in Q PROVE \E y \in P : b[y] = z
  <2>1. PICK x \in S : h[x] = z[1]
    BY <1>1, <1>3
  <2>2. <<x, z[2]>> \in P
    BY <1>3, <1>4, <2>1
  <2>3. b[<<x, z[2]>>] = <<h[x], z[2]>>
    BY <2>2
  <2> QED BY <1>3, <2>1, <2>2, <2>3
<1> HIDE DEF b
<1>9. b \in Bijection(P, Q)
  BY <1>6, <1>7, <1>8 DEF Bijection, Injection, IsInjective, Surjection
<1>10. IsFiniteSet(P)
  BY TotalFinite DEF P
<1>11. Cardinality(P) = Cardinality(Q)
  BY <1>9, <1>10, FS_Bijection DEF ExistsBijection
<1> QED BY <1>11 DEF Total, P, Q

\* The sum when one value changes.
LEMMA TotalUpdate ==
  ASSUME NEW f, NEW g, NEW S, IsFiniteSet(S),
         \A y \in S : f[y] \in Nat /\ g[y] \in Nat,
         NEW x \in S, \A y \in S \ {x} : f[y] = g[y]
  PROVE  Total(g, S) = Total(f, S) - f[x] + g[x]
<1>1. Total(f, S) = Total(f, S \ {x}) + f[x]
  BY TotalRemove
<1>2. Total(g, S) = Total(g, S \ {x}) + g[x]
  BY TotalRemove
<1>3. Total(f, S \ {x}) = Total(g, S \ {x})
  BY TotalSame
<1>4. Total(f, S \ {x}) \in Nat
  BY FS_RemoveElement, TotalFinite
<1> QED BY <1>1, <1>2, <1>3, <1>4

\* A sum of values of at most B.
LEMMA TotalBound ==
  ASSUME NEW f, NEW S, IsFiniteSet(S), NEW B \in Nat,
         \A x \in S : f[x] \in Nat /\ f[x] <= B
  PROVE  Total(f, S) <= Cardinality(S) * B
<1>1. IsFiniteSet(1..B) /\ Cardinality(1..B) = B
  BY FS_Interval
<1>2. IsFiniteSet(S \X (1..B)) /\ Cardinality(S \X (1..B)) = Cardinality(S) * B
  BY <1>1, FS_Product
<1>3. \A x \in S : 1..f[x] \subseteq 1..B
  OBVIOUS
<1>4. Slots(f, S) \subseteq S \X (1..B)
  BY <1>3 DEF Slots
<1> QED BY <1>2, <1>4, FS_Subset DEF Total

-----------------------------------------------------------------------------
\* R orders S: of any two elements exactly one is before the other.
IsOrder(R, S) ==
  /\ \A x \in S : <<x, x>> \in R
  /\ \A x, y \in S : <<x, y>> \in R \/ <<y, x>> \in R
  /\ \A x, y \in S : <<x, y>> \in R /\ <<y, x>> \in R => x = y
  /\ \A x, y, z \in S : <<x, y>> \in R /\ <<y, z>> \in R => <<x, z>> \in R

\* The rank of an element determines it, and every rank is taken.
LEMMA RankIsBijective ==
  ASSUME NEW S, IsFiniteSet(S), NEW R, IsOrder(R, S),
         NEW rank, rank = [x \in S |-> Cardinality(Until(S, R, x))]
  PROVE  rank \in Bijection(S, 1..Cardinality(S))
<1> DEFINE upTo(x) == Until(S, R, x)
           n == Cardinality(S)
<1>0. n \in Nat
  BY FS_CardinalityType
<1>1. ASSUME NEW x \in S
      PROVE  IsFiniteSet(upTo(x)) /\ Cardinality(upTo(x)) \in 1..n
  <2>1. upTo(x) \in SUBSET S
    BY DEF Until
  <2>2. IsFiniteSet(upTo(x)) /\ Cardinality(upTo(x)) <= n
    BY <2>1, FS_Subset
  <2>3. upTo(x) # {}
    BY DEF IsOrder, Until
  <2>4. Cardinality(upTo(x)) # 0 /\ Cardinality(upTo(x)) \in Nat
    BY <2>2, <2>3, FS_EmptySet, FS_CardinalityType
  <2> QED BY <1>0, <2>2, <2>4
<1>2. ASSUME NEW x \in S, NEW y \in S, <<x, y>> \in R,
             Cardinality(upTo(x)) = Cardinality(upTo(y))
      PROVE  x = y
  <2>1. upTo(x) \in SUBSET upTo(y)
    BY <1>2 DEF IsOrder, Until
  <2>2. upTo(y) = upTo(x)
    BY <1>1, <1>2, <2>1, FS_Subset
  <2>3. y \in upTo(x)
    BY <2>2 DEF IsOrder, Until
  <2> QED BY <1>2, <2>3 DEF IsOrder, Until
<1>3. rank \in Injection(S, 1..n)
  <2>1. \A x \in S : rank[x] = Cardinality(upTo(x))
    OBVIOUS
  <2>2. rank \in [S -> 1..n]
    <3>1. \A x \in S : rank[x] \in 1..n
      BY <2>1, <1>1
    <3>2. rank = [x \in S |-> rank[x]]
      OBVIOUS
    <3> QED BY <3>1, <3>2
  <2>3. ASSUME NEW x \in S, NEW y \in S, rank[x] = rank[y] PROVE x = y
    <3>1. Cardinality(upTo(x)) = Cardinality(upTo(y))
      BY <2>1, <2>3
    <3>2. <<x, y>> \in R \/ <<y, x>> \in R
      BY DEF IsOrder
    <3> QED BY <3>1, <3>2, <1>2
  <2> QED BY <2>2, <2>3 DEF Injection, IsInjective
<1>4. IsFiniteSet(1..n) /\ Cardinality(1..n) = n
  BY <1>0, FS_Interval
<1>5. rank \in Surjection(S, 1..n)
  BY <1>3, <1>4, FS_Injection
<1> QED BY <1>3, <1>5 DEF Bijection

\* What is listed in order is listed once, and completely; k elements come up
\* to the k-th.
LEMMA InOrderListing ==
  ASSUME NEW S, IsFiniteSet(S), NEW R, IsOrder(R, S)
  PROVE  /\ Cardinality(S) \in Nat
         /\ InOrder(S, R) \in [1..Cardinality(S) -> S]
         /\ \A k \in 1..Cardinality(S) :
              Cardinality(Until(S, R, InOrder(S, R)[k])) = k
         /\ \A j, k \in 1..Cardinality(S) :
              InOrder(S, R)[j] = InOrder(S, R)[k] => j = k
         /\ \A x \in S : \E k \in 1..Cardinality(S) : InOrder(S, R)[k] = x
<1> DEFINE n == Cardinality(S)
           list == InOrder(S, R)
           size(x) == Cardinality(Until(S, R, x))
           rank == [x \in S |-> size(x)]
<1>1. rank \in Bijection(S, 1..n)
  BY RankIsBijective
<1>2. n \in Nat
  BY FS_CardinalityType
<1> DEFINE ranked == {<<size(x), x>> : x \in S}
           nth(k) == CHOOSE x \in S : <<k, x>> \in ranked
<1>a. list = [k \in 1..n |-> nth(k)]
  BY DEF InOrder
<1>3. ASSUME NEW k \in 1..n PROVE list[k] \in S /\ size(list[k]) = k
  <2>1. PICK x \in S : rank[x] = k
    BY <1>1 DEF Bijection, Surjection
  <2>2. list[k] = nth(k)
    <3> HIDE DEF nth
    <3> QED BY <1>a
  <2>3. \A y \in S : <<k, y>> \in ranked <=> size(y) = k
    <3> HIDE DEF size
    <3> QED OBVIOUS
  <2>4. size(x) = k
    BY <2>1
  <2>5. nth(k) \in S /\ <<k, nth(k)>> \in ranked
    <3> HIDE DEF ranked, size
    <3> QED BY <2>3, <2>4
  <2> HIDE DEF list, size, ranked, nth
  <2> QED BY <2>2, <2>3, <2>5
<1>4. ASSUME NEW x \in S PROVE \E k \in 1..n : list[k] = x
  <2>1. rank[x] \in 1..n
    BY <1>1 DEF Bijection, Injection
  <2>2. rank[list[rank[x]]] = rank[x] /\ list[rank[x]] \in S
    BY <2>1, <1>3
  <2>3. list[rank[x]] = x
    <3> HIDE DEF rank, list
    <3> QED BY <2>2, <1>1 DEF Bijection, Injection, IsInjective
  <2> QED BY <2>1, <2>3
<1>5. list \in [1..n -> S]
  <2>1. \A k \in 1..n : list[k] = nth(k)
    <3> HIDE DEF nth
    <3> QED BY <1>a
  <2> HIDE DEF list, nth, n
  <2> QED BY <1>a, <2>1, <1>3
<1>6. ASSUME NEW j \in 1..n, NEW k \in 1..n, list[j] = list[k] PROVE j = k
  BY <1>3, <1>6
<1> HIDE DEF list, n
<1> QED BY <1>2, <1>3, <1>4, <1>5, <1>6 DEF list, n
=============================================================================

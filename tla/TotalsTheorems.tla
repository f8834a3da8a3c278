--------------------------- MODULE TotalsTheorems ---------------------------
(* What the proofs need to know of the operators that the models share.      *)
(* Total is a natural number, it is monotone, and changing f at one argument *)
(* changes it by the difference.  InOrder enumerates its set in increasing   *)
(* order, so that ElementsAt is a sequence of exactly the chosen elements.   *)
EXTENDS Totals, Selections, FiniteSetTheorems, TLAPS

(* A unit of f is a pair of an argument and a number up to its value. *)
LEMMA UnitsMembership ==
    ASSUME NEW S, NEW f \in [S -> Nat]
    PROVE  \A u : u \in Units(f) <=> \E x \in S : \E i \in 1..f[x] : u = <<x, i>>
  <1> SUFFICES ASSUME NEW u
               PROVE  u \in Units(f) <=> \E x \in S : \E i \in 1..f[x] : u = <<x, i>>
    OBVIOUS
  <1>1. ASSUME u \in Units(f)
        PROVE  \E x \in S : \E i \in 1..f[x] : u = <<x, i>>
    <2>1. PICK x \in S : u \in {x} \X (1..f[x])
      BY <1>1 DEF Units
    <2>2. PICK a \in {x}, i \in 1..f[x] : u = <<a, i>>
      BY <2>1
    <2> QED BY <2>2
  <1>2. ASSUME NEW x \in S, NEW i \in 1..f[x], u = <<x, i>>
        PROVE  u \in Units(f)
    <2>1. u \in {x} \X (1..f[x])
      BY <1>2
    <2>2. x \in DOMAIN f
      OBVIOUS
    <2> QED BY <2>1, <2>2 DEF Units
  <1> QED BY <1>1, <1>2

(* The byte totals of finitely many objects are finite. *)
LEMMA UnitsFinite ==
    ASSUME NEW S, IsFiniteSet(S), NEW f \in [S -> Nat]
    PROVE  IsFiniteSet(Units(f))
  <1> DEFINE T == {{x} \X (1..f[x]) : x \in S}
  <1> DEFINE g == [x \in S |-> {x} \X (1..f[x])]
  <1>1. g \in Surjection(S, T)
    BY DEF Surjection
  <1>2. IsFiniteSet(T)
    <2> HIDE DEF T, g
    <2> QED BY <1>1, FS_Surjection
  <1>3. ASSUME NEW U \in T PROVE IsFiniteSet(U)
    <2>1. PICK x \in S : U = {x} \X (1..f[x])
      OBVIOUS
    <2>2. IsFiniteSet({x})
      BY FS_Singleton
    <2>3. IsFiniteSet(1..f[x])
      <3>1. f[x] \in Int
        OBVIOUS
      <3> QED BY <3>1, FS_Interval
    <2> QED BY <2>1, <2>2, <2>3, FS_Product
  <1>4. Units(f) = UNION T
    BY DEF Units
  <1> HIDE DEF T
  <1> QED BY <1>2, <1>3, <1>4, FS_UNION

(* The total of finitely many sizes is a natural number. *)
LEMMA TotalNat ==
    ASSUME NEW S, IsFiniteSet(S), NEW f \in [S -> Nat]
    PROVE  Total(f) \in Nat
  BY UnitsFinite, FS_CardinalityType DEF Total

(* Nothing adds up to nothing. *)
LEMMA TotalZero ==
    ASSUME NEW S, NEW f \in [S -> Nat], \A x \in S : f[x] = 0
    PROVE  Total(f) = 0
  <1>1. Units(f) = {}
    BY UnitsMembership
  <1> QED BY <1>1, FS_EmptySet DEF Total

(* Larger sizes have the larger total. *)
LEMMA TotalMonotone ==
    ASSUME NEW S, IsFiniteSet(S), NEW f \in [S -> Nat], NEW g \in [S -> Nat],
           \A x \in S : f[x] <= g[x]
    PROVE  Total(f) <= Total(g)
  <1>1. \A x \in S : \A i \in 1..f[x] : i \in 1..g[x]
    OBVIOUS
  <1>2. Units(f) \in SUBSET Units(g)
    <2> SUFFICES ASSUME NEW u \in Units(f) PROVE u \in Units(g)
      OBVIOUS
    <2>1. PICK x \in S : \E i \in 1..f[x] : u = <<x, i>>
      BY UnitsMembership
    <2> QED BY <1>1, <2>1, UnitsMembership
  <1>3. IsFiniteSet(Units(g))
    BY UnitsFinite
  <1> QED BY <1>2, <1>3, FS_Subset DEF Total

(* The total without the units of x. *)
LEMMA TotalSplit ==
    ASSUME NEW S, IsFiniteSet(S), NEW f \in [S -> Nat], NEW x \in S
    PROVE  /\ Total([f EXCEPT ![x] = 0]) \in Nat
           /\ Total(f) = Total([f EXCEPT ![x] = 0]) + f[x]
  <1> DEFINE r == [f EXCEPT ![x] = 0]
  <1> DEFINE own == {x} \X (1..f[x])
  <1>1. r \in [S -> Nat] /\ r[x] = 0 /\ \A y \in S \ {x} : r[y] = f[y]
    OBVIOUS
  <1> HIDE DEF r
  <1>2. \A u : u \in own <=> \E i \in 1..f[x] : u = <<x, i>>
    OBVIOUS
  <1>3. IsFiniteSet(own) /\ Cardinality(own) = f[x]
    <2>1. f[x] \in Nat
      OBVIOUS
    <2>2. IsFiniteSet(1..f[x]) /\ Cardinality(1..f[x]) = f[x]
      BY <2>1, FS_Interval
    <2>3. IsFiniteSet({x}) /\ Cardinality({x}) = 1
      BY FS_Singleton
    <2>4. IsFiniteSet(own) /\ Cardinality(own) = Cardinality({x}) * Cardinality(1..f[x])
      BY <2>2, <2>3, FS_Product
    <2> QED BY <2>1, <2>2, <2>3, <2>4
  <1> HIDE DEF own
  <1>4. Units(f) = Units(r) \cup own
    <2>1. ASSUME NEW u \in Units(f) PROVE u \in Units(r) \cup own
      <3>1. PICK y \in S : \E i \in 1..f[y] : u = <<y, i>>
        BY UnitsMembership
      <3>2. CASE y = x
        BY <3>1, <3>2, <1>2
      <3>3. CASE y # x
        BY <3>1, <3>3, <1>1, UnitsMembership
      <3> QED BY <3>2, <3>3
    <2>2. ASSUME NEW u \in Units(r) PROVE u \in Units(f)
      <3>1. PICK y \in S : \E i \in 1..r[y] : u = <<y, i>>
        BY <1>1, UnitsMembership
      <3>2. y # x
        BY <1>1, <3>1
      <3> QED BY <3>1, <3>2, <1>1, UnitsMembership
    <2>3. ASSUME NEW u \in own PROVE u \in Units(f)
      BY <1>2, UnitsMembership
    <2> QED BY <2>1, <2>2, <2>3
  <1>5. Units(r) \cap own = {}
    <2> SUFFICES ASSUME NEW u \in Units(r), u \in own PROVE FALSE
      OBVIOUS
    <2>1. PICK y \in S : \E i \in 1..r[y] : u = <<y, i>>
      BY <1>1, UnitsMembership
    <2>2. y = x
      BY <1>2, <2>1
    <2> QED BY <1>1, <2>1, <2>2
  <1>6. IsFiniteSet(Units(r))
    BY <1>1, UnitsFinite
  <1>7. Cardinality(Units(r)) \in Nat
    BY <1>6, FS_CardinalityType
  <1>8. Cardinality(Units(r) \cup own)
          = Cardinality(Units(r)) + Cardinality(own) - Cardinality(Units(r) \cap own)
    BY <1>3, <1>6, FS_Union
  <1>9. Total(f) = Total(r) + f[x] /\ Total(r) \in Nat
    <2>1. Cardinality(Units(r) \cap own) = 0
      BY <1>5, FS_EmptySet
    <2>2. f[x] \in Nat
      OBVIOUS
    <2>3. Cardinality(Units(f)) = Cardinality(Units(r)) + f[x]
      BY <1>3, <1>4, <1>7, <1>8, <2>1, <2>2
    <2> QED BY <1>7, <2>3 DEF Total
  <1> QED BY <1>9 DEF r

(* One object or one reservation changes: the total changes by as much. *)
LEMMA TotalExcept ==
    ASSUME NEW S, IsFiniteSet(S), NEW f \in [S -> Nat], NEW x \in S, NEW n \in Nat
    PROVE  Total([f EXCEPT ![x] = n]) = Total(f) - f[x] + n
  <1> DEFINE g == [f EXCEPT ![x] = n]
  <1>1. g \in [S -> Nat] /\ g[x] = n
    OBVIOUS
  <1>2. [g EXCEPT ![x] = 0] = [f EXCEPT ![x] = 0]
    OBVIOUS
  <1> HIDE DEF g
  <1>3. Total(g) = Total([g EXCEPT ![x] = 0]) + g[x]
    BY <1>1, TotalSplit
  <1>4. Total(f) = Total([f EXCEPT ![x] = 0]) + f[x]
        /\ Total([f EXCEPT ![x] = 0]) \in Nat
    BY TotalSplit
  <1>5. f[x] \in Nat
    OBVIOUS
  <1>6. Total(g) = Total(f) - f[x] + n
    BY <1>1, <1>2, <1>3, <1>4, <1>5
  <1> QED BY <1>6 DEF g

-----------------------------------------------------------------------------
(* The rank of a number in a finite set numbers the set from 1. *)
LEMMA RankNumbers ==
    ASSUME NEW I \in SUBSET Int, IsFiniteSet(I)
    PROVE  /\ Cardinality(I) \in Nat
           /\ \A i \in I : Cardinality({j \in I : j <= i}) \in 1 .. Cardinality(I)
           /\ \A a, b \in I : a < b => Cardinality({j \in I : j <= a}) < Cardinality({j \in I : j <= b})
           /\ \A k \in 1 .. Cardinality(I) : \E i \in I : Cardinality({j \in I : j <= i}) = k
  <1> DEFINE n == Cardinality(I)
             upTo(i) == {j \in I : j <= i}
             rank == [i \in I |-> Cardinality(upTo(i))]
  <1>1. n \in Nat
    BY FS_CardinalityType
  <1>2. ASSUME NEW i \in I
        PROVE  IsFiniteSet(upTo(i)) /\ Cardinality(upTo(i)) \in 1 .. n
    <2>1. upTo(i) \subseteq I /\ i \in upTo(i)
      OBVIOUS
    <2>2. IsFiniteSet(upTo(i)) /\ Cardinality(upTo(i)) <= n
      BY <2>1, FS_Subset
    <2>3. Cardinality(upTo(i)) \in Nat /\ Cardinality(upTo(i)) # 0
      BY <2>1, <2>2, FS_CardinalityType, FS_EmptySet
    <2> QED BY <1>1, <2>2, <2>3
  <1>3. ASSUME NEW a \in I, NEW b \in I, a < b
        PROVE  Cardinality(upTo(a)) < Cardinality(upTo(b))
    <2>1. upTo(a) \subseteq upTo(b) /\ upTo(a) # upTo(b)
      <3>1. a \in Int /\ b \in Int
        OBVIOUS
      <3>2. b \in upTo(b) /\ b \notin upTo(a)
        BY <1>3, <3>1
      <3>3. ASSUME NEW j \in I, j <= a PROVE j <= b
        <4>1. j \in Int
          OBVIOUS
        <4> QED BY <1>3, <3>1, <3>3, <4>1
      <3>4. upTo(a) \subseteq upTo(b)
        BY <3>3
      <3> HIDE DEF upTo
      <3> QED BY <3>2, <3>4
    <2>2. IsFiniteSet(upTo(a)) /\ IsFiniteSet(upTo(b))
      BY <1>2
    <2>3. Cardinality(upTo(a)) <= Cardinality(upTo(b)) /\ Cardinality(upTo(a)) # Cardinality(upTo(b))
      <3> HIDE DEF upTo
      <3> QED BY <2>1, <2>2, FS_Subset
    <2>4. Cardinality(upTo(a)) \in 1 .. n /\ Cardinality(upTo(b)) \in 1 .. n
      BY <1>2
    <2> HIDE DEF upTo, n
    <2> QED BY <1>1, <2>3, <2>4
  <1>4. rank \in Injection(I, 1 .. n)
    <2> HIDE DEF upTo, n
    <2>1. rank \in [I -> 1 .. n]
      BY <1>2
    <2>2. ASSUME NEW a \in I, NEW b \in I, rank[a] = rank[b]
          PROVE  a = b
      <3>1. a \in Int /\ b \in Int
        OBVIOUS
      <3>2. rank[a] \in 1 .. n /\ rank[b] \in 1 .. n
        BY <2>1
      <3>3. a < b => rank[a] < rank[b]
        BY <1>3
      <3>4. b < a => rank[b] < rank[a]
        BY <1>3
      <3> HIDE DEF rank
      <3> QED BY <1>1, <2>2, <3>1, <3>2, <3>3, <3>4
    <2> HIDE DEF rank
    <2> QED BY <2>1, <2>2 DEF Injection, IsInjective
  <1>5. IsFiniteSet(1 .. n) /\ Cardinality(1 .. n) = n
    <2> HIDE DEF n
    <2>1. 1 \in Int /\ n \in Int
      BY <1>1
    <2> QED BY <1>1, <2>1, FS_Interval
  <1>6. rank \in Surjection(I, 1 .. n)
    <2> HIDE DEF rank
    <2> QED BY <1>4, <1>5, FS_Injection
  <1>7. ASSUME NEW k \in 1 .. n PROVE \E i \in I : Cardinality(upTo(i)) = k
    <2>1. \E i \in I : rank[i] = k
      <3> HIDE DEF rank
      <3> QED BY <1>6 DEF Surjection
    <2> QED BY <2>1
  <1> QED BY <1>1, <1>2, <1>3, <1>7

(* InOrder enumerates its set, in increasing order. *)
LEMMA InOrderEnumerates ==
    ASSUME NEW I \in SUBSET Int, IsFiniteSet(I)
    PROVE  /\ Cardinality(I) \in Nat
           /\ InOrder(I) \in [1 .. Cardinality(I) -> I]
           /\ \A i \in I : \E k \in 1 .. Cardinality(I) : InOrder(I)[k] = i
           /\ \A k, m \in 1 .. Cardinality(I) : k < m => InOrder(I)[k] < InOrder(I)[m]
  <1> DEFINE n == Cardinality(I)
             rank(i) == Cardinality({j \in I : j <= i})
  <1>1. /\ n \in Nat /\ \A i \in I : rank(i) \in 1 .. n
        /\ \A a, b \in I : a < b => rank(a) < rank(b)
        /\ \A k \in 1 .. n : \E i \in I : rank(i) = k
    BY RankNumbers
  <1>2. InOrder(I) = [k \in 1 .. n |-> CHOOSE i \in I : rank(i) = k]
    BY DEF InOrder
  <1> HIDE DEF n, rank
  <1>3. ASSUME NEW k \in 1 .. n
        PROVE  InOrder(I)[k] \in I /\ rank(InOrder(I)[k]) = k
    BY <1>1, <1>2
  <1>4. \A a, b \in I : rank(a) = rank(b) => a = b
    BY <1>1
  <1>5. InOrder(I) \in [1 .. n -> I]
    <2>1. InOrder(I) = [k \in 1 .. n |-> InOrder(I)[k]]
      BY <1>2
    <2> QED BY <1>3, <2>1
  <1>6. ASSUME NEW i \in I PROVE \E k \in 1 .. n : InOrder(I)[k] = i
    BY <1>1, <1>3, <1>4
  <1>7. ASSUME NEW k \in 1 .. n, NEW m \in 1 .. n, k < m PROVE InOrder(I)[k] < InOrder(I)[m]
    <2> DEFINE a == InOrder(I)[k]
               b == InOrder(I)[m]
    <2>1. a \in I /\ b \in I /\ rank(a) = k /\ rank(b) = m
      BY <1>3
    <2> HIDE DEF a, b
    <2>2. a \in Int /\ b \in Int
      BY <2>1
    <2>3. ~(b < a) /\ a # b
      BY <1>1, <1>7, <2>1
    <2>4. a < b
      BY <2>2, <2>3
    <2> QED BY <2>4 DEF a, b
  <1> QED BY <1>1, <1>5, <1>6, <1>7 DEF n

(* What ElementsAt returns. *)
LEMMA ElementsAtSeq ==
    ASSUME NEW S, NEW s \in Seq(S), NEW I \in SUBSET (DOMAIN s)
    PROVE  /\ ElementsAt(s, I) \in Seq(S)
           /\ Cardinality(I) \in Nat /\ Len(ElementsAt(s, I)) = Cardinality(I)
           /\ \A k \in DOMAIN ElementsAt(s, I) : \E i \in I : ElementsAt(s, I)[k] = s[i]
           /\ \A i \in I : \E k \in DOMAIN ElementsAt(s, I) : ElementsAt(s, I)[k] = s[i]
           /\ ElementsAt(s, I) = <<>> <=> I = {}
  <1>1. I \in SUBSET Int /\ IsFiniteSet(I)
    <2>1. DOMAIN s = 1 .. Len(s) /\ Len(s) \in Nat
      OBVIOUS
    <2>2. IsFiniteSet(1 .. Len(s))
      BY <2>1, FS_Interval
    <2> QED BY <2>1, <2>2, FS_Subset
  <1>2. /\ Cardinality(I) \in Nat
        /\ InOrder(I) \in [1 .. Cardinality(I) -> I]
        /\ \A i \in I : \E k \in 1 .. Cardinality(I) : InOrder(I)[k] = i
    BY <1>1, InOrderEnumerates
  <1> DEFINE t == ElementsAt(s, I)
             n == Cardinality(I)
  <1>3. t = [k \in 1 .. n |-> s[InOrder(I)[k]]]
    BY DEF ElementsAt
  <1>4. \A k \in 1 .. n : s[InOrder(I)[k]] \in S
    BY <1>2
  <1>5. t \in Seq(S) /\ Len(t) = n /\ DOMAIN t = 1 .. n
    <2> HIDE DEF t, n
    <2> QED BY <1>2, <1>3, <1>4 DEF n
  <1>6. n = 0 <=> I = {}
    BY <1>1, FS_EmptySet
  <1>7. t = <<>> <=> n = 0
    <2> HIDE DEF t, n
    <2> QED BY <1>5
  <1>8. \A k \in DOMAIN t : \E i \in I : t[k] = s[i]
    BY <1>2, <1>3, <1>5
  <1>9. \A i \in I : \E k \in DOMAIN t : t[k] = s[i]
    <2>1. ASSUME NEW i \in I PROVE \E k \in 1 .. n : InOrder(I)[k] = i
      BY <1>2
    <2>2. \A k \in 1 .. n : t[k] = s[InOrder(I)[k]]
      BY <1>3
    <2> HIDE DEF t, n
    <2> QED BY <1>5, <2>1, <2>2
  <1> QED BY <1>2, <1>5, <1>6, <1>7, <1>8, <1>9

=============================================================================

--------------------------- MODULE OlConvertProofs ---------------------------
(***************************************************************************)
(* Proofs about OlConvert, for every set of transducers, every alphabet    *)
(* and every packing threshold.  First facts about numbers, finite sets,   *)
(* recursive functions and the operators of OlTables; then numbering and   *)
(* packing; then what is read in the tables that were written: following   *)
(* them from the address of a state gives that state's transitions and its *)
(* finality.  Induction is by least counterexample: a set of numbers that  *)
(* is not empty has a least element.                                       *)
(***************************************************************************)
EXTENDS OlConvert, FiniteSetTheorems, SequenceTheorems, TLAPS

-----------------------------------------------------------------------------
(* Numbers. *)

(* A set of numbers that is not empty has a least element, and a greatest  *)
(* one when it is bounded.                                                 *)
LEMMA LeastNumber ==
    ASSUME NEW T, T \subseteq Nat, T # {}
    PROVE  \E x \in T : \A y \in T : x <= y
  <1> DEFINE R == {ss \in Nat \X Nat : ss[1] < ss[2]}
  <1>1. IsWellFoundedOn(R, Nat)
    BY NatLessThanWellFounded DEF OpToRel
  <1> HIDE DEF R
  <1>2. \E x \in T : \A y \in T : ~ (<< y, x >> \in R)
    BY <1>1, WFMin
  <1>3. \A x, y \in Nat : y < x => << y, x >> \in R
    BY DEF R
  <1>4. PICK x \in T : \A y \in T : ~ (<< y, x >> \in R)
    BY <1>2
  <1>5. x \in Nat /\ \A y \in T : y \in Nat /\ ~ (y < x)
    BY <1>3, <1>4
  <1>6. \A y \in T : x <= y
    BY <1>5
  <1> QED
    BY <1>6

LEMMA GreatestNumber ==
    ASSUME NEW T, T \subseteq Nat, T # {}, NEW b \in Nat, \A t \in T : t <= b
    PROVE  \E x \in T : \A y \in T : x >= y
  <1> DEFINE U == {b - t : t \in T}
  <1>1. U \subseteq Nat /\ U # {}
    <2>1. \A t \in T : b - t \in Nat
      OBVIOUS
    <2> QED
      BY <2>1
  <1>2. PICK u \in U : \A v \in U : u <= v
    BY <1>1, LeastNumber
  <1>3. PICK x \in T : u = b - x
    OBVIOUS
  <1>4. \A y \in T : b - x <= b - y
    BY <1>2, <1>3
  <1> QED
    BY <1>4

(* Finitely many numbers have a bound: otherwise one of them could be       *)
(* removed from a least set that has none.                                  *)
LEMMA FiniteNumbersBounded ==
    ASSUME NEW S, IsFiniteSet(S), S \subseteq Nat
    PROVE  \E b \in Nat : \A p \in S : p <= b
  <1> DEFINE Bounded(T) == \E b \in Nat : \A p \in T : p <= b
             sizes == {n \in Nat : \E T \in SUBSET S : Cardinality(T) = n /\ ~Bounded(T)}
  <1>1. SUFFICES ASSUME ~Bounded(S)
                 PROVE  FALSE
    OBVIOUS
  <1>2. Cardinality(S) \in sizes
    BY <1>1, FS_CardinalityType
  <1>3. PICK n \in sizes : \A k \in sizes : n <= k
    BY <1>2, LeastNumber
  <1>4. PICK T \in SUBSET S : Cardinality(T) = n /\ ~Bounded(T)
    OBVIOUS
  <1>5. IsFiniteSet(T) /\ n \in Nat
    BY FS_Subset
  <1>6. PICK x \in T : TRUE
    BY <1>4
  <1>7. IsFiniteSet(T \ {x}) /\ Cardinality(T \ {x}) = n - 1 /\ n - 1 \in Nat
    <2>1. Cardinality(T \ {x}) = n - 1 /\ IsFiniteSet(T \ {x})
      BY <1>4, <1>5, <1>6, FS_RemoveElement
    <2> QED
      BY <2>1, FS_CardinalityType
  <1>8. Bounded(T \ {x})
    <2>1. n - 1 \notin sizes
      BY <1>3, <1>5
    <2>2. T \ {x} \in SUBSET S
      OBVIOUS
    <2> QED
      BY <1>7, <2>1, <2>2
  <1>9. PICK b \in Nat : \A p \in T \ {x} : p <= b
    BY <1>8
  <1>10. x \in Nat
    OBVIOUS
  <1>11. CASE x <= b
    BY <1>4, <1>9, <1>11
  <1>12. CASE ~(x <= b)
    <2>1. \A p \in T : p \in Nat
      OBVIOUS
    <2>2. \A p \in T : p <= x
      BY <1>9, <1>10, <1>12, <2>1
    <2> QED
      BY <1>4, <1>10, <2>2
  <1> QED
    BY <1>11, <1>12

-----------------------------------------------------------------------------
(* Finite sets in order. *)

\* R orders S strictly and totally.
StrictOrder(S, R) ==
    /\ \A x \in S : << x, x >> \notin R
    /\ \A x, y, z \in S : << x, y >> \in R /\ << y, z >> \in R => << x, z >> \in R
    /\ \A x, y \in S : x = y \/ << x, y >> \in R \/ << y, x >> \in R

\* f lists elements of S in the order R.
Lists(f, n, S, R) ==
    /\ f \in [1 .. n -> S]
    /\ \A i, j \in 1 .. n : i < j => << f[i], f[j] >> \in R

Before(S, R, x) == {y \in S : << y, x >> \in R}

(* An element that comes later has more elements before it. *)
LEMMA BeforeGrows ==
    ASSUME NEW S, IsFiniteSet(S), NEW R, StrictOrder(S, R)
    PROVE  /\ \A x \in S : /\ IsFiniteSet(Before(S, R, x))
                           /\ Cardinality(Before(S, R, x)) \in 0 .. Cardinality(S) - 1
           /\ \A x, y \in S : << x, y >> \in R =>
                Cardinality(Before(S, R, x)) < Cardinality(Before(S, R, y))
  <1>1. ASSUME NEW x \in S
        PROVE  /\ IsFiniteSet(Before(S, R, x))
               /\ Cardinality(Before(S, R, x)) \in 0 .. Cardinality(S) - 1
    <2>1. Before(S, R, x) \in SUBSET (S \ {x})
      BY DEF Before, StrictOrder
    <2>2. IsFiniteSet(S \ {x}) /\ Cardinality(S \ {x}) = Cardinality(S) - 1
      BY FS_RemoveElement
    <2>3. IsFiniteSet(Before(S, R, x)) /\ Cardinality(Before(S, R, x)) <= Cardinality(S \ {x})
      BY <2>1, <2>2, FS_Subset
    <2>4. Cardinality(Before(S, R, x)) \in Nat /\ Cardinality(S) \in Nat
      BY <2>3, FS_CardinalityType
    <2> QED
      BY <2>2, <2>3, <2>4
  <1>2. ASSUME NEW x \in S, NEW y \in S, << x, y >> \in R
        PROVE  Cardinality(Before(S, R, x)) < Cardinality(Before(S, R, y))
    <2>1. Before(S, R, x) \in SUBSET Before(S, R, y)
      BY <1>2 DEF Before, StrictOrder
    <2>2. x \in Before(S, R, y) /\ x \notin Before(S, R, x)
      BY <1>2 DEF Before, StrictOrder
    <2>3. /\ IsFiniteSet(Before(S, R, y))
          /\ Cardinality(Before(S, R, y)) \in 0 .. Cardinality(S) - 1
          /\ Cardinality(Before(S, R, x)) \in 0 .. Cardinality(S) - 1
      BY <1>1
    <2>4. /\ Cardinality(Before(S, R, x)) <= Cardinality(Before(S, R, y))
          /\ Cardinality(Before(S, R, x)) # Cardinality(Before(S, R, y))
      BY <2>1, <2>2, <2>3, FS_Subset
    <2>5. Cardinality(S) \in Nat
      BY FS_CardinalityType
    <2> QED
      BY <2>3, <2>4, <2>5
  <1> QED
    BY <1>1, <1>2

(* Ordered lists every element, in order. *)
LEMMA OrderedLists ==
    ASSUME NEW S, IsFiniteSet(S), NEW R, StrictOrder(S, R)
    PROVE  /\ Cardinality(S) \in Nat
           /\ Lists(Ordered(S, R), Cardinality(S), S, R)
           /\ \A k \in 1 .. Cardinality(S) : Cardinality(Before(S, R, Ordered(S, R)[k])) = k - 1
           /\ \A x \in S : \E k \in 1 .. Cardinality(S) : Ordered(S, R)[k] = x
  <1> DEFINE n == Cardinality(S)
             rank == [x \in S |-> Cardinality(Before(S, R, x)) + 1]
             O == Ordered(S, R)
  <1>1. n \in Nat
    BY FS_CardinalityType
  <1>2. \A x \in S : Cardinality(Before(S, R, x)) \in 0 .. n - 1
    BY BeforeGrows
  <1>3. \A x, y \in S : << x, y >> \in R =>
          Cardinality(Before(S, R, x)) < Cardinality(Before(S, R, y))
    BY BeforeGrows
  <1> HIDE DEF n
  <1>4. rank \in [S -> 1 .. n]
    BY <1>1, <1>2
  <1>5. \A x, y \in S : << x, y >> \in R => rank[x] < rank[y]
    BY <1>1, <1>2, <1>3
  <1>6. \A x \in S : rank[x] = Cardinality(Before(S, R, x)) + 1
    OBVIOUS
  <1> HIDE DEF rank
  <1>7. \A x, y \in S : rank[x] = rank[y] => x = y
    <2> SUFFICES ASSUME NEW x \in S, NEW y \in S, rank[x] = rank[y]
                 PROVE  x = y
      OBVIOUS
    <2>1. rank[x] \in Nat /\ ~ (rank[x] < rank[y]) /\ ~ (rank[y] < rank[x])
      BY <1>1, <1>4
    <2>2. ~ (<< x, y >> \in R) /\ ~ (<< y, x >> \in R)
      BY <1>5, <2>1
    <2> QED
      BY <2>2 DEF StrictOrder
  <1>8. rank \in Injection(S, 1 .. n)
    BY <1>4, <1>7 DEF Injection, IsInjective
  <1>9. IsFiniteSet(1 .. n) /\ Cardinality(1 .. n) = n
    BY <1>1, FS_Interval
  <1>10. rank \in Surjection(S, 1 .. n)
    BY <1>8, <1>9, FS_Injection DEF n
  <1>11. \A k \in 1 .. n : \E x \in S : rank[x] = k
    BY <1>10 DEF Surjection
  <1>12. \A k \in 1 .. n : \E x \in S : Cardinality(Before(S, R, x)) = k - 1
    <2> SUFFICES ASSUME NEW k \in 1 .. n
                 PROVE  \E x \in S : Cardinality(Before(S, R, x)) = k - 1
      OBVIOUS
    <2>1. PICK x \in S : rank[x] = k
      BY <1>11
    <2>2. Cardinality(Before(S, R, x)) + 1 = k /\ Cardinality(Before(S, R, x)) \in Int
      BY <1>1, <1>2, <1>6, <2>1
    <2>3. Cardinality(Before(S, R, x)) = k - 1
      BY <1>1, <2>2
    <2> QED
      BY <2>3
  <1>13. O = [k \in 1 .. n |-> CHOOSE x \in S : Cardinality(Before(S, R, x)) = k - 1]
    BY DEF Ordered, Before, n
  <1> HIDE DEF O
  <1>14. \A k \in 1 .. n : O[k] \in S /\ Cardinality(Before(S, R, O[k])) = k - 1
    BY <1>12, <1>13
  <1>15. O \in [1 .. n -> S]
    BY <1>13, <1>14
  <1>16. \A k \in 1 .. n : rank[O[k]] = k
    BY <1>1, <1>6, <1>14
  <1>17. \A i, j \in 1 .. n : i < j => << O[i], O[j] >> \in R
    <2> SUFFICES ASSUME NEW i \in 1 .. n, NEW j \in 1 .. n, i < j
                 PROVE  << O[i], O[j] >> \in R
      OBVIOUS
    <2>1. O[i] \in S /\ O[j] \in S /\ rank[O[i]] = i /\ rank[O[j]] = j
      BY <1>14, <1>16
    <2>2. ~ (<< O[j], O[i] >> \in R) /\ O[i] # O[j]
      BY <1>1, <1>5, <2>1
    <2> QED
      BY <2>1, <2>2 DEF StrictOrder
  <1>18. \A x \in S : \E k \in 1 .. n : O[k] = x
    BY <1>4, <1>7, <1>14, <1>16
  <1> QED
    BY <1>1, <1>14, <1>15, <1>17, <1>18 DEF Lists, O, n

Covers(f, n, S) == \A x \in S : \E k \in 1 .. n : f[k] = x

LEMMA OrderedCovers ==
    ASSUME NEW S, IsFiniteSet(S), NEW R, StrictOrder(S, R)
    PROVE  Covers(Ordered(S, R), Cardinality(S), S)
  BY OrderedLists DEF Covers

(* There is only one list of all elements in order. *)
LEMMA OrderedUnique ==
    ASSUME NEW S, IsFiniteSet(S), NEW R, StrictOrder(S, R),
           NEW f, Lists(f, Cardinality(S), S, R)
    PROVE  f = Ordered(S, R)
  <1> DEFINE n == Cardinality(S)
             O == Ordered(S, R)
  <1>1. n \in Nat
    BY FS_CardinalityType
  <1>2. /\ O \in [1 .. n -> S]
        /\ \A k \in 1 .. n : Cardinality(Before(S, R, O[k])) = k - 1
    BY OrderedLists DEF Lists
  <1>3. f \in [1 .. n -> S] /\ \A i, j \in 1 .. n : i < j => << f[i], f[j] >> \in R
    BY DEF Lists
  <1> HIDE DEF n, O
  <1>4. \A i, j \in 1 .. n : f[i] = f[j] => i = j
    <2> SUFFICES ASSUME NEW i \in 1 .. n, NEW j \in 1 .. n, i < j, f[i] = f[j]
                 PROVE  FALSE
      BY <1>1
    <2>1. << f[i], f[i] >> \in R /\ f[i] \in S
      BY <1>3
    <2> QED
      BY <2>1 DEF StrictOrder
  <1>5. \A x \in S : \E k \in 1 .. n : f[k] = x
    <2>1. f \in Injection(1 .. n, S)
      BY <1>3, <1>4 DEF Injection, IsInjective
    <2>2. Cardinality(1 .. n) = n
      BY <1>1, FS_Interval
    <2>3. f \in Surjection(1 .. n, S)
      BY <2>1, <2>2, FS_Injection DEF n
    <2> QED
      BY <2>3 DEF Surjection
  <1>6. ASSUME NEW k \in 1 .. n
        PROVE  f[k] = O[k]
    <2> DEFINE g == [i \in 1 .. k - 1 |-> f[i]]
               B == Before(S, R, f[k])
    <2>1. 1 .. k - 1 \subseteq 1 .. n /\ k \in Nat /\ k - 1 \in Nat
      BY <1>1
    <2>2. \A i \in 1 .. k - 1 : f[i] \in B
      BY <1>1, <1>3, <2>1 DEF Before
    <2>3. \A y \in B : \E i \in 1 .. k - 1 : f[i] = y
      <3> SUFFICES ASSUME NEW y \in B
                   PROVE  \E i \in 1 .. k - 1 : f[i] = y
        OBVIOUS
      <3>1. y \in S /\ << y, f[k] >> \in R /\ f[k] \in S
        BY <1>3 DEF Before
      <3>2. PICK i \in 1 .. n : f[i] = y
        BY <1>5, <3>1
      <3>3. i # k /\ ~ (k < i)
        BY <1>3, <3>1, <3>2 DEF StrictOrder
      <3> QED
        BY <1>1, <3>2, <3>3
    <2>4. g \in [1 .. k - 1 -> B] /\ \A i \in 1 .. k - 1 : g[i] = f[i]
      BY <2>2
    <2> HIDE DEF g, B
    <2>5. g \in Bijection(1 .. k - 1, B)
      BY <1>4, <2>1, <2>3, <2>4 DEF Bijection, Injection, Surjection, IsInjective
    <2>6. IsFiniteSet(1 .. k - 1) /\ Cardinality(1 .. k - 1) = k - 1
      BY <2>1, FS_Interval
    <2>7. Cardinality(B) = k - 1
      BY <2>5, <2>6, FS_Bijection DEF ExistsBijection
    <2>8. Cardinality(Before(S, R, f[k])) = Cardinality(Before(S, R, O[k]))
      BY <1>2, <2>7 DEF B
    <2>9. /\ f[k] \in S /\ O[k] \in S
          /\ Cardinality(Before(S, R, f[k])) \in Int
      BY <1>2, <1>3, <2>1, <2>7 DEF B
    <2>10. ~ (<< f[k], O[k] >> \in R) /\ ~ (<< O[k], f[k] >> \in R)
      BY <2>8, <2>9, BeforeGrows
    <2> QED
      BY <2>9, <2>10 DEF StrictOrder
  <1>7. \A k \in 1 .. n : f[k] = O[k]
    BY <1>6
  <1>8. f = [k \in 1 .. n |-> f[k]] /\ O = [k \in 1 .. n |-> O[k]]
    BY <1>2, <1>3
  <1>9. f = O
    BY <1>7, <1>8
  <1> QED
    BY <1>9 DEF O

(* The elements of a set that is closed downwards come first. *)
LEMMA OrderedPrefix ==
    ASSUME NEW S, IsFiniteSet(S), NEW R, StrictOrder(S, R),
           NEW D \in SUBSET S, \A x \in D : \A y \in S : << y, x >> \in R => y \in D
    PROVE  /\ Cardinality(D) \in 0 .. Cardinality(S)
           /\ \A k \in 1 .. Cardinality(S) : Ordered(S, R)[k] \in D <=> k <= Cardinality(D)
  <1> DEFINE n == Cardinality(S)
             O == Ordered(S, R)
             m == Cardinality(D)
             I == {k \in 1 .. n : O[k] \in D}
             g == [k \in I |-> O[k]]
  <1>1. n \in Nat /\ IsFiniteSet(D) /\ m \in Nat /\ m <= n
    BY FS_Subset, FS_CardinalityType
  <1>2. /\ O \in [1 .. n -> S]
        /\ \A i, j \in 1 .. n : i < j => << O[i], O[j] >> \in R
        /\ \A x \in S : \E k \in 1 .. n : O[k] = x
    BY OrderedLists DEF Lists
  <1> HIDE DEF n, O, m
  <1>3. \A i, j \in 1 .. n : O[i] = O[j] => i = j
    <2> SUFFICES ASSUME NEW i \in 1 .. n, NEW j \in 1 .. n, i < j, O[i] = O[j]
                 PROVE  FALSE
      BY <1>1
    <2>1. << O[i], O[i] >> \in R /\ O[i] \in S
      BY <1>2
    <2> QED
      BY <2>1 DEF StrictOrder
  <1>4. \A j \in I : \A i \in 1 .. n : i < j => i \in I
    BY <1>2
  <1>5. Cardinality(I) = m /\ IsFiniteSet(I)
    <2>1. IsFiniteSet(1 .. n)
      BY <1>1, FS_Interval
    <2>2. IsFiniteSet(I)
      BY <2>1, FS_Subset
    <2>3. g \in [I -> D] /\ \A k \in I : g[k] = O[k]
      OBVIOUS
    <2>4. \A x \in D : \E k \in I : O[k] = x
      BY <1>2
    <2> HIDE DEF g
    <2>5. g \in Bijection(I, D)
      <3>1. \A i, j \in I : g[i] = g[j] => i = j
        BY <1>3, <2>3
      <3>2. \A x \in D : \E k \in I : g[k] = x
        BY <2>3, <2>4
      <3> HIDE DEF I
      <3> QED
        BY <2>3, <3>1, <3>2 DEF Bijection, Injection, Surjection, IsInjective
    <2> HIDE DEF I
    <2>6. Cardinality(D) = Cardinality(I)
      BY <2>2, <2>5, FS_Bijection DEF ExistsBijection
    <2> QED
      BY <2>2, <2>6 DEF m
  <1>6. ASSUME NEW k \in 1 .. n, k \in I
        PROVE  k <= m
    <2>1. 1 .. k \in SUBSET I
      BY <1>1, <1>4, <1>6
    <2>2. Cardinality(1 .. k) = k
      BY <1>1, FS_Interval
    <2> HIDE DEF I
    <2> QED
      BY <1>5, <2>1, <2>2, FS_Subset
  <1>7. ASSUME NEW k \in 1 .. n, k \notin I
        PROVE  k > m
    <2>1. I \in SUBSET (1 .. k - 1)
      BY <1>1, <1>4, <1>7
    <2>2. IsFiniteSet(1 .. k - 1) /\ Cardinality(1 .. k - 1) = k - 1
      BY <1>1, FS_Interval
    <2> HIDE DEF I
    <2>3. m <= k - 1
      BY <1>5, <2>1, <2>2, FS_Subset
    <2> QED
      BY <1>1, <2>3
  <1>8. \A k \in 1 .. n : O[k] \in D <=> k <= m
    <2> SUFFICES ASSUME NEW k \in 1 .. n
                 PROVE  k \in I <=> k <= m
      OBVIOUS
    <2> HIDE DEF I
    <2> QED
      BY <1>1, <1>6, <1>7
  <1> QED
    BY <1>1, <1>8 DEF n, O, m

(* Numbers are ordered by size. *)
LEMMA AscendingLists ==
    ASSUME NEW S, IsFiniteSet(S), S \subseteq Int
    PROVE  /\ StrictOrder(S, {p \in S \X S : p[1] < p[2]})
           /\ Cardinality(S) \in Nat
           /\ Ascending(S) \in [1 .. Cardinality(S) -> S]
           /\ \A i, j \in 1 .. Cardinality(S) : i < j => Ascending(S)[i] < Ascending(S)[j]
           /\ \A x \in S : \E k \in 1 .. Cardinality(S) : Ascending(S)[k] = x
  <1> DEFINE R == {p \in S \X S : p[1] < p[2]}
  <1>1. \A x, y \in S : << x, y >> \in R <=> x < y
    OBVIOUS
  <1>2. \A x, y : << x, y >> \in R => x < y
    OBVIOUS
  <1>3. Ascending(S) = Ordered(S, R)
    BY DEF Ascending
  <1> HIDE DEF R
  <1>4. StrictOrder(S, R)
    <2>1. \A x \in S : ~ (x < x)
      OBVIOUS
    <2>2. \A x, y, z \in S : x < y /\ y < z => x < z
      OBVIOUS
    <2>3. \A x, y \in S : x = y \/ x < y \/ y < x
      OBVIOUS
    <2> QED
      BY <1>1, <2>1, <2>2, <2>3 DEF StrictOrder
  <1>5. /\ Cardinality(S) \in Nat
        /\ Lists(Ordered(S, R), Cardinality(S), S, R)
        /\ \A x \in S : \E k \in 1 .. Cardinality(S) : Ordered(S, R)[k] = x
    BY <1>4, OrderedLists
  <1>6. \A i, j \in 1 .. Cardinality(S) : i < j => Ascending(S)[i] < Ascending(S)[j]
    BY <1>2, <1>3, <1>5 DEF Lists
  <1> QED
    BY <1>3, <1>4, <1>5, <1>6 DEF Lists, R

LEMMA AscendingUnique ==
    ASSUME NEW S, IsFiniteSet(S), S \subseteq Int,
           NEW f \in [1 .. Cardinality(S) -> S],
           \A i, j \in 1 .. Cardinality(S) : i < j => f[i] < f[j]
    PROVE  f = Ascending(S)
  <1> DEFINE R == {p \in S \X S : p[1] < p[2]}
  <1>1. \A i, j \in 1 .. Cardinality(S) : i < j => << f[i], f[j] >> \in R
    OBVIOUS
  <1>2. StrictOrder(S, R)
    BY AscendingLists
  <1>3. Ascending(S) = Ordered(S, R)
    BY DEF Ascending
  <1> HIDE DEF R
  <1>4. Lists(f, Cardinality(S), S, R)
    BY <1>1 DEF Lists
  <1> QED
    BY <1>2, <1>3, <1>4, OrderedUnique

(* Choosing from a sequence: the chosen positions in ascending order. *)
LEMMA ChooseElements ==
    ASSUME NEW T, NEW seq \in Seq(T), NEW I \in SUBSET DOMAIN seq
    PROVE  /\ IsFiniteSet(I) /\ Cardinality(I) \in Nat
           /\ Ascending(I) \in [1 .. Cardinality(I) -> I]
           /\ Choose(seq, I) \in Seq(T)
           /\ Len(Choose(seq, I)) = Cardinality(I)
           /\ \A k \in 1 .. Cardinality(I) : Choose(seq, I)[k] = seq[Ascending(I)[k]]
           /\ \A i \in I : \E k \in 1 .. Cardinality(I) : Choose(seq, I)[k] = seq[i]
           /\ \A j, k \in 1 .. Cardinality(I) : j < k => Ascending(I)[j] < Ascending(I)[k]
  <1> DEFINE n == Cardinality(I)
             a == Ascending(I)
             c == Choose(seq, I)
  <1>1. DOMAIN seq = 1 .. Len(seq) /\ Len(seq) \in Nat /\ seq \in [1 .. Len(seq) -> T]
    OBVIOUS
  <1>2. IsFiniteSet(I) /\ I \subseteq Int
    <2>1. IsFiniteSet(1 .. Len(seq))
      BY <1>1, FS_Interval
    <2> QED
      BY <1>1, <2>1, FS_Subset
  <1>3. /\ n \in Nat /\ a \in [1 .. n -> I]
        /\ \A x \in I : \E k \in 1 .. n : a[k] = x
        /\ \A i, j \in 1 .. n : i < j => a[i] < a[j]
    BY <1>2, AscendingLists
  <1>4. c = [k \in DOMAIN a |-> seq[a[k]]]
    BY DEF Choose
  <1> HIDE DEF n, a, c
  <1>5. c = [k \in 1 .. n |-> seq[a[k]]]
    BY <1>3, <1>4
  <1>6. \A k \in 1 .. n : seq[a[k]] \in T
    BY <1>1, <1>3
  <1>7. c \in Seq(T) /\ Len(c) = n
    BY <1>3, <1>5, <1>6
  <1>8. \A k \in 1 .. n : c[k] = seq[a[k]]
    BY <1>5
  <1>9. \A i \in I : \E k \in 1 .. n : c[k] = seq[i]
    BY <1>3, <1>8
  <1> QED
    BY <1>2, <1>3, <1>7, <1>8, <1>9 DEF n, a, c

(* Intervals that start with 1, and sets without common elements. *)
LEMMA IntervalSize ==
    ASSUME NEW n \in Nat
    PROVE  IsFiniteSet(1 .. n) /\ Cardinality(1 .. n) = n
  BY FS_Interval

LEMMA DisjointSize ==
    ASSUME NEW S, NEW T, IsFiniteSet(S), IsFiniteSet(T), S \cap T = {}
    PROVE  IsFiniteSet(S \cup T) /\ Cardinality(S \cup T) = Cardinality(S) + Cardinality(T)
  <1>1. Cardinality(S \cap T) = 0
    BY FS_EmptySet
  <1>2. IsFiniteSet(S \cup T) /\ Cardinality(S \cup T) = Cardinality(S) + Cardinality(T) - Cardinality(S \cap T)
    BY FS_Union
  <1>3. Cardinality(S) \in Nat /\ Cardinality(T) \in Nat
    BY FS_CardinalityType
  <1> QED
    BY <1>1, <1>2, <1>3

LEMMA OneElement ==
    ASSUME NEW T, NEW x \in T
    PROVE  << x >> \in Seq(T) /\ Len(<< x >>) = 1 /\ << x >>[1] = x
  OBVIOUS

-----------------------------------------------------------------------------
(* A sequence without its last element. *)
LEMMA FrontFacts ==
    ASSUME NEW S, NEW st \in Seq(S), st # << >>
    PROVE  /\ Front(st) \in Seq(S) /\ Len(Front(st)) = Len(st) - 1
           /\ \A k \in 1 .. Len(st) - 1 : Front(st)[k] = st[k]
           /\ Len(st) \in Nat \ {0}
  <1> DEFINE n == Len(st) - 1
  <1>1. Len(st) \in Nat \ {0} /\ n \in Nat /\ \A k \in 1 .. n : st[k] \in S
    OBVIOUS
  <1>2. Front(st) = SubSeq(st, 1, n)
    BY DEF Front
  <1> HIDE DEF n
  <1>3. /\ SubSeq(st, 1, n) \in Seq(S)
        /\ Len(SubSeq(st, 1, n)) = IF 1 <= n THEN n - 1 + 1 ELSE 0
        /\ \A k \in 1 .. n - 1 + 1 : SubSeq(st, 1, n)[k] = st[1 + k - 1]
    BY <1>1, SubSeqProperties
  <1>4. \A k \in 1 .. n : k \in 1 .. n - 1 + 1 /\ 1 + k - 1 = k
    BY <1>1
  <1>5. Len(SubSeq(st, 1, n)) = n /\ \A k \in 1 .. n : SubSeq(st, 1, n)[k] = st[k]
    BY <1>1, <1>3, <1>4
  <1> QED
    BY <1>1, <1>2, <1>3, <1>5 DEF n

(* Recursive functions on 0 .. N: there is one. *)
Steps(N, V, step) == step \in [1 .. N -> [V -> V]]

Solution(N, V, v0, step) ==
    \E f \in [0 .. N -> V] : f[0] = v0 /\ \A n \in 1 .. N : f[n] = step[n][f[n - 1]]

LEMMA Recursion ==
    ASSUME NEW N \in Nat, NEW V, NEW v0 \in V, NEW step, Steps(N, V, step)
    PROVE  Solution(N, V, v0, step)
  <1> DEFINE Good(m) == \E f \in [0 .. m -> V] :
                          f[0] = v0 /\ \A n \in 1 .. m : f[n] = step[n][f[n - 1]]
             bad == {m \in 0 .. N : ~ Good(m)}
  <1>1. Good(0)
    <2> DEFINE f == [k \in 0 .. 0 |-> v0]
    <2>1. f \in [0 .. 0 -> V] /\ f[0] = v0 /\ \A n \in 1 .. 0 : f[n] = step[n][f[n - 1]]
      OBVIOUS
    <2> HIDE DEF f
    <2> QED
      BY <2>1
  <1> SUFFICES Good(N)
    BY DEF Solution
  <1> HIDE DEF Good
  <1>2. SUFFICES ASSUME bad # {}
                 PROVE  FALSE
    OBVIOUS
  <1>3. PICK m \in bad : \A k \in bad : m <= k
    <2>1. bad \subseteq Nat
      OBVIOUS
    <2> HIDE DEF bad
    <2> QED
      BY <1>2, <2>1, LeastNumber
  <1>4. m \in 0 .. N /\ ~ Good(m)
    BY <1>3
  <1>6. m # 0
    BY <1>1, <1>4
  <1>7. m - 1 \in 0 .. N /\ m \in 1 .. N
    BY <1>4, <1>6
  <1>8. Good(m - 1)
    <2>1. m - 1 \notin bad
      BY <1>3, <1>4
    <2> QED
      BY <1>7, <2>1
  <1>9. PICK f \in [0 .. m - 1 -> V] :
          f[0] = v0 /\ \A n \in 1 .. m - 1 : f[n] = step[n][f[n - 1]]
    BY <1>8 DEF Good
  <1> DEFINE g == [k \in 0 .. m |-> IF k = m THEN step[m][f[m - 1]] ELSE f[k]]
  <1>10. f[m - 1] \in V /\ step[m][f[m - 1]] \in V
    BY <1>7, <1>9 DEF Steps
  <1>11. g \in [0 .. m -> V] /\ g[0] = v0 /\ g[m] = step[m][f[m - 1]]
    BY <1>7, <1>9, <1>10
  <1>12. \A k \in 0 .. m - 1 : g[k] = f[k]
    BY <1>7
  <1> HIDE DEF g
  <1>13. \A n \in 1 .. m : g[n] = step[n][g[n - 1]]
    <2> SUFFICES ASSUME NEW n \in 1 .. m
                 PROVE  g[n] = step[n][g[n - 1]]
      OBVIOUS
    <2>1. g[n - 1] = f[n - 1]
      BY <1>7, <1>12
    <2>2. CASE n = m
      BY <1>11, <2>1, <2>2
    <2>3. CASE n # m
      <3>1. n \in 1 .. m - 1 /\ n \in 0 .. m - 1
        BY <1>7, <2>3
      <3> QED
        BY <1>9, <1>12, <2>1, <3>1
    <2> QED
      BY <2>2, <2>3
  <1> QED
    BY <1>4, <1>11, <1>13 DEF Good

-----------------------------------------------------------------------------
(* Numbering the symbols. *)

Places(S) == {i \in DOMAIN SymbolOrder : SymbolOrder[i] \in S \ {Epsilon}}

(* InOrder lists the names of the set, each one once, without epsilon. *)
LEMMA InOrderNames ==
    ASSUME NEW S
    PROVE  /\ InOrder(S) \in Seq(STRING)
           /\ IsFiniteSet(Places(S))
           /\ Len(InOrder(S)) = Cardinality(Places(S))
           /\ \A k \in 1 .. Len(InOrder(S)) : InOrder(S)[k] \in S /\ InOrder(S)[k] # Epsilon
           /\ \A x \in S \cap AllNames : x # Epsilon => \E k \in 1 .. Len(InOrder(S)) : InOrder(S)[k] = x
           /\ \A j, k \in 1 .. Len(InOrder(S)) : InOrder(S)[j] = InOrder(S)[k] => j = k
  <1> DEFINE I == Places(S)
             n == Cardinality(I)
             a == Ascending(I)
             c == InOrder(S)
  <1>1. SymbolOrder \in Seq(STRING) /\ IsInjective(SymbolOrder)
    BY ConstantsAssumption
  <1>2. I \in SUBSET DOMAIN SymbolOrder
    BY DEF Places
  <1>3. c = Choose(SymbolOrder, I)
    BY DEF InOrder, Places
  <1>4. \A i \in I : SymbolOrder[i] \in S /\ SymbolOrder[i] # Epsilon
    BY DEF Places
  <1>5. \A x \in S \cap AllNames : x # Epsilon => \E i \in I : SymbolOrder[i] = x
    BY <1>1 DEF Places, AllNames
  <1> HIDE DEF I, c
  <1>6. /\ IsFiniteSet(I) /\ n \in Nat
        /\ a \in [1 .. n -> I]
        /\ c \in Seq(STRING)
        /\ Len(c) = n
        /\ \A k \in 1 .. n : c[k] = SymbolOrder[a[k]]
        /\ \A i \in I : \E k \in 1 .. n : c[k] = SymbolOrder[i]
        /\ \A j, k \in 1 .. n : j < k => a[j] < a[k]
    BY <1>1, <1>2, <1>3, ChooseElements
  <1> HIDE DEF n, a
  <1>7. \A k \in 1 .. n : c[k] \in S /\ c[k] # Epsilon
    BY <1>4, <1>6
  <1>8. \A x \in S \cap AllNames : x # Epsilon => \E k \in 1 .. n : c[k] = x
    BY <1>5, <1>6
  <1>9. ASSUME NEW j \in 1 .. n, NEW k \in 1 .. n, c[j] = c[k]
        PROVE  j = k
    <2>1. a[j] \in DOMAIN SymbolOrder /\ a[k] \in DOMAIN SymbolOrder
      BY <1>2, <1>6
    <2>2. a[j] = a[k]
      BY <1>1, <1>6, <1>9, <2>1 DEF IsInjective
    <2>3. a[j] \in Int
      BY <1>1, <2>1
    <2>4. ~ (j < k) /\ ~ (k < j)
      BY <1>6, <2>2, <2>3
    <2> QED
      BY <1>6, <2>4
  <1> QED
    BY <1>6, <1>7, <1>8, <1>9 DEF c, n, I

(* The symbol table: epsilon, then three lists of names that are disjoint. *)
LEMMA SymbolTable ==
    ASSUME NEW inputs, NEW outputs
    PROVE  LET table == CollectSymbols(inputs, outputs)
               a == Len(InOrder(inputs \ FlagNames))
               b == Len(InOrder(inputs \cap FlagNames))
               c == Len(InOrder(outputs \ inputs))
           IN  /\ a \in Nat /\ b \in Nat /\ c \in Nat
               /\ table \in Seq(STRING) /\ Len(table) = 1 + a + b + c
               /\ Len(table) <= Len(SymbolOrder) + 1
               /\ table[1] = Epsilon
               /\ \A p \in 2 .. 1 + a : table[p] = InOrder(inputs \ FlagNames)[p - 1]
               /\ \A p \in 2 + a .. 1 + a + b : table[p] = InOrder(inputs \cap FlagNames)[p - 1 - a]
               /\ \A p \in 2 + a + b .. 1 + a + b + c : table[p] = InOrder(outputs \ inputs)[p - 1 - a - b]
  <1> DEFINE A == InOrder(inputs \ FlagNames)
             B == InOrder(inputs \cap FlagNames)
             C == InOrder(outputs \ inputs)
             E == << Epsilon >>
             table == CollectSymbols(inputs, outputs)
             IA == Places(inputs \ FlagNames)
             IB == Places(inputs \cap FlagNames)
             IC == Places(outputs \ inputs)
  <1>1. A \in Seq(STRING) /\ IsFiniteSet(IA) /\ Len(A) = Cardinality(IA)
    BY InOrderNames
  <1>2. B \in Seq(STRING) /\ IsFiniteSet(IB) /\ Len(B) = Cardinality(IB)
    BY InOrderNames
  <1>3. C \in Seq(STRING) /\ IsFiniteSet(IC) /\ Len(C) = Cardinality(IC)
    BY InOrderNames
  <1>4. E \in Seq(STRING) /\ Len(E) = 1 /\ E[1] = Epsilon
    <2>1. Epsilon \in STRING
      BY ConstantsAssumption
    <2> QED
      BY <2>1, OneElement
  <1>5. table = ((E \o A) \o B) \o C
    BY DEF CollectSymbols
  <1>6. IA \cap IB = {} /\ (IA \cup IB) \cap IC = {} /\ (IA \cup IB) \cup IC \in SUBSET DOMAIN SymbolOrder
    BY DEF Places
  <1> DEFINE T == STRING
             EA == E \o A
             EAB == EA \o B
             la == Len(A)
             lb == Len(B)
             lc == Len(C)
  <1> HIDE DEF A, B, C, E, table, IA, IB, IC
  <1>7. la \in Nat /\ lb \in Nat /\ lc \in Nat
    BY <1>1, <1>2, <1>3
  <1>8. Len(table) <= Len(SymbolOrder) + 1 \/ Len(table) # 1 + la + lb + lc
    <2>1. Cardinality(IA \cup IB) = Cardinality(IA) + Cardinality(IB) /\ IsFiniteSet(IA \cup IB)
      BY <1>1, <1>2, <1>6, DisjointSize
    <2> DEFINE IAB == IA \cup IB
    <2> HIDE DEF IAB
    <2>2a. IsFiniteSet(IAB) /\ IAB \cap IC = {} /\ Cardinality(IAB) = la + lb
      BY <1>1, <1>2, <1>6, <2>1 DEF IAB
    <2>2b. Cardinality(IAB \cup IC) = Cardinality(IAB) + Cardinality(IC)
      BY <1>3, <2>2a, DisjointSize
    <2>2. Cardinality((IA \cup IB) \cup IC) = la + lb + lc
      BY <1>3, <2>2a, <2>2b DEF IAB
    <2>3. DOMAIN SymbolOrder = 1 .. Len(SymbolOrder) /\ Len(SymbolOrder) \in Nat
      BY ConstantsAssumption
    <2>4. IsFiniteSet(DOMAIN SymbolOrder) /\ Cardinality(DOMAIN SymbolOrder) = Len(SymbolOrder)
      BY <2>3, IntervalSize
    <2>5. Cardinality((IA \cup IB) \cup IC) <= Cardinality(DOMAIN SymbolOrder)
      BY <1>6, <2>4, FS_Subset
    <2>6. la + lb + lc <= Len(SymbolOrder)
      BY <1>7, <2>2, <2>3, <2>4, <2>5
    <2> HIDE DEF la, lb, lc
    <2> QED
      BY <1>7, <2>3, <2>6
  <1> HIDE DEF T
  <1>9. A \in Seq(T) /\ B \in Seq(T) /\ C \in Seq(T) /\ E \in Seq(T)
    BY <1>1, <1>2, <1>3, <1>4 DEF T
  <1> DEFINE one == 1
             ma == 1 + la
             mb == (1 + la) + lb
  <1> HIDE DEF one, la, lb, lc
  <1>9a. one \in Nat /\ Len(E) = one /\ Len(A) = la /\ Len(B) = lb /\ Len(C) = lc
    BY <1>4 DEF one, la, lb, lc
  <1>10a. /\ EA \in Seq(T) /\ Len(EA) = one + la
          /\ \A p \in 1 .. one : EA[p] = E[p]
          /\ \A p \in one + 1 .. one + la : EA[p] = A[p - one]
    <2>1. E \in Seq(T) /\ A \in Seq(T) /\ one \in Nat /\ la \in Nat /\ Len(E) = one /\ Len(A) = la
      BY <1>7, <1>9, <1>9a
    <2>2. E \o A \in Seq(T)
      BY <2>1
    <2>3. Len(E \o A) = one + la
      BY <2>1
    <2>4. \A p \in 1 .. one : (E \o A)[p] = E[p]
      BY <2>1
    <2>5. \A p \in one + 1 .. one + la : (E \o A)[p] = A[p - one]
      BY <2>1
    <2> QED
      BY <2>2, <2>3, <2>4, <2>5
  <1>12. table = EAB \o C
    BY <1>5
  <1> HIDE DEF EA
  <1>10. /\ EA \in Seq(T) /\ Len(EA) = 1 + la
         /\ \A p \in 1 .. 1 : EA[p] = E[p]
         /\ \A p \in 1 + 1 .. 1 + la : EA[p] = A[p - 1]
    BY <1>10a DEF one
  <1> HIDE DEF ma, mb
  <1>10b. ma \in Nat /\ Len(EA) = ma /\ mb = ma + lb /\ mb \in Nat
    BY <1>7, <1>10 DEF ma, mb
  <1>11a. /\ EAB \in Seq(T) /\ Len(EAB) = ma + lb
          /\ \A p \in 1 .. ma : EAB[p] = EA[p]
          /\ \A p \in ma + 1 .. ma + lb : EAB[p] = B[p - ma]
    <2>1. EA \in Seq(T) /\ B \in Seq(T) /\ ma \in Nat /\ lb \in Nat /\ Len(EA) = ma /\ Len(B) = lb
      BY <1>7, <1>9, <1>9a, <1>10, <1>10b
    <2>2. EA \o B \in Seq(T)
      BY <2>1
    <2>3. Len(EA \o B) = ma + lb
      BY <2>1
    <2>4. \A p \in 1 .. ma : (EA \o B)[p] = EA[p]
      BY <2>1
    <2>5. \A p \in ma + 1 .. ma + lb : (EA \o B)[p] = B[p - ma]
      BY <2>1
    <2> QED
      BY <2>2, <2>3, <2>4, <2>5
  <1> HIDE DEF EAB
  <1>11. /\ EAB \in Seq(T) /\ Len(EAB) = mb
         /\ \A p \in 1 .. 1 + la : EAB[p] = EA[p]
         /\ \A p \in (1 + la) + 1 .. (1 + la) + lb : EAB[p] = B[p - (1 + la)]
    BY <1>10b, <1>11a DEF ma
  <1>13a. /\ table \in Seq(T) /\ Len(table) = mb + lc
          /\ \A p \in 1 .. mb : table[p] = EAB[p]
          /\ \A p \in mb + 1 .. mb + lc : table[p] = C[p - mb]
    <2>1. /\ EAB \o C \in Seq(T) /\ Len(EAB \o C) = mb + lc
          /\ \A p \in 1 .. mb : (EAB \o C)[p] = EAB[p]
          /\ \A p \in mb + 1 .. mb + lc : (EAB \o C)[p] = C[p - mb]
      <3>1. EAB \in Seq(T) /\ C \in Seq(T) /\ mb \in Nat /\ lc \in Nat /\ Len(EAB) = mb /\ Len(C) = lc
        BY <1>7, <1>9, <1>9a, <1>10b, <1>11
      <3>2. EAB \o C \in Seq(T)
        BY <3>1
      <3>3. Len(EAB \o C) = mb + lc
        BY <3>1
      <3>4. \A p \in 1 .. mb : (EAB \o C)[p] = EAB[p]
        BY <3>1
      <3>5. \A p \in mb + 1 .. mb + lc : (EAB \o C)[p] = C[p - mb]
        BY <3>1
      <3> QED
        BY <3>2, <3>3, <3>4, <3>5
    <2> DEFINE t == EAB \o C
    <2> HIDE DEF t
    <2>2. /\ t \in Seq(T) /\ Len(t) = mb + lc
          /\ \A p \in 1 .. mb : t[p] = EAB[p]
          /\ \A p \in mb + 1 .. mb + lc : t[p] = C[p - mb]
      BY <2>1 DEF t
    <2>3. table = t
      BY <1>12 DEF t
    <2> QED
      BY <2>2, <2>3
  <1>13. /\ table \in Seq(T) /\ Len(table) = ((1 + la) + lb) + lc
         /\ \A p \in 1 .. (1 + la) + lb : table[p] = EAB[p]
         /\ \A p \in ((1 + la) + lb) + 1 .. ((1 + la) + lb) + lc : table[p] = C[p - ((1 + la) + lb)]
    BY <1>13a DEF mb
  <1>14. Len(table) = 1 + la + lb + lc
    BY <1>7, <1>13
  <1>15. table[1] = Epsilon
    <2>1. 1 \in 1 .. (1 + la) + lb /\ 1 \in 1 .. 1 + la /\ 1 \in 1 .. 1
      BY <1>7
    <2> QED
      BY <1>4, <1>10, <1>11, <1>13, <2>1
  <1>16. \A p \in 2 .. 1 + la : table[p] = A[p - 1]
    <2> SUFFICES ASSUME NEW p \in 2 .. 1 + la
                 PROVE  table[p] = A[p - 1]
      OBVIOUS
    <2>1. p \in 1 .. (1 + la) + lb /\ p \in 1 .. 1 + la /\ p \in 1 + 1 .. 1 + la
      BY <1>7
    <2> QED
      BY <1>10, <1>11, <1>13, <2>1
  <1>17. \A p \in 2 + la .. 1 + la + lb : table[p] = B[p - 1 - la]
    <2> SUFFICES ASSUME NEW p \in 2 + la .. 1 + la + lb
                 PROVE  table[p] = B[p - 1 - la]
      OBVIOUS
    <2>1. p - (1 + la) = p - 1 - la /\ p \in 1 .. (1 + la) + lb /\ p \in (1 + la) + 1 .. (1 + la) + lb
      BY <1>7
    <2> QED
      BY <1>11, <1>13, <2>1
  <1>18. \A p \in 2 + la + lb .. 1 + la + lb + lc : table[p] = C[p - 1 - la - lb]
    <2> SUFFICES ASSUME NEW p \in 2 + la + lb .. 1 + la + lb + lc
                 PROVE  table[p] = C[p - 1 - la - lb]
      OBVIOUS
    <2>1. p - ((1 + la) + lb) = p - 1 - la - lb /\ p \in ((1 + la) + lb) + 1 .. ((1 + la) + lb) + lc
      BY <1>7
    <2> QED
      BY <1>13, <2>1
  <1> QED
    BY <1>7, <1>8, <1>13, <1>14, <1>15, <1>16, <1>17, <1>18 DEF T, la, lb, lc, A, B, C, table

\* Every name has one number: the inputs that are not flags are numbered from 1
\* to a, the flags used as input and the outputs come after them.
NumbersNames(table, a, inputs, outputs) ==
    /\ a \in Nat /\ table \in Seq(STRING) /\ 1 + a <= Len(table)
    /\ IsInjective(table)
    /\ \A x \in inputs \cup outputs : \E p \in 1 .. Len(table) : table[p] = x
    /\ \A p \in 2 .. 1 + a : table[p] \in inputs \ FlagNames
    /\ \A x \in inputs \ FlagNames : \E p \in 1 .. 1 + a : table[p] = x
    /\ \A p \in 2 .. Len(table) : table[p] # Epsilon

(* The symbol table numbers the names. *)
LEMMA NumberedNames ==
    ASSUME NEW inputs, NEW outputs, inputs \cup outputs \subseteq AllNames \cup {Epsilon},
           NEW table, table = CollectSymbols(inputs, outputs),
           NEW a, a = Len(InOrder(inputs \ FlagNames))
    PROVE  NumbersNames(table, a, inputs, outputs)
  <1> DEFINE A == InOrder(inputs \ FlagNames)
             B == InOrder(inputs \cap FlagNames)
             C == InOrder(outputs \ inputs)
             b == Len(B)
             c == Len(C)
             N == Len(table)
  <1>1. /\ a \in Nat /\ b \in Nat /\ c \in Nat /\ N = 1 + a + b + c
        /\ table \in Seq(STRING)
        /\ table[1] = Epsilon
        /\ \A p \in 2 .. 1 + a : table[p] = A[p - 1]
        /\ \A p \in 2 + a .. 1 + a + b : table[p] = B[p - 1 - a]
        /\ \A p \in 2 + a + b .. 1 + a + b + c : table[p] = C[p - 1 - a - b]
    <2> DEFINE t == CollectSymbols(inputs, outputs)
               la == Len(A)
    <2>1. /\ la \in Nat /\ b \in Nat /\ c \in Nat /\ Len(t) = 1 + la + b + c
          /\ t \in Seq(STRING)
          /\ t[1] = Epsilon
          /\ \A p \in 2 .. 1 + la : t[p] = A[p - 1]
          /\ \A p \in 2 + la .. 1 + la + b : t[p] = B[p - 1 - la]
          /\ \A p \in 2 + la + b .. 1 + la + b + c : t[p] = C[p - 1 - la - b]
      BY SymbolTable
    <2>2. t = table /\ la = a
      OBVIOUS
    <2> HIDE DEF t, la, A, B, C, b, c
    <2> QED
      BY <2>1, <2>2
  <1>2. /\ \A k \in 1 .. a : A[k] \in inputs \ FlagNames /\ A[k] # Epsilon
        /\ \A x \in (inputs \ FlagNames) \cap AllNames : x # Epsilon => \E k \in 1 .. a : A[k] = x
        /\ \A j, k \in 1 .. a : A[j] = A[k] => j = k
    BY InOrderNames
  <1>3. /\ \A k \in 1 .. b : B[k] \in inputs \cap FlagNames /\ B[k] # Epsilon
        /\ \A x \in (inputs \cap FlagNames) \cap AllNames : x # Epsilon => \E k \in 1 .. b : B[k] = x
        /\ \A j, k \in 1 .. b : B[j] = B[k] => j = k
    BY InOrderNames
  <1>4. /\ \A k \in 1 .. c : C[k] \in outputs \ inputs /\ C[k] # Epsilon
        /\ \A x \in (outputs \ inputs) \cap AllNames : x # Epsilon => \E k \in 1 .. c : C[k] = x
        /\ \A j, k \in 1 .. c : C[j] = C[k] => j = k
    BY InOrderNames
  <1> HIDE DEF A, B, C, b, c, N
  <1>5. \A p \in 2 .. 1 + a : p - 1 \in 1 .. a
    BY <1>1
  <1>6. \A p \in 2 + a .. 1 + a + b : p - 1 - a \in 1 .. b
    BY <1>1
  <1>7. \A p \in 2 + a + b .. 1 + a + b + c : p - 1 - a - b \in 1 .. c
    BY <1>1
  <1>8. /\ \A p \in 2 .. 1 + a : table[p] \in inputs \ FlagNames /\ table[p] # Epsilon
        /\ \A p \in 2 + a .. 1 + a + b : table[p] \in inputs \cap FlagNames /\ table[p] # Epsilon
        /\ \A p \in 2 + a + b .. 1 + a + b + c : table[p] \in outputs \ inputs /\ table[p] # Epsilon
    <2>1. ASSUME NEW p \in 2 .. 1 + a
          PROVE  table[p] \in inputs \ FlagNames /\ table[p] # Epsilon
      <3>1. table[p] = A[p - 1] /\ p - 1 \in 1 .. a
        BY <1>1, <1>5
      <3> QED
        BY <1>2, <3>1
    <2>2. ASSUME NEW p \in 2 + a .. 1 + a + b
          PROVE  table[p] \in inputs \cap FlagNames /\ table[p] # Epsilon
      <3>1. table[p] = B[p - 1 - a] /\ p - 1 - a \in 1 .. b
        BY <1>1, <1>6
      <3> QED
        BY <1>3, <3>1
    <2>3. ASSUME NEW p \in 2 + a + b .. 1 + a + b + c
          PROVE  table[p] \in outputs \ inputs /\ table[p] # Epsilon
      <3>1. table[p] = C[p - 1 - a - b] /\ p - 1 - a - b \in 1 .. c
        BY <1>1, <1>7
      <3> QED
        BY <1>4, <3>1
    <2> QED
      BY <2>1, <2>2, <2>3
  <1>9. \A p \in 1 .. N : \/ p = 1
                          \/ p \in 2 .. 1 + a
                          \/ p \in 2 + a .. 1 + a + b
                          \/ p \in 2 + a + b .. 1 + a + b + c
    BY <1>1
  <1>10. ASSUME NEW p \in 1 .. N, NEW q \in 1 .. N, table[p] = table[q]
         PROVE  p = q
    <2>1. CASE p = 1
      BY <1>1, <1>8, <1>9, <1>10, <2>1
    <2>2. CASE p \in 2 .. 1 + a
      <3>1. q \in 2 .. 1 + a
        <4>1. table[p] \in inputs /\ table[p] \notin FlagNames /\ table[p] # Epsilon
          BY <1>8, <2>2
        <4> QED
          BY <1>1, <1>8, <1>9, <1>10, <4>1
      <3>2. A[p - 1] = A[q - 1]
        BY <1>1, <1>10, <2>2, <3>1
      <3>3. p - 1 = q - 1
        BY <1>2, <1>5, <2>2, <3>1, <3>2
      <3> QED
        BY <3>3
    <2>3. CASE p \in 2 + a .. 1 + a + b
      <3>1. q \in 2 + a .. 1 + a + b
        BY <1>1, <1>8, <1>9, <1>10, <2>3
      <3>2. B[p - 1 - a] = B[q - 1 - a]
        BY <1>1, <1>10, <2>3, <3>1
      <3>3. p - 1 - a = q - 1 - a
        BY <1>3, <1>6, <2>3, <3>1, <3>2
      <3> QED
        BY <1>1, <3>3
    <2>4. CASE p \in 2 + a + b .. 1 + a + b + c
      <3>1. q \in 2 + a + b .. 1 + a + b + c
        BY <1>1, <1>8, <1>9, <1>10, <2>4
      <3>2. C[p - 1 - a - b] = C[q - 1 - a - b]
        BY <1>1, <1>10, <2>4, <3>1
      <3>3. p - 1 - a - b = q - 1 - a - b
        BY <1>4, <1>7, <2>4, <3>1, <3>2
      <3> QED
        BY <1>1, <3>3
    <2> QED
      BY <1>9, <2>1, <2>2, <2>3, <2>4
  <1>11. IsInjective(table)
    <2>1. DOMAIN table = 1 .. N
      BY <1>1 DEF N
    <2> QED
      BY <1>10, <2>1 DEF IsInjective
  <1>12. \A x \in inputs \ FlagNames : \E p \in 1 .. 1 + a : table[p] = x
    <2> SUFFICES ASSUME NEW x \in inputs \ FlagNames
                 PROVE  \E p \in 1 .. 1 + a : table[p] = x
      OBVIOUS
    <2>1. CASE x = Epsilon
      BY <1>1, <2>1
    <2>2. CASE x # Epsilon
      <3>1. PICK k \in 1 .. a : A[k] = x
        BY <1>2, <2>2
      <3>2. k + 1 \in 2 .. 1 + a /\ (k + 1) - 1 = k
        BY <1>1
      <3>3. table[k + 1] = x
        BY <1>1, <3>1, <3>2
      <3> QED
        BY <1>1, <3>2, <3>3
    <2> QED
      BY <2>1, <2>2
  <1>13. \A x \in inputs \cap FlagNames : \E p \in 1 .. N : table[p] = x
    <2> SUFFICES ASSUME NEW x \in inputs \cap FlagNames
                 PROVE  \E p \in 1 .. N : table[p] = x
      OBVIOUS
    <2>1. CASE x = Epsilon
      BY <1>1, <2>1
    <2>2. CASE x # Epsilon
      <3>1. PICK k \in 1 .. b : B[k] = x
        BY <1>3, <2>2
      <3>2. k + a + 1 \in 2 + a .. 1 + a + b /\ (k + a + 1) - 1 - a = k /\ k + a + 1 \in 1 .. N
        BY <1>1
      <3>3. table[k + a + 1] = x
        BY <1>1, <3>1, <3>2
      <3> QED
        BY <3>2, <3>3
    <2> QED
      BY <2>1, <2>2
  <1>14. \A x \in outputs \ inputs : \E p \in 1 .. N : table[p] = x
    <2> SUFFICES ASSUME NEW x \in outputs \ inputs
                 PROVE  \E p \in 1 .. N : table[p] = x
      OBVIOUS
    <2>1. CASE x = Epsilon
      BY <1>1, <2>1
    <2>2. CASE x # Epsilon
      <3>1. PICK k \in 1 .. c : C[k] = x
        BY <1>4, <2>2
      <3>2. /\ k + a + b + 1 \in 2 + a + b .. 1 + a + b + c /\ (k + a + b + 1) - 1 - a - b = k
            /\ k + a + b + 1 \in 1 .. N
        BY <1>1
      <3>3. table[k + a + b + 1] = x
        BY <1>1, <3>1, <3>2
      <3> QED
        BY <3>2, <3>3
    <2> QED
      BY <2>1, <2>2
  <1>15. \A x \in inputs \cup outputs : \E p \in 1 .. N : table[p] = x
    <2> SUFFICES ASSUME NEW x \in inputs \cup outputs
                 PROVE  \E p \in 1 .. N : table[p] = x
      OBVIOUS
    <2>1. CASE x \in inputs \ FlagNames
      <3>1. PICK p \in 1 .. 1 + a : table[p] = x
        BY <1>12, <2>1
      <3>2. p \in 1 .. N
        BY <1>1
      <3> QED
        BY <3>1, <3>2
    <2> QED
      BY <1>13, <1>14, <2>1
  <1>16. \A p \in 2 .. N : table[p] # Epsilon
    <2> SUFFICES ASSUME NEW p \in 2 .. N
                 PROVE  table[p] # Epsilon
      OBVIOUS
    <2>1. p \in 1 .. N /\ p # 1
      BY <1>1
    <2> QED
      BY <1>8, <1>9, <2>1
  <1>17. 1 + a <= N
    BY <1>1
  <1> QED
    BY <1>1, <1>8, <1>11, <1>12, <1>15, <1>16, <1>17 DEF N, NumbersNames
-----------------------------------------------------------------------------
(* first_transition adds up the states before: the recursion has a solution, *)
(* so it is what the recursive definition denotes.                           *)
LEMMA FirstTransitions ==
    ASSUME NEW N \in Nat \ {0}, NEW T, NEW arcs \in [0 .. N - 1 -> Seq(T)]
    PROVE  /\ FirstTransition(arcs) \in [0 .. N - 1 -> Nat]
           /\ FirstTransition(arcs)[0] = 0
           /\ \A s \in 1 .. N - 1 :
                FirstTransition(arcs)[s] = FirstTransition(arcs)[s - 1] + 1 + Len(arcs[s - 1])
  <1> DEFINE G(f) == [s \in 0 .. N - 1 |-> IF s = 0 THEN 0 ELSE f[s - 1] + 1 + Len(arcs[s - 1])]
             F == FirstTransition(arcs)
             add(n, v) == v + 1 + Len(arcs[n - 1])
             step == [n \in 1 .. N - 1 |-> [v \in Nat |-> add(n, v)]]
  <1>1. \A s \in 0 .. N - 1 : Len(arcs[s]) \in Nat
    OBVIOUS
  <1>2. N - 1 \in Nat /\ \A n \in 1 .. N - 1 : n - 1 \in 0 .. N - 1
    OBVIOUS
  <1>3. step \in [1 .. N - 1 -> [Nat -> Nat]]
    <2>1. \A n \in 1 .. N - 1 : Len(arcs[n - 1]) \in Nat
      BY <1>1, <1>2
    <2>2. ASSUME NEW n \in 1 .. N - 1, NEW v \in Nat PROVE add(n, v) \in Nat
      <3> DEFINE l == Len(arcs[n - 1])
      <3>1. l \in Nat
        BY <2>1
      <3> HIDE DEF l
      <3>2. v + 1 + l \in Nat
        BY <3>1
      <3> QED
        BY <3>2 DEF l
    <2> HIDE DEF add
    <2> QED
      BY <2>2
  <1>4. \A n \in 1 .. N - 1 : \A v \in Nat : step[n][v] = v + 1 + Len(arcs[n - 1])
    OBVIOUS
  <1> HIDE DEF step
  <1>5. PICK f \in [0 .. N - 1 -> Nat] : f[0] = 0 /\ \A n \in 1 .. N - 1 : f[n] = step[n][f[n - 1]]
    <2> DEFINE M == N - 1
               V == Nat
               v0 == 0
    <2>1. M \in Nat /\ Steps(M, V, step) /\ v0 \in V
      BY <1>2, <1>3 DEF Steps
    <2> HIDE DEF M, V, v0
    <2>2. Solution(M, V, v0, step)
      BY <2>1, Recursion
    <2> QED
      BY <2>2 DEF M, V, v0, Solution
  <1>6. \A s \in 0 .. N - 1 : f[s] = IF s = 0 THEN 0 ELSE f[s - 1] + 1 + Len(arcs[s - 1])
    <2>1. \A s \in 1 .. N - 1 : f[s - 1] \in Nat
      BY <1>2, <1>5
    <2>2. \A s \in 1 .. N - 1 : f[s] = f[s - 1] + 1 + Len(arcs[s - 1])
      BY <1>4, <1>5, <2>1
    <2>3. \A s \in 0 .. N - 1 : s = 0 \/ s \in 1 .. N - 1
      OBVIOUS
    <2> QED
      BY <1>5, <2>2, <2>3
  <1>7. f = G(f)
    <2>1. f = [s \in 0 .. N - 1 |-> f[s]]
      OBVIOUS
    <2> QED
      BY <1>6, <2>1
  <1>8. F = CHOOSE g : g = G(g)
    BY DEF FirstTransition
  <1>9. F = G(F)
    <2> HIDE DEF G, F
    <2> QED
      BY <1>7, <1>8
  <1>10. /\ F[0] = 0
         /\ \A s \in 1 .. N - 1 : F[s] = F[s - 1] + 1 + Len(arcs[s - 1])
    <2> HIDE DEF F
    <2> QED
      BY <1>2, <1>9
  <1>11. \A s \in 0 .. N - 1 : F[s] = f[s]
    <2> DEFINE bad == {s \in 0 .. N - 1 : F[s] # f[s]}
    <2> HIDE DEF F
    <2>1. SUFFICES ASSUME bad # {} PROVE FALSE
      OBVIOUS
    <2>2. PICK s \in bad : \A r \in bad : s <= r
      <3>1. bad \subseteq Nat
        OBVIOUS
      <3> HIDE DEF bad
      <3> QED
        BY <2>1, <3>1, LeastNumber
    <2>3. s # 0
      BY <1>5, <1>10
    <2>4. s \in 1 .. N - 1 /\ s - 1 \in 0 .. N - 1 /\ s - 1 \notin bad
      BY <2>2, <2>3
    <2> QED
      BY <1>6, <1>10, <2>3, <2>4
  <1>12. DOMAIN F = 0 .. N - 1
    <2> HIDE DEF F
    <2> QED
      BY <1>9
  <1>13. F \in [0 .. N - 1 -> Nat]
    <2> HIDE DEF F
    <2>1. F = [s \in 0 .. N - 1 |-> F[s]]
      BY <1>9
    <2> QED
      BY <1>5, <1>11, <2>1
  <1> QED
    BY <1>10, <1>13

(* A list taken out along a monotone renumbering is the same list. *)
LEMMA AscendingImage ==
    ASSUME NEW I, NEW J, IsFiniteSet(I), I \subseteq Int, J \subseteq Int,
           NEW f \in Bijection(I, J), \A i, j \in I : i < j => f[i] < f[j]
    PROVE  /\ IsFiniteSet(J) /\ Cardinality(J) = Cardinality(I)
           /\ \A k \in 1 .. Cardinality(I) : /\ Ascending(I)[k] \in I
                                             /\ f[Ascending(I)[k]] = Ascending(J)[k]
  <1> DEFINE n == Cardinality(I)
             a == Ascending(I)
             g == [k \in 1 .. n |-> f[a[k]]]
  <1>1. f \in [I -> J] /\ f \in Surjection(I, J)
    BY DEF Bijection, Injection, Surjection
  <1>2. IsFiniteSet(J) /\ Cardinality(J) = n
    <2>1. ExistsBijection(I, J)
      BY DEF ExistsBijection
    <2> QED
      BY <2>1, FS_Bijection
  <1>3. /\ n \in Nat /\ a \in [1 .. n -> I]
        /\ \A i, j \in 1 .. n : i < j => a[i] < a[j]
    BY AscendingLists
  <1> HIDE DEF a, n
  <1>4. g \in [1 .. n -> J]
    BY <1>1, <1>3
  <1>5. \A i, j \in 1 .. n : i < j => g[i] < g[j]
    BY <1>1, <1>3
  <1>6. g = Ascending(J)
    <2> HIDE DEF g
    <2> QED
      BY <1>2, <1>4, <1>5, AscendingUnique
  <1> QED
    BY <1>2, <1>3, <1>6 DEF n, a

\* The m entries behind the first ones have symbols in S, and the next one not.
RunIs(table, from, m, S) ==
    /\ \A k \in 1 .. m : table[from + k].input \in S
    /\ table[from + m + 1].input \notin S

Extract(r, table, from, m, T) ==
    r \in Seq(T) /\ Len(r) = m /\ \A k \in 1 .. m : r[k] = table[from + k]

(* Reading: the run of entries with symbols in S that starts at address i. *)
LEMMA RunRead ==
    ASSUME NEW T, NEW table \in Seq(T), Len(table) <= TRANSITION_TARGET_TABLE_START,
           NEW i, NEW from \in Nat, TableAddress(i) = from,
           NEW m \in Nat, from + m < Len(table), NEW S, RunIs(table, from, m, S)
    PROVE  Extract(Run(table, i, S), table, from, m, T)
  <1> DEFINE L == Len(table)
             K == {k \in from .. L : k = L \/ At(table, k).input \notin S}
             stop == from + m
  <1>1. L \in Nat /\ TRANSITION_TARGET_TABLE_START \in Nat
    BY ConstantsAssumption
  <1>2. \A k \in from .. L - 1 : At(table, k) = table[k + 1]
    BY <1>1 DEF At, TableAddress, IndexesTransitionTable
  <1>3. stop \in K
    <2>1. stop \in from .. L - 1 /\ stop \in from .. L
      BY <1>1
    <2> QED
      BY <1>2, <2>1 DEF RunIs
  <1>4. \A k \in K : stop <= k
    <2> SUFFICES ASSUME NEW k \in K, k < stop PROVE FALSE
      BY <1>1
    <2>1. k \in from .. L - 1 /\ k - from + 1 \in 1 .. m /\ from + (k - from + 1) = k + 1
      BY <1>1
    <2>2. At(table, k).input \in S
      BY <1>2, <2>1 DEF RunIs
    <2> QED
      BY <1>1, <2>1, <2>2
  <1>5. Min(K) = stop
    <2>1. \A x \in K : x \in Int
      BY <1>1
    <2> HIDE DEF K
    <2>2. \A x \in K : (\A y \in K : x <= y) => x = stop
      BY <1>3, <1>4, <2>1
    <2> QED
      BY <1>3, <1>4, <2>2 DEF Min
  <1>6. Run(table, i, S) = SubSeq(table, from + 1, stop)
    BY <1>5 DEF Run
  <1> DEFINE b == from + 1
             r == SubSeq(table, b, stop)
  <1>7. b \in Int /\ stop \in Int /\ \A k \in b .. stop : table[k] \in T
    BY <1>1
  <1>8. /\ stop - b + 1 = m
        /\ (IF b <= stop THEN stop - b + 1 ELSE 0) = m
        /\ \A k \in 1 .. m : b + k - 1 = from + k
    OBVIOUS
  <1> HIDE DEF b, stop
  <1>9. /\ r \in Seq(T)
        /\ Len(r) = IF b <= stop THEN stop - b + 1 ELSE 0
        /\ \A k \in 1 .. stop - b + 1 : r[k] = table[b + k - 1]
    BY <1>7, SubSeqProperties
  <1>10. Run(table, i, S) = r
    BY <1>6 DEF b
  <1> HIDE DEF r
  <1> QED
    BY <1>8, <1>9, <1>10 DEF Extract

-----------------------------------------------------------------------------
(* Packing.                                                                 *)

\* The inductive invariant: types, ownership of the index table positions, and
\* that nothing is packed before the states are numbered (ownership is stated
\* with the numbers, which change in that step).
IndexInv ==
    /\ TypeOK
    /\ IndexOwnership
    /\ pc = "symbols" => DOMAIN start_index = {} /\ DOMAIN used_indices = {}

-----------------------------------------------------------------------------
(* string_symbol_map gives every name a number. *)
LEMMA SymbolNumberType ==
    ASSUME NEW table, NEW x
    PROVE  SymbolNumberOf(table, x) \in Nat
  BY DEF SymbolNumberOf

(* The offsets of a state's index entries are natural numbers. *)
LEMMA OffsetsType ==
    ASSUME TypeOK, pc # "symbols", NEW s \in States(graph)
    PROVE  StateOffsets(s) \subseteq Nat
  <1>1. placeholders[s] \in Seq(NumberedArc)
    BY DEF TypeOK
  <1>2. \A k \in DOMAIN placeholders[s] : placeholders[s][k] \in NumberedArc
    BY <1>1
  <1>3. \A k \in DOMAIN placeholders[s] : placeholders[s][k].input \in Nat
    BY <1>2 DEF NumberedArc
  <1> QED
    BY <1>3 DEF StateOffsets, Offsets, Inputs, IndexOffset

(* The second pass of get_states_and_symbols describes every state. *)
LEMMA NumberedArcsType ==
    ASSUME NEW g \in Graphs, NEW table
    PROVE  NumberedArcs(g, table) \in [States(g) -> Seq(NumberedArc)]
  <1>1. g.arcs \in [States(g) -> Seq(Arc)]
    BY GraphsAssumption
  <1> SUFFICES ASSUME NEW s \in States(g)
               PROVE  [k \in 1 .. Len(g.arcs[s]) |->
                        [input  |-> SymbolNumberOf(table, g.arcs[s][k].in),
                         output |-> SymbolNumberOf(table, g.arcs[s][k].out),
                         target |-> g.arcs[s][k].target,
                         weight |-> g.arcs[s][k].weight]] \in Seq(NumberedArc)
    BY DEF NumberedArcs
  <1>2. Len(g.arcs[s]) \in Nat /\ \A k \in 1 .. Len(g.arcs[s]) : g.arcs[s][k] \in Arc
    BY <1>1
  <1>3. \A k \in 1 .. Len(g.arcs[s]) :
          [input  |-> SymbolNumberOf(table, g.arcs[s][k].in),
           output |-> SymbolNumberOf(table, g.arcs[s][k].out),
           target |-> g.arcs[s][k].target,
           weight |-> g.arcs[s][k].weight] \in NumberedArc
    BY <1>2, SymbolNumberType DEF Arc, NumberedArc
  <1> QED
    BY <1>2, <1>3

-----------------------------------------------------------------------------
LEMMA InitIndexInv == Init => IndexInv
  BY GraphsAssumption DEF Init, IndexInv, TypeOK, IndexOwnership, States

(* Numbering the symbols. *)
LEMMA SymbolsStep == IndexInv /\ GetStatesAndSymbols => IndexInv'
  <1> SUFFICES ASSUME IndexInv, GetStatesAndSymbols
               PROVE  IndexInv'
    OBVIOUS
  <1> USE DEF IndexInv, GetStatesAndSymbols, inputVars, packVars, tableVars
  <1>1. \A table : NumberedArcs(graph, table) \in [States(graph) -> Seq(NumberedArc)]
    BY NumberedArcsType DEF TypeOK
  <1>2. placeholders' \in [States(graph) -> Seq(NumberedArc)]
    BY <1>1
  <1>3. \A S : CollectSeenInputs(S) \in Nat
    <2>1. \A S : Len(InOrder(S)) \in Nat
      <3> SUFFICES ASSUME NEW S PROVE Len(InOrder(S)) \in Nat
        OBVIOUS
      <3>1. InOrder(S) \in Seq(STRING)
        BY InOrderNames
      <3> QED
        BY <3>1, LenProperties
    <2> QED
      BY <2>1 DEF CollectSeenInputs
  <1>4. \A table, S : NumbersOf(table, S) \subseteq Nat
    BY DEF NumbersOf
  <1>5. TypeOK'
    <2>1. flag_symbols' \in SUBSET Nat /\ seen_input_symbols' \in Nat /\ pc' = "pack"
      BY <1>3, <1>4
    <2>2. UNCHANGED << graph, harmonizer, it, start_index, used_indices, first_available_index,
                       previous_first_index, floor_stuck_counter >>
      OBVIOUS
    <2> QED
      BY <1>2, <2>1, <2>2 DEF TypeOK, States
  <1>6. IndexOwnership'
    BY DEF IndexOwnership
  <1> QED
    BY <1>5, <1>6

(* Placing one state: its marker and entries go to free positions only, so   *)
(* they take nothing from the states packed before.                          *)
LEMMA PackStep == IndexInv /\ PackState => IndexInv'
  <1> SUFFICES ASSUME IndexInv, PackState
               PROVE  IndexInv'
    OBVIOUS
  <1>1. /\ pc = "pack" /\ pc' = "pack" /\ it \in Nat /\ it < graph.size /\ it' = it + 1
        /\ graph.size \in Nat \ {0}
        /\ UNCHANGED << graph, harmonizer, seen_input_symbols, flag_symbols, placeholders >>
    BY GraphsAssumption DEF IndexInv, TypeOK, PackState, inputVars, symbolVars
  <1>2. PICK i \in first_available_index .. first_available_index + Beyond(used_indices) :
          /\ Fits(it, i)
          /\ start_index' = [s \in DOMAIN start_index \cup {it} |->
                               IF s = it THEN i ELSE start_index[s]]
          /\ used_indices' = Assign(it, i)
          /\ AdvanceFloor(used_indices', i)
    BY DEF PackState
  <1>3. i \in Nat /\ first_available_index \in Nat
    BY <1>2 DEF IndexInv, TypeOK
  <1>4. StateOffsets(it) \subseteq Nat
    BY <1>1, OffsetsType DEF IndexInv, States
  <1>5. /\ first_available_index' \in Nat
        /\ previous_first_index' \in Nat
        /\ floor_stuck_counter' \in Nat
    BY <1>2, <1>3 DEF AdvanceFloor, FloorJump, IndexInv, TypeOK
  <1>6. \A s \in DOMAIN start_index : s \in 0 .. it - 1 /\ s # it
    BY <1>1 DEF IndexInv, TypeOK
  <1>7. Slots(it, i) \subseteq Nat /\ i \in Slots(it, i)
    BY <1>3, <1>4 DEF Slots
  <1>8. \A p \in Slots(it, i) : p = i \/ (p # i /\ p - i - 1 \in StateOffsets(it))
    BY <1>3, <1>4 DEF Slots
  <1>9. TypeOK'
    <2>1. /\ DOMAIN used_indices' = DOMAIN used_indices \cup Slots(it, i)
          /\ \A p \in DOMAIN used_indices' :
               used_indices'[p] = IF p \notin Slots(it, i) THEN used_indices[p]
                 ELSE << it, IF p = i THEN NO_SYMBOL_NUMBER ELSE p - i - 1 >>
      BY <1>2 DEF Assign
    <2>2. \A p \in DOMAIN used_indices' : used_indices'[p] \in Nat \X Nat
      <3> SUFFICES ASSUME NEW p \in DOMAIN used_indices'
                   PROVE  used_indices'[p] \in Nat \X Nat
        OBVIOUS
      <3>1. CASE p \notin Slots(it, i)
        <4>1. p \in DOMAIN used_indices /\ used_indices'[p] = used_indices[p]
          BY <3>1, <2>1
        <4> QED
          BY <4>1 DEF IndexInv, TypeOK
      <3>2. CASE p = i
        <4>1. used_indices'[p] = << it, NO_SYMBOL_NUMBER >>
          BY <3>2, <2>1, <1>7
        <4> QED
          BY <4>1, <1>1, ConstantsAssumption
      <3>3. CASE p \in Slots(it, i) /\ p # i
        <4>1. used_indices'[p] = << it, p - i - 1 >>
          BY <3>3, <2>1
        <4>2. p - i - 1 \in Nat
          BY <3>3, <1>4, <1>8
        <4> QED
          BY <4>1, <4>2, <1>1
      <3> QED
        BY <3>1, <3>2, <3>3
    <2>3. used_indices' \in [DOMAIN used_indices' -> Nat \X Nat] /\ DOMAIN used_indices' \subseteq Nat
      BY <2>1, <2>2, <1>2, <1>7 DEF Assign, IndexInv, TypeOK
    <2>4. /\ DOMAIN start_index' \subseteq 0 .. it' - 1
          /\ start_index' \in [DOMAIN start_index' -> Nat]
      BY <1>1, <1>2, <1>3, <1>6 DEF IndexInv, TypeOK
    <2> QED
      BY <1>1, <1>5, <2>3, <2>4 DEF IndexInv, TypeOK, States
  <1>10. \A s : StateOffsets(s)' = StateOffsets(s)
    BY <1>1 DEF StateOffsets
  <1>11. IndexOwnership'
    <2>1. /\ DOMAIN used_indices' = DOMAIN used_indices \cup Slots(it, i)
          /\ \A p \in DOMAIN used_indices \ Slots(it, i) : used_indices'[p] = used_indices[p]
          /\ used_indices'[i] = << it, NO_SYMBOL_NUMBER >>
          /\ \A p \in Slots(it, i) : p # i => used_indices'[p] = << it, p - i - 1 >>
      BY <1>2, <1>7 DEF Assign
    <2>2. DOMAIN used_indices \cap Slots(it, i) = {}
      BY <1>2 DEF Fits
    <2>3. /\ DOMAIN start_index' = DOMAIN start_index \cup {it}
          /\ start_index'[it] = i
          /\ \A s \in DOMAIN start_index : start_index'[s] = start_index[s]
      BY <1>2, <1>6
    <2>4. \A s \in DOMAIN start_index' :
            /\ start_index'[s] \in DOMAIN used_indices'
            /\ used_indices'[start_index'[s]] = << s, NO_SYMBOL_NUMBER >>
            /\ \A o \in StateOffsets(s) :
                 /\ start_index'[s] + o + 1 \in DOMAIN used_indices'
                 /\ used_indices'[start_index'[s] + o + 1] = << s, o >>
      <3> SUFFICES ASSUME NEW s \in DOMAIN start_index'
                   PROVE  /\ start_index'[s] \in DOMAIN used_indices'
                          /\ used_indices'[start_index'[s]] = << s, NO_SYMBOL_NUMBER >>
                          /\ \A o \in StateOffsets(s) :
                               /\ start_index'[s] + o + 1 \in DOMAIN used_indices'
                               /\ used_indices'[start_index'[s] + o + 1] = << s, o >>
        OBVIOUS
      <3>1. CASE s \in DOMAIN start_index
        BY <3>1, <2>1, <2>2, <2>3 DEF IndexInv, IndexOwnership
      <3>2. CASE s = it
        <4>1. \A o \in StateOffsets(it) :
                /\ i + o + 1 \in Slots(it, i)
                /\ i + o + 1 # i
                /\ (i + o + 1) - i - 1 = o
          BY <1>3, <1>4 DEF Slots
        <4> QED
          BY <3>2, <4>1, <2>1, <2>3, <1>7
      <3> QED
        BY <3>1, <3>2, <2>3
    <2>5. \A p \in DOMAIN used_indices' :
            LET s == used_indices'[p][1]
                o == used_indices'[p][2]
            IN  /\ s \in DOMAIN start_index'
                /\ \/ o = NO_SYMBOL_NUMBER /\ p = start_index'[s]
                   \/ o \in StateOffsets(s) /\ p = start_index'[s] + o + 1
      <3> SUFFICES ASSUME NEW p \in DOMAIN used_indices'
                   PROVE  /\ used_indices'[p][1] \in DOMAIN start_index'
                          /\ \/ /\ used_indices'[p][2] = NO_SYMBOL_NUMBER
                                /\ p = start_index'[used_indices'[p][1]]
                             \/ /\ used_indices'[p][2] \in StateOffsets(used_indices'[p][1])
                                /\ p = start_index'[used_indices'[p][1]] + used_indices'[p][2] + 1
        OBVIOUS
      <3>1. CASE p \in Slots(it, i)
        <4>1. CASE p = i
          BY <4>1, <2>1, <2>3
        <4>2. CASE p # i
          <5>1. used_indices'[p] = << it, p - i - 1 >> /\ p - i - 1 \in StateOffsets(it)
            BY <3>1, <4>2, <2>1, <1>8
          <5>2. p = i + (p - i - 1) + 1
            BY <3>1, <1>3, <1>7
          <5> QED
            BY <5>1, <5>2, <2>3
        <4> QED
          BY <4>1, <4>2
      <3>2. CASE p \notin Slots(it, i)
        <4>1. p \in DOMAIN used_indices /\ used_indices'[p] = used_indices[p]
          BY <3>2, <2>1
        <4> QED
          BY <4>1, <2>3 DEF IndexInv, IndexOwnership
      <3> QED
        BY <3>1, <3>2
    <2> QED
      BY <2>4, <2>5, <1>10 DEF IndexOwnership
  <1> QED
    BY <1>1, <1>9, <1>11 DEF IndexInv

(* The other steps change neither what is packed nor the states' numbers.    *)
LEMMA OtherSteps ==
    IndexInv /\ (\/ SkipSimpleState \/ PackingDone \/ WriteIndexTable
                 \/ WriteTransitionTable \/ UNCHANGED vars) => IndexInv'
  <1> SUFFICES ASSUME IndexInv,
                      \/ SkipSimpleState \/ PackingDone \/ WriteIndexTable
                      \/ WriteTransitionTable \/ UNCHANGED vars
               PROVE  IndexInv'
    OBVIOUS
  <1> USE DEF IndexInv, inputVars, symbolVars, packVars, tableVars
  <1>1. /\ UNCHANGED << graph, harmonizer, seen_input_symbols, flag_symbols, placeholders,
                        start_index, used_indices, first_available_index,
                        previous_first_index, floor_stuck_counter >>
        /\ it' \in 0 .. graph.size /\ it' >= it /\ it \in Nat
        /\ pc' = pc \/ (pc # "symbols" /\ pc' # "symbols")
        /\ pc' \in {"symbols", "pack", "index", "transitions", "done"}
    BY GraphsAssumption
       DEF SkipSimpleState, PackingDone, WriteIndexTable, WriteTransitionTable, vars, TypeOK
  <1>2. TypeOK'
    BY <1>1 DEF TypeOK, States
  <1>3. IndexOwnership'
    BY <1>1 DEF IndexOwnership, StateOffsets
  <1> QED
    BY <1>1, <1>2, <1>3

\* Type correctness and ownership of the index positions hold throughout.
THEOREM IndexInvariant == Spec => []IndexInv
  <1>1. IndexInv /\ [Next]_vars => IndexInv'
    BY SymbolsStep, PackStep, OtherSteps DEF Next, Converted
  <1> QED
    BY InitIndexInv, <1>1, PTL DEF Spec

\* The converter's state keeps its types.
THEOREM TypeCorrect == Spec => []TypeOK
  <1>1. IndexInv => TypeOK
    BY DEF IndexInv
  <1> QED
    BY IndexInvariant, <1>1, PTL

\* No two states ever share or overwrite a position of the index table.
THEOREM OwnershipCorrect == Spec => []IndexOwnership
  <1>1. IndexInv => IndexOwnership
    BY DEF IndexInv
  <1> QED
    BY IndexInvariant, <1>1, PTL

(* Ownership is enough for a lookup that compares symbols only: if a state's *)
(* entry for x is found at s's position for x, both states start at the same *)
(* position, whose marker names one state.                                   *)
LEMMA OwnershipGivesNoFalseHit == IndexInv => NoFalseHit
  <1> SUFFICES ASSUME IndexInv,
                      NEW s \in DOMAIN start_index,
                      NEW x \in 0 .. NO_SYMBOL_NUMBER - 1
               PROVE  LET p == start_index[s] + 1 + x
                      IN  /\ (p \in DOMAIN used_indices /\ used_indices[p][2] = x)
                               <=> x \in StateOffsets(s)
                          /\ x \in StateOffsets(s) => used_indices[p][1] = s
    BY DEF NoFalseHit
  <1> DEFINE p == start_index[s] + 1 + x
  <1>1. start_index[s] \in Nat /\ x \in Nat /\ x # NO_SYMBOL_NUMBER
    BY ConstantsAssumption DEF IndexInv, TypeOK
  <1>2. p = start_index[s] + x + 1
    BY <1>1
  <1>3. ASSUME x \in StateOffsets(s)
        PROVE  p \in DOMAIN used_indices /\ used_indices[p] = << s, x >>
    BY <1>2, <1>3 DEF IndexInv, IndexOwnership
  <1>4. ASSUME p \in DOMAIN used_indices, used_indices[p][2] = x
        PROVE  x \in StateOffsets(s)
    <2> DEFINE t == used_indices[p][1]
    <2>1. t \in DOMAIN start_index /\ x \in StateOffsets(t) /\ p = start_index[t] + x + 1
      BY <1>1, <1>4 DEF IndexInv, IndexOwnership
    <2>2. start_index[t] \in Nat
      BY <2>1 DEF IndexInv, TypeOK
    <2>3. start_index[t] = start_index[s]
      BY <1>1, <2>1, <2>2
    <2>4. used_indices[start_index[s]] = << s, NO_SYMBOL_NUMBER >>
          /\ used_indices[start_index[t]] = << t, NO_SYMBOL_NUMBER >>
      BY <2>1 DEF IndexInv, IndexOwnership
    <2>5. t = s
      BY <2>3, <2>4
    <2> QED
      BY <2>1, <2>5
  <1> QED
    BY <1>3, <1>4

\* Looking a symbol up in the packed index table never finds another state's
\* transitions and never misses the state's own.
THEOREM NoFalseHitCorrect == Spec => []NoFalseHit
  BY IndexInvariant, OwnershipGivesNoFalseHit, PTL

\* The floor of the search for start positions only moves up.
THEOREM FloorCorrect == Spec => FloorNeverFalls
  <1>1. IndexInv /\ [Next]_vars => [first_available_index' >= first_available_index]_vars
    <2> SUFFICES ASSUME IndexInv, [Next]_vars
                 PROVE  [first_available_index' >= first_available_index]_vars
      OBVIOUS
    <2>1. first_available_index \in Nat
      BY DEF IndexInv, TypeOK
    <2>2. CASE PackState
      <3>1. PICK i \in first_available_index .. first_available_index + Beyond(used_indices) :
              AdvanceFloor(used_indices', i)
        BY <2>2 DEF PackState
      <3>2. i \in Nat /\ i >= first_available_index
        BY <2>1, <3>1
      <3> QED
        BY <2>1, <3>1, <3>2 DEF AdvanceFloor, FloorJump
    <2>3. CASE ~ PackState
      <3>1. first_available_index' = first_available_index
        BY <2>3 DEF Next, GetStatesAndSymbols, SkipSimpleState, PackingDone, WriteIndexTable,
                    WriteTransitionTable, Converted, vars, packVars
      <3> QED
        BY <2>1, <3>1
    <2> QED
      BY <2>2, <2>3
  <1> QED
    BY IndexInvariant, <1>1, PTL DEF Spec, FloorNeverFalls

-----------------------------------------------------------------------------
(* The size of the index table. *)

\* Every used position is below Beyond, also when the packing is over and the
\* table is written: one entry for each of these positions and one for each
\* input symbol.
TableInv ==
    /\ IndexInv
    /\ IsFiniteSet(DOMAIN used_indices)
    /\ pc \in {"transitions", "done"} =>
         Len(windex_table) = Beyond(used_indices) + seen_input_symbols

LEMMA BeyondAll ==
    ASSUME NEW used, IsFiniteSet(DOMAIN used), DOMAIN used \subseteq Nat
    PROVE  Beyond(used) \in Nat /\ \A p \in DOMAIN used : p < Beyond(used)
  <1> DEFINE D == DOMAIN used
  <1>1. CASE D = {}
    BY <1>1 DEF Beyond
  <1>2. CASE D # {}
    <2>1. \E b \in Nat : \A p \in D : p <= b
      BY FiniteNumbersBounded
    <2>2. \E x \in D : \A y \in D : x >= y
      BY <1>2, <2>1, GreatestNumber
    <2>3. Max(D) \in D /\ \A y \in D : Max(D) >= y
      BY <2>2 DEF Max
    <2>4. Beyond(used) = Max(D) + 1
      BY <1>2 DEF Beyond
    <2> HIDE DEF D
    <2>5. D \subseteq Nat
      BY DEF D
    <2> QED
      BY <2>3, <2>4, <2>5 DEF D
  <1> QED
    BY <1>1, <1>2

(* A state has finitely many offsets, so it takes finitely many positions. *)
LEMMA SlotsFinite ==
    ASSUME TypeOK, pc # "symbols", NEW s \in States(graph), NEW i \in Nat
    PROVE  IsFiniteSet(Slots(s, i))
  <1> DEFINE arcs == placeholders[s]
             f == [k \in DOMAIN arcs |-> i + IndexOffset(arcs[k].input, flag_symbols) + 1]
             T == {i + o + 1 : o \in StateOffsets(s)}
  <1>1. arcs \in Seq(NumberedArc)
    BY DEF TypeOK
  <1>2. DOMAIN arcs = 1 .. Len(arcs) /\ Len(arcs) \in Nat
    BY <1>1
  <1>3. IsFiniteSet(DOMAIN arcs)
    <2> DEFINE n == Len(arcs)
    <2>1. n \in Nat /\ DOMAIN arcs = 1 .. n
      BY <1>2
    <2> HIDE DEF n
    <2>2. IsFiniteSet(1 .. n)
      BY <2>1, IntervalSize
    <2> QED
      BY <2>1, <2>2
  <1>4. f \in Surjection(DOMAIN arcs, T)
    BY DEF Surjection, StateOffsets, Offsets, Inputs
  <1> HIDE DEF f, T
  <1>5. IsFiniteSet(T)
    BY <1>3, <1>4, FS_Surjection
  <1>6. Slots(s, i) = T \cup {i}
    BY DEF Slots, T
  <1> QED
    BY <1>5, <1>6, FS_AddElement

LEMMA InitTable == Init => TableInv
  <1> SUFFICES ASSUME Init
               PROVE  TableInv
    OBVIOUS
  <1>1. IsFiniteSet(DOMAIN used_indices)
    BY FS_EmptySet DEF Init
  <1> QED
    BY <1>1, InitIndexInv DEF Init, TableInv

LEMMA TableStep == TableInv /\ [Next]_vars => TableInv'
  <1> SUFFICES ASSUME TableInv, [Next]_vars
               PROVE  TableInv'
    OBVIOUS
  <1> USE DEF inputVars, symbolVars, packVars, tableVars
  <1>1. IndexInv /\ IndexInv'
    BY SymbolsStep, PackStep, OtherSteps DEF TableInv, Next, Converted
  <1>2. IsFiniteSet(DOMAIN used_indices)'
    <2>1. CASE PackState
      <3>1. PICK i \in first_available_index .. first_available_index + Beyond(used_indices) :
              used_indices' = Assign(it, i)
        BY <2>1 DEF PackState
      <3>2. i \in Nat /\ it \in States(graph) /\ pc # "symbols"
        BY <1>1, <2>1, <3>1, GraphsAssumption DEF IndexInv, TypeOK, PackState, States
      <3>3. IsFiniteSet(Slots(it, i))
        BY <1>1, <3>2, SlotsFinite DEF IndexInv
      <3>4. DOMAIN used_indices' = DOMAIN used_indices \cup Slots(it, i)
        BY <3>1 DEF Assign
      <3> QED
        BY <3>3, <3>4, FS_Union DEF TableInv
    <2>2. CASE ~PackState
      <3>1. used_indices' = used_indices
        BY <2>2 DEF Next, GetStatesAndSymbols, SkipSimpleState, PackingDone, WriteIndexTable,
                    WriteTransitionTable, Converted, vars
      <3> QED
        BY <3>1 DEF TableInv
    <2> QED
      BY <2>1, <2>2
  <1>3. (pc \in {"transitions", "done"} =>
          Len(windex_table) = Beyond(used_indices) + seen_input_symbols)'
    <2>1. CASE WriteIndexTable
      <3> DEFINE n == Beyond(used_indices) + seen_input_symbols
                 entry(p) == IF p <= Beyond(used_indices) THEN IndexTableEntry(p - 1) ELSE BlankIndex
      <3>1. n \in Nat
        <4>1. Beyond(used_indices) \in Nat
          BY <1>1, BeyondAll DEF TableInv, IndexInv, TypeOK
        <4> QED
          BY <1>1, <4>1 DEF IndexInv, TypeOK
      <3>2. windex_table' = [p \in 1 .. n |-> entry(p)]
        BY <2>1 DEF WriteIndexTable
      <3> HIDE DEF n, entry
      <3>3. Len(windex_table') = n
        BY <3>1, <3>2
      <3>4. UNCHANGED << used_indices, seen_input_symbols >>
        BY <2>1 DEF WriteIndexTable
      <3> QED
        BY <3>3, <3>4 DEF n, Beyond
    <2>2. CASE WriteTransitionTable \/ Converted \/ UNCHANGED vars
      <3>1. /\ UNCHANGED << used_indices, seen_input_symbols, windex_table >>
            /\ pc' = pc \/ pc = "transitions"
        BY <2>2 DEF WriteTransitionTable, Converted, vars
      <3> QED
        BY <3>1 DEF TableInv, Beyond
    <2>3. CASE GetStatesAndSymbols \/ SkipSimpleState \/ PackState \/ PackingDone
      BY <2>3 DEF GetStatesAndSymbols, SkipSimpleState, PackState, PackingDone
    <2> QED
      BY <2>1, <2>2, <2>3 DEF Next
  <1> QED
    BY <1>1, <1>2, <1>3 DEF TableInv

\* The padding of the index table is long enough: whatever states were packed
\* and wherever, a lookup at a packed state reads inside the table for every
\* symbol that the input encoder can return.
THEOREM LookupReadsInTableCorrect == Spec => []LookupReadsInTable
  <1>1. ASSUME TableInv, pc = "done",
               NEW s \in DOMAIN start_index, NEW x \in 0 .. seen_input_symbols - 1
        PROVE  start_index[s] + 1 + x < Len(windex_table)
    <2>1. /\ start_index[s] \in Nat /\ start_index[s] \in DOMAIN used_indices
          /\ seen_input_symbols \in Nat
      BY <1>1 DEF TableInv, IndexInv, TypeOK, IndexOwnership
    <2>2. Beyond(used_indices) \in Nat /\ start_index[s] < Beyond(used_indices)
      BY <1>1, <2>1, BeyondAll DEF TableInv, IndexInv, TypeOK
    <2>3. Len(windex_table) = Beyond(used_indices) + seen_input_symbols
      BY <1>1 DEF TableInv
    <2> QED
      BY <2>1, <2>2, <2>3
  <1>2. TableInv => LookupReadsInTable
    BY <1>1 DEF LookupReadsInTable
  <1> QED
    BY <1>2, InitTable, TableStep, PTL DEF Spec

-----------------------------------------------------------------------------
(* The numbering of the symbols. *)

InputsUsed == IF harmonizer = {} THEN InputNames(graph) ELSE UNION harmonizer

OutputsUsed == IF harmonizer = {} THEN OutputNames(graph) ELSE UNION harmonizer

\* Once the symbols are numbered, nothing changes the numbers.
NumberingKept ==
    pc # "symbols" =>
      /\ symbol_table = CollectSymbols(InputsUsed, OutputsUsed)
      /\ seen_input_symbols = CollectSeenInputs(InputsUsed)
      /\ flag_symbols = NumbersOf(symbol_table, InputsUsed \cap FlagNames)
      /\ placeholders = NumberedArcs(graph, symbol_table)

LEMMA NumberingStep == NumberingKept /\ [Next]_vars => NumberingKept'
  <1> SUFFICES ASSUME NumberingKept, [Next]_vars
               PROVE  NumberingKept'
    OBVIOUS
  <1> USE DEF inputVars, symbolVars, packVars, tableVars
  <1>1. CASE GetStatesAndSymbols
    BY <1>1 DEF GetStatesAndSymbols, NumberingKept, InputsUsed, OutputsUsed
  <1>2. CASE ~ GetStatesAndSymbols
    <2>1. /\ UNCHANGED << graph, harmonizer, symbol_table, seen_input_symbols, flag_symbols, placeholders >>
          /\ pc' # "symbols" => pc # "symbols"
      BY <1>2 DEF Next, SkipSimpleState, PackState, PackingDone, WriteIndexTable,
                  WriteTransitionTable, Converted, vars
    <2> QED
      BY <2>1 DEF NumberingKept, InputsUsed, OutputsUsed
  <1> QED
    BY <1>1, <1>2

(* The names of the transitions are among those that are numbered. *)
LEMMA NamesUsed ==
    ASSUME TypeOK
    PROVE  /\ InputsUsed \cup OutputsUsed \subseteq AllNames \cup {Epsilon}
           /\ InputNames(graph) \subseteq InputsUsed \cup {Epsilon}
           /\ OutputNames(graph) \subseteq InputsUsed \cup OutputsUsed \cup {Epsilon}
           /\ \A s \in States(graph) : \A k \in DOMAIN graph.arcs[s] :
                /\ graph.arcs[s][k].in \in InputsUsed \cup {Epsilon}
                /\ graph.arcs[s][k].out \in InputsUsed \cup OutputsUsed \cup {Epsilon}
  <1>1. InputNames(graph) \cup OutputNames(graph) \subseteq AllNames \cup {Epsilon}
    BY GraphsAssumption DEF TypeOK
  <1>2. harmonizer = {} \/ UNION harmonizer = AllNames
    <2>1. harmonizer = {} \/ harmonizer = {AllNames}
      BY DEF TypeOK
    <2> QED
      BY <2>1
  <1>3. /\ InputNames(graph) \subseteq InputsUsed \cup {Epsilon}
        /\ OutputNames(graph) \subseteq InputsUsed \cup OutputsUsed \cup {Epsilon}
        /\ InputsUsed \cup OutputsUsed \subseteq AllNames \cup {Epsilon}
    <2>1. CASE harmonizer = {}
      BY <1>1, <2>1 DEF InputsUsed, OutputsUsed
    <2>2. CASE harmonizer # {}
      <3>1. InputsUsed = AllNames /\ OutputsUsed = AllNames
        BY <1>2, <2>2 DEF InputsUsed, OutputsUsed
      <3> QED
        BY <1>1, <3>1
    <2> QED
      BY <2>1, <2>2
  <1>4. \A s \in States(graph) : \A k \in DOMAIN graph.arcs[s] :
          graph.arcs[s][k].in \in InputNames(graph) /\ graph.arcs[s][k].out \in OutputNames(graph)
    BY DEF InputNames, OutputNames
  <1> QED
    BY <1>3, <1>4

\* What the other proofs need of the numbers: they are below the counts that
\* the encoder and the tables use, and epsilon is no flag.
NumbersBounded ==
    /\ symbol_table \in Seq(STRING)
    /\ Len(symbol_table) <= NO_SYMBOL_NUMBER
    /\ seen_input_symbols \in 1 .. Len(symbol_table)
    /\ 0 \notin flag_symbols
    /\ \A s \in States(graph) : \A k \in DOMAIN placeholders[s] :
         /\ placeholders[s][k].input \in 0 .. Len(symbol_table) - 1
         /\ placeholders[s][k].target \in States(graph)

LEMMA NumberingFacts ==
    ASSUME TypeOK, NumberingKept, pc # "symbols"
    PROVE  SymbolsInOrder /\ NumbersBounded
  <1> DEFINE inputs == InputsUsed
             outputs == OutputsUsed
             table == symbol_table
             a == Len(InOrder(inputs \ FlagNames))
  <1>1. /\ table = CollectSymbols(inputs, outputs)
        /\ seen_input_symbols = 1 + a
        /\ flag_symbols = NumbersOf(table, inputs \cap FlagNames)
        /\ placeholders = NumberedArcs(graph, table)
    BY DEF NumberingKept, CollectSeenInputs
  <1>2. /\ inputs \cup outputs \subseteq AllNames \cup {Epsilon}
        /\ InputNames(graph) \subseteq inputs \cup {Epsilon}
        /\ OutputNames(graph) \subseteq inputs \cup outputs \cup {Epsilon}
        /\ \A s \in States(graph) : \A k \in DOMAIN graph.arcs[s] :
             /\ graph.arcs[s][k].in \in inputs \cup {Epsilon}
    BY NamesUsed
  <1> HIDE DEF inputs, outputs, a
  <1>3. /\ a \in Nat /\ table \in Seq(STRING) /\ 1 + a <= Len(table)
        /\ IsInjective(table)
        /\ \A x \in inputs \cup outputs : \E p \in 1 .. Len(table) : table[p] = x
        /\ \A p \in 2 .. 1 + a : table[p] \in inputs \ FlagNames
        /\ \A x \in inputs \ FlagNames : \E p \in 1 .. 1 + a : table[p] = x
        /\ \A p \in 2 .. Len(table) : table[p] # Epsilon
    <2>1. table = CollectSymbols(inputs, outputs) /\ a = Len(InOrder(inputs \ FlagNames))
      BY <1>1 DEF a
    <2>2. inputs \cup outputs \subseteq AllNames \cup {Epsilon}
      BY <1>2
    <2> HIDE DEF table
    <2>3. NumbersNames(table, a, inputs, outputs)
      BY <2>1, <2>2, NumberedNames
    <2> QED
      BY <2>3 DEF NumbersNames
  <1>4. table[1] = Epsilon /\ Len(table) <= NO_SYMBOL_NUMBER
    <2>1. table[1] = Epsilon /\ Len(table) <= Len(SymbolOrder) + 1
      BY <1>1, SymbolTable
    <2>2. Len(SymbolOrder) \in Nat /\ Len(SymbolOrder) < NO_SYMBOL_NUMBER /\ NO_SYMBOL_NUMBER \in Nat
      BY ConstantsAssumption
    <2>3. Len(table) \in Nat
      BY <1>3
    <2> QED
      BY <2>1, <2>2, <2>3
  <1>5. DOMAIN table = 1 .. Len(table) /\ Len(table) \in Nat
    BY <1>3
  <1>6. \A p \in 1 .. Len(table) : SymbolNumberOf(table, table[p]) = p - 1
    BY <1>3, <1>5 DEF SymbolNumberOf, IsInjective
  <1>7. \A p \in 1 .. Len(table) : table[p] \in inputs \cap FlagNames <=> p - 1 \in flag_symbols
    <2>1. flag_symbols = {i - 1 : i \in {j \in 1 .. Len(table) : table[j] \in inputs \cap FlagNames}}
      BY <1>1 DEF NumbersOf
    <2> QED
      BY <1>5, <2>1
  <1>8. 0 \notin flag_symbols
    <2>1. 1 \in 1 .. Len(table) /\ 1 - 1 = 0
      BY <1>3, <1>5
    <2>2. table[1] \notin FlagNames
      BY <1>4, ConstantsAssumption
    <2> QED
      BY <1>7, <2>1, <2>2
  <1>9. \A x \in inputs \cup outputs \cup {Epsilon} : \E p \in 1 .. Len(table) : table[p] = x
    BY <1>3, <1>4, <1>5
  <1>10. ASSUME NEW x \in inputs \cup {Epsilon}
         PROVE  /\ SymbolNumberOf(table, x) \in 0 .. Len(table) - 1
                /\ IndexOffset(SymbolNumberOf(table, x), flag_symbols) \in 0 .. a
    <2>1. CASE x \in inputs \cap FlagNames
      <3>1. PICK p \in 1 .. Len(table) : table[p] = x
        BY <1>9, <2>1
      <3>2. SymbolNumberOf(table, x) = p - 1 /\ p - 1 \in flag_symbols /\ p - 1 \in 0 .. Len(table) - 1
        BY <1>5, <1>6, <1>7, <2>1, <3>1
      <3> QED
        BY <1>3, <3>2 DEF IndexOffset
    <2>2. CASE x \notin inputs \cap FlagNames
      <3>1. PICK p \in 1 .. 1 + a : table[p] = x
        <4>1. 1 \in 1 .. 1 + a
          BY <1>3
        <4> QED
          BY <1>3, <1>4, <2>2, <4>1
      <3>2. p \in 1 .. Len(table) /\ p - 1 \in 0 .. a
        BY <1>3, <1>5
      <3>3. SymbolNumberOf(table, x) = p - 1 /\ p - 1 \notin flag_symbols /\ p - 1 \in 0 .. Len(table) - 1
        BY <1>5, <1>6, <1>7, <2>2, <3>1, <3>2
      <3> QED
        BY <3>2, <3>3 DEF IndexOffset
    <2> QED
      BY <2>1, <2>2
  <1>11. ASSUME NEW s \in States(graph), NEW k \in DOMAIN placeholders[s]
         PROVE  /\ placeholders[s][k].input = SymbolNumberOf(table, graph.arcs[s][k].in)
                /\ placeholders[s][k].target \in States(graph)
                /\ k \in DOMAIN graph.arcs[s]
    <2>1. placeholders[s] = [j \in 1 .. Len(graph.arcs[s]) |->
            [input  |-> SymbolNumberOf(table, graph.arcs[s][j].in),
             output |-> SymbolNumberOf(table, graph.arcs[s][j].out),
             target |-> graph.arcs[s][j].target,
             weight |-> graph.arcs[s][j].weight]]
      BY <1>1 DEF NumberedArcs
    <2>2. k \in 1 .. Len(graph.arcs[s])
      BY <2>1
    <2>3. graph.arcs[s] \in Seq(Arc) /\ \A j \in DOMAIN graph.arcs[s] : graph.arcs[s][j].target \in States(graph)
      BY GraphsAssumption DEF TypeOK
    <2>4. k \in DOMAIN graph.arcs[s]
      BY <2>2, <2>3
    <2>5. placeholders[s][k] =
            [input  |-> SymbolNumberOf(table, graph.arcs[s][k].in),
             output |-> SymbolNumberOf(table, graph.arcs[s][k].out),
             target |-> graph.arcs[s][k].target,
             weight |-> graph.arcs[s][k].weight]
      BY <2>1, <2>2
    <2> QED
      BY <2>3, <2>4, <2>5
  <1>12. NumbersBounded
    <2>1. seen_input_symbols \in 1 .. Len(table)
      BY <1>1, <1>3, <1>5
    <2> QED
      BY <1>2, <1>3, <1>4, <1>8, <1>10, <1>11, <2>1 DEF NumbersBounded
  <1>13. \A s \in States(graph) : Offsets(placeholders[s], flag_symbols) \subseteq 0 .. seen_input_symbols - 1
    <2>1. seen_input_symbols - 1 = a
      BY <1>1, <1>3
    <2>2. \A s \in States(graph) : \A k \in DOMAIN placeholders[s] :
            IndexOffset(placeholders[s][k].input, flag_symbols) \in 0 .. a
      BY <1>2, <1>10, <1>11
    <2> QED
      BY <2>1, <2>2 DEF Offsets, Inputs
  <1>14. \A x \in 1 .. seen_input_symbols - 1 : symbol_table[x + 1] \notin FlagNames
    <2>1. \A x \in 1 .. seen_input_symbols - 1 : x + 1 \in 2 .. 1 + a
      BY <1>1, <1>3
    <2> QED
      BY <1>3, <2>1
  <1>15. InputNames(graph) \cup OutputNames(graph) \subseteq ToSet(symbol_table) \cup {Epsilon}
    <2>1. \A x \in inputs \cup outputs : x \in ToSet(symbol_table)
      BY <1>3, <1>5 DEF ToSet
    <2> QED
      BY <1>2, <2>1
  <1>16. SymbolsInOrder
    BY <1>3, <1>4, <1>13, <1>14, <1>15 DEF SymbolsInOrder
  <1> QED
    BY <1>12, <1>16
\* The numbering of get_states_and_symbols is the one the format asks for, with
\* or without a harmonizer: one number per symbol, the inputs first, and no
\* index offset beyond the count that sizes the padding.
THEOREM SymbolsInOrderCorrect == Spec => []SymbolsInOrder
  <1>1. Init => NumberingKept
    BY DEF Init, NumberingKept
  <1>2. TypeOK /\ NumberingKept => SymbolsInOrder
    <2>1. CASE pc = "symbols"
      BY <2>1 DEF SymbolsInOrder
    <2>2. CASE pc # "symbols"
      BY <2>2, NumberingFacts
    <2> QED
      BY <2>1, <2>2
  <1> QED
    BY <1>1, <1>2, NumberingStep, TypeCorrect, PTL DEF Spec

-----------------------------------------------------------------------------
(* The tables as they are written, and what a reader finds in them.         *)

\* Every address fits: positions of the index table and of the transition table
\* are below the number that tells the two kinds of address apart (2^31).
Addressable ==
    /\ Len(windex_table) <= TRANSITION_TARGET_TABLE_START
    /\ Len(wtransition_table) <= TRANSITION_TARGET_TABLE_START

IndexTable ==
    [p \in 1 .. Beyond(used_indices) + seen_input_symbols |->
      IF p <= Beyond(used_indices) THEN IndexTableEntry(p - 1) ELSE BlankIndex]

TransitionTable == WrittenStates[graph.size] \o << FinalityMarker(FALSE, NO_TABLE_INDEX) >>

\* The inductive invariant: the states before it are packed, all of them once
\* the loop is over, and each table is the one its step wrote.
WrittenInv ==
    /\ TableInv
    /\ NumberingKept
    /\ pc = "symbols" => it = 0
    /\ pc \in {"index", "transitions", "done"} => it = graph.size
    /\ pc # "symbols" => DOMAIN start_index = {s \in 0 .. it - 1 : ~ SimpleState(s)}
    /\ pc \in {"transitions", "done"} => windex_table = IndexTable
    /\ pc = "done" => wtransition_table = TransitionTable

-----------------------------------------------------------------------------
LEMMA InitWritten == Init => WrittenInv
  <1> SUFFICES ASSUME Init
               PROVE  WrittenInv
    OBVIOUS
  <1>1. TableInv
    BY InitTable
  <1>2. NumberingKept
    BY DEF Init, NumberingKept
  <1> QED
    BY <1>1, <1>2 DEF Init, WrittenInv

LEMMA WrittenStep == WrittenInv /\ [Next]_vars => WrittenInv'
  <1> SUFFICES ASSUME WrittenInv, [Next]_vars
               PROVE  WrittenInv'
    OBVIOUS
  <1> USE DEF inputVars, symbolVars, packVars, tableVars
  <1>1. TableInv' /\ NumberingKept'
    BY TableStep, NumberingStep DEF WrittenInv
  <1>2. /\ TypeOK /\ it \in Nat /\ it <= graph.size /\ graph.size \in Nat \ {0}
        /\ DOMAIN start_index \subseteq 0 .. it - 1
        /\ pc = "symbols" => DOMAIN start_index = {} /\ it = 0
    BY GraphsAssumption DEF WrittenInv, TableInv, IndexInv, TypeOK
  <1>3. CASE GetStatesAndSymbols
    <2>1. pc' = "pack" /\ UNCHANGED << it, start_index >> /\ pc = "symbols"
      BY <1>3 DEF GetStatesAndSymbols
    <2>2. it' = 0 /\ DOMAIN start_index' = {}
      BY <1>2, <2>1
    <2>3. {s \in 0 .. it' - 1 : ~ SimpleState(s)'} = {}
      BY <2>2
    <2> QED
      BY <1>1, <2>1, <2>2, <2>3 DEF WrittenInv
  <1>4. CASE SkipSimpleState
    <2>1. /\ pc = "pack" /\ pc' = "pack" /\ it' = it + 1 /\ SimpleState(it)
          /\ UNCHANGED << placeholders, flag_symbols, start_index >>
      BY <1>4 DEF SkipSimpleState
    <2>2. DOMAIN start_index = {s \in 0 .. it - 1 : ~ SimpleState(s)}
      BY <2>1 DEF WrittenInv
    <2>3. \A s : SimpleState(s)' = SimpleState(s)
      BY <2>1 DEF SimpleState
    <2>4. DOMAIN start_index' = {s \in 0 .. it' - 1 : ~ SimpleState(s)'}
      BY <1>2, <2>1, <2>2, <2>3
    <2> QED
      BY <1>1, <2>1, <2>4 DEF WrittenInv
  <1>5. CASE PackState
    <2>1. /\ pc = "pack" /\ pc' = "pack" /\ it' = it + 1 /\ ~ SimpleState(it)
          /\ UNCHANGED << placeholders, flag_symbols >>
          /\ DOMAIN start_index' = DOMAIN start_index \cup {it}
      BY <1>5 DEF PackState
    <2>2. DOMAIN start_index = {s \in 0 .. it - 1 : ~ SimpleState(s)}
      BY <2>1 DEF WrittenInv
    <2>3. \A s : SimpleState(s)' = SimpleState(s)
      BY <2>1 DEF SimpleState
    <2>4. DOMAIN start_index' = {s \in 0 .. it' - 1 : ~ SimpleState(s)'}
      BY <1>2, <2>1, <2>2, <2>3
    <2> QED
      BY <1>1, <2>1, <2>4 DEF WrittenInv
  <1>6. CASE PackingDone \/ WriteIndexTable \/ WriteTransitionTable \/ Converted \/ UNCHANGED vars
    <2>1. /\ UNCHANGED << graph, placeholders, flag_symbols, seen_input_symbols, it, start_index, used_indices >>
          /\ pc = "pack" /\ pc' = "index" => it = graph.size
          /\ \/ pc' = pc /\ UNCHANGED << windex_table, wtransition_table >>
             \/ pc = "pack" /\ pc' = "index"
             \/ pc = "index" /\ pc' = "transitions" /\ windex_table' = IndexTable
             \/ pc = "transitions" /\ pc' = "done" /\ UNCHANGED windex_table
                /\ wtransition_table' = TransitionTable
      BY <1>6 DEF PackingDone, WriteIndexTable, WriteTransitionTable, Converted, vars,
                  IndexTable, TransitionTable
    <2>2. /\ \A s : SimpleState(s)' = SimpleState(s)
          /\ \A p : IndexTableEntry(p)' = IndexTableEntry(p)
          /\ Beyond(used_indices)' = Beyond(used_indices)
          /\ WrittenStates' = WrittenStates
      BY <2>1 DEF SimpleState, IndexTableEntry, Beyond, WrittenStates, StateMarker,
                  StateTransitions, TransitionEntry, StateAddress, WriteOrder, WrittenBefore,
                  SymbolBefore, WriteClass
    <2>3. IndexTable' = IndexTable /\ TransitionTable' = TransitionTable
      BY <2>1, <2>2 DEF IndexTable, TransitionTable
    <2>4. {s \in 0 .. it' - 1 : ~ SimpleState(s)'} = {s \in 0 .. it - 1 : ~ SimpleState(s)}
      BY <2>1, <2>2
    <2> QED
      BY <1>1, <2>1, <2>3, <2>4 DEF WrittenInv
  <1> QED
    BY <1>3, <1>4, <1>5, <1>6 DEF Next
-----------------------------------------------------------------------------
(* The order in which the transitions of a state are written. *)

LEMMA SymbolOrderStrict ==
    /\ \A x \in Nat : ~ SymbolBefore(x, x)
    /\ \A x, y \in Nat : x = y \/ SymbolBefore(x, y) \/ SymbolBefore(y, x)
    /\ \A x, y, z \in Nat : SymbolBefore(x, y) /\ SymbolBefore(y, z) => SymbolBefore(x, z)
  <1>1. \A x : WriteClass(x) \in {0, 1, 2}
    BY DEF WriteClass
  <1>2. \A x \in Nat : ~ SymbolBefore(x, x)
    BY <1>1 DEF SymbolBefore
  <1> QED
    BY <1>1, <1>2 DEF SymbolBefore

LEMMA WriteOrderStrict ==
    ASSUME NEW arcs \in Seq(NumberedArc)
    PROVE  /\ DOMAIN arcs = 1 .. Len(arcs) /\ Len(arcs) \in Nat
           /\ IsFiniteSet(DOMAIN arcs) /\ Cardinality(DOMAIN arcs) = Len(arcs)
           /\ StrictOrder(DOMAIN arcs, WrittenBefore(arcs))
  <1> DEFINE D == DOMAIN arcs
             R == WrittenBefore(arcs)
             in(k) == arcs[k].input
  <1>1. D = 1 .. Len(arcs) /\ Len(arcs) \in Nat
    OBVIOUS
  <1>2. IsFiniteSet(D) /\ Cardinality(D) = Len(arcs)
    BY <1>1, IntervalSize
  <1>3. \A k \in D : in(k) \in Nat /\ k \in Nat
    <2>1. \A k \in D : arcs[k] \in NumberedArc
      OBVIOUS
    <2> QED
      BY <1>1, <2>1 DEF NumberedArc
  <1>4. \A j, k \in D : << j, k >> \in R <=> SymbolBefore(in(j), in(k)) \/ (in(j) = in(k) /\ j < k)
    BY DEF WrittenBefore
  <1> HIDE DEF R, in, D
  <1>5. StrictOrder(D, R)
    BY <1>3, <1>4, SymbolOrderStrict DEF StrictOrder
  <1> QED
    BY <1>1, <1>2, <1>5 DEF D, R
-----------------------------------------------------------------------------
(* What is known when the conversion is over. *)

First == FirstTransition(placeholders)

LEMMA AtTheEnd ==
    ASSUME WrittenInv, pc = "done"
    PROVE  /\ IndexInv
           /\ graph \in Graphs /\ graph.size \in Nat \ {0} /\ States(graph) = 0 .. graph.size - 1
           /\ placeholders \in [0 .. graph.size - 1 -> Seq(NumberedArc)]
           /\ \A s \in States(graph) : \A k \in DOMAIN placeholders[s] :
                placeholders[s][k] \in NumberedArc /\ placeholders[s][k].target \in States(graph)
           /\ \A s \in States(graph) : \A k \in DOMAIN placeholders[s] :
                placeholders[s][k].input < NO_SYMBOL_NUMBER
           /\ NumbersBounded /\ SymbolsInOrder
           /\ \A s \in States(graph) : ~ SimpleState(s) => s \in DOMAIN start_index
  <1>1. IndexInv /\ TypeOK /\ NumberingKept
    BY DEF WrittenInv, TableInv, IndexInv
  <1>2. graph \in Graphs /\ graph.size \in Nat \ {0} /\ States(graph) = 0 .. graph.size - 1
    BY <1>1, GraphsAssumption DEF TypeOK, States
  <1>3. placeholders \in [0 .. graph.size - 1 -> Seq(NumberedArc)]
    BY <1>1, <1>2 DEF TypeOK
  <1>4. NumbersBounded /\ SymbolsInOrder
    BY <1>1, NumberingFacts
  <1>5. \A s \in States(graph) : \A k \in DOMAIN placeholders[s] :
          placeholders[s][k] \in NumberedArc /\ placeholders[s][k].target \in States(graph)
    BY <1>2, <1>3, <1>4 DEF NumbersBounded
  <1>6. \A s \in States(graph) : \A k \in DOMAIN placeholders[s] :
          placeholders[s][k].input < NO_SYMBOL_NUMBER
    <2>1. Len(symbol_table) \in Nat /\ NO_SYMBOL_NUMBER \in Nat /\ Len(symbol_table) <= NO_SYMBOL_NUMBER
      BY <1>4, ConstantsAssumption DEF NumbersBounded
    <2>2. \A s \in States(graph) : \A k \in DOMAIN placeholders[s] :
            placeholders[s][k].input \in 0 .. Len(symbol_table) - 1
      BY <1>4 DEF NumbersBounded
    <2> QED
      BY <2>1, <2>2
  <1>7. \A s \in States(graph) : ~ SimpleState(s) => s \in DOMAIN start_index
    <2>1. it = graph.size /\ DOMAIN start_index = {s \in 0 .. it - 1 : ~ SimpleState(s)}
      BY DEF WrittenInv
    <2> QED
      BY <1>2, <2>1
  <1> QED
    BY <1>1, <1>2, <1>3, <1>4, <1>5, <1>6, <1>7

LEMMA FirstFacts ==
    ASSUME WrittenInv, pc = "done"
    PROVE  /\ \A s \in States(graph) : First[s] \in Nat
           /\ First[0] = 0
           /\ \A s \in 1 .. graph.size - 1 : First[s] = First[s - 1] + 1 + Len(placeholders[s - 1])
           /\ \A s \in States(graph) : Len(placeholders[s]) \in Nat
           /\ \A s \in States(graph) : s # 0 => First[s] >= 1
  <1> DEFINE N == graph.size
             T == NumberedArc
             P == placeholders
  <1>1. N \in Nat \ {0} /\ States(graph) = 0 .. N - 1 /\ P \in [0 .. N - 1 -> Seq(T)]
    BY AtTheEnd
  <1> HIDE DEF N, T, P
  <1>2. /\ FirstTransition(P) \in [0 .. N - 1 -> Nat]
        /\ FirstTransition(P)[0] = 0
        /\ \A s \in 1 .. N - 1 : FirstTransition(P)[s] = FirstTransition(P)[s - 1] + 1 + Len(P[s - 1])
    BY <1>1, FirstTransitions
  <1>3. First = FirstTransition(P)
    BY DEF First, P
  <1>4. \A s \in 0 .. N - 1 : Len(P[s]) \in Nat
    BY <1>1
  <1>5. \A s \in 0 .. N - 1 : s # 0 => s \in 1 .. N - 1 /\ s - 1 \in 0 .. N - 1
    BY <1>1
  <1>6. \A s \in 1 .. N - 1 : First[s - 1] \in Nat /\ Len(P[s - 1]) \in Nat
    BY <1>1, <1>2, <1>3, <1>4
  <1> HIDE DEF First
  <1>7. \A s \in 1 .. N - 1 : First[s] >= 1
    BY <1>2, <1>3, <1>6
  <1> QED
    BY <1>1, <1>2, <1>3, <1>4, <1>5, <1>7 DEF N, P

LEMMA AddressType ==
    ASSUME WrittenInv, pc = "done", NEW s \in States(graph)
    PROVE  /\ StateAddress(s) \in Nat
           /\ SimpleState(s) => s # 0 /\ StateAddress(s) = First[s] + TRANSITION_TARGET_TABLE_START - 1
           /\ ~ SimpleState(s) => /\ s \in DOMAIN start_index /\ start_index[s] \in Nat
                                  /\ StateAddress(s) = start_index[s]
  <1>1. CASE SimpleState(s)
    <2>1. s # 0 /\ First[s] \in Nat /\ First[s] >= 1
      BY <1>1, FirstFacts DEF SimpleState, IsSimple
    <2>2. StateAddress(s) = First[s] + TRANSITION_TARGET_TABLE_START - 1
      BY <1>1 DEF StateAddress, First
    <2> HIDE DEF First
    <2> QED
      BY <1>1, <2>1, <2>2, ConstantsAssumption
  <1>2. CASE ~ SimpleState(s)
    <2>1. s \in DOMAIN start_index
      BY <1>2, AtTheEnd
    <2>2. start_index[s] \in Nat
      BY <2>1, AtTheEnd DEF IndexInv, TypeOK
    <2> QED
      BY <1>2, <2>1, <2>2 DEF StateAddress
  <1> QED
    BY <1>1, <1>2

LEMMA EntriesType ==
    ASSUME WrittenInv, pc = "done", NEW s \in States(graph)
    PROVE  /\ \A k \in DOMAIN placeholders[s] : TransitionEntry(placeholders[s][k]) \in NumberedArc
           /\ WriteOrder(placeholders[s]) \in [1 .. Len(placeholders[s]) -> DOMAIN placeholders[s]]
           /\ StateTransitions(s) \in Seq(NumberedArc)
           /\ Len(StateTransitions(s)) = Len(placeholders[s])
           /\ \A k \in 1 .. Len(placeholders[s]) :
                StateTransitions(s)[k] = TransitionEntry(placeholders[s][WriteOrder(placeholders[s])[k]])
           /\ StateMarker(s) \in Seq(NumberedArc)
           /\ Len(StateMarker(s)) = IF s = 0 THEN 0 ELSE 1
  <1> DEFINE arcs == placeholders[s]
             n == Len(arcs)
             order == WriteOrder(arcs)
  <1>1. arcs \in Seq(NumberedArc) /\ n \in Nat
    BY AtTheEnd
  <1>2. \A k \in DOMAIN arcs : TransitionEntry(arcs[k]) \in NumberedArc
    <2> SUFFICES ASSUME NEW k \in DOMAIN arcs PROVE TransitionEntry(arcs[k]) \in NumberedArc
      OBVIOUS
    <2>1. arcs[k] \in NumberedArc /\ arcs[k].target \in States(graph)
      BY AtTheEnd
    <2>2. StateAddress(arcs[k].target) \in Nat
      BY <2>1, AddressType
    <2> QED
      BY <2>1, <2>2 DEF TransitionEntry, Transition, NumberedArc
  <1>3. order \in [1 .. n -> DOMAIN arcs]
    <2> DEFINE R == WrittenBefore(arcs)
               D == DOMAIN arcs
    <2>1. IsFiniteSet(D) /\ Cardinality(D) = n /\ StrictOrder(D, R)
      BY <1>1, WriteOrderStrict
    <2>2. order = Ordered(D, R)
      BY DEF WriteOrder
    <2> HIDE DEF R, D, arcs
    <2>3. Lists(Ordered(D, R), Cardinality(D), D, R)
      BY <2>1, OrderedLists
    <2> QED
      BY <2>1, <2>2, <2>3 DEF Lists, D
  <1>4. StateTransitions(s) = [k \in 1 .. n |-> TransitionEntry(arcs[order[k]])]
    <2>1. DOMAIN order = 1 .. n
      BY <1>3
    <2> QED
      BY <2>1 DEF StateTransitions
  <1>5. \A k \in 1 .. n : TransitionEntry(arcs[order[k]]) \in NumberedArc
    BY <1>2, <1>3
  <1>6. StateTransitions(s) \in Seq(NumberedArc) /\ Len(StateTransitions(s)) = n
    <2> DEFINE e == [k \in 1 .. n |-> TransitionEntry(arcs[order[k]])]
    <2>1. e \in [1 .. n -> NumberedArc]
      BY <1>5
    <2> HIDE DEF e, n
    <2>2. e \in Seq(NumberedArc) /\ Len(e) = n
      BY <1>1, <2>1
    <2> QED
      BY <1>4, <2>2 DEF e
  <1>7. StateMarker(s) \in Seq(NumberedArc) /\ Len(StateMarker(s)) = IF s = 0 THEN 0 ELSE 1
    <2>1. CASE s = 0
      BY <2>1 DEF StateMarker
    <2>2. CASE s # 0
      <3> DEFINE w == IF graph.final[s] = {} THEN 0 ELSE CHOOSE w \in graph.final[s] : TRUE
                 m == FinalityMarker(graph.final[s] # {}, w)
      <3>1. graph.final[s] \subseteq Nat
        BY AtTheEnd, GraphsAssumption
      <3>2. w \in Nat
        BY <3>1
      <3> HIDE DEF w
      <3>3. m \in NumberedArc
        BY <3>2, ConstantsAssumption DEF FinalityMarker, Transition, NumberedArc
      <3>4. StateMarker(s) = << m >>
        BY <2>2 DEF StateMarker, w
      <3> HIDE DEF m
      <3> QED
        BY <2>2, <3>3, <3>4, OneElement
    <2> QED
      BY <2>1, <2>2
  <1> QED
    BY <1>2, <1>3, <1>4, <1>6, <1>7
-----------------------------------------------------------------------------
(* The transition table, state by state. *)

\* w is u followed by m and t.
Appended(w, u, m, t, E) ==
    /\ w \in Seq(E)
    /\ Len(w) = Len(u) + Len(m) + Len(t)
    /\ \A k \in 1 .. Len(u) : w[k] = u[k]
    /\ \A k \in 1 .. Len(m) : w[Len(u) + k] = m[k]
    /\ \A k \in 1 .. Len(t) : w[Len(u) + Len(m) + k] = t[k]

(* Appending one state's entries to a table. *)
LEMMA AppendState ==
    ASSUME NEW E, NEW u \in Seq(E), NEW m \in Seq(E), NEW t \in Seq(E)
    PROVE  Appended(u \o m \o t, u, m, t, E)
  <1> DEFINE x == u \o m
  <1>1. Len(u) \in Nat /\ Len(m) \in Nat /\ Len(t) \in Nat
    OBVIOUS
  <1>2. x \in Seq(E) /\ Len(x) = Len(u) + Len(m)
    OBVIOUS
  <1>3. \A k \in 1 .. Len(u) : x[k] = u[k]
    OBVIOUS
  <1>4. \A k \in 1 .. Len(m) : x[Len(u) + k] = m[k]
    OBVIOUS
  <1> HIDE DEF x
  <1>5. x \o t \in Seq(E) /\ Len(x \o t) = Len(x) + Len(t)
    <2>1. x \in Seq(E)
      BY <1>2
    <2> QED
      BY <2>1, ConcatProperties
  <1>6. \A k \in 1 .. Len(x) : (x \o t)[k] = x[k]
    BY <1>2
  <1>7. \A k \in 1 .. Len(t) : (x \o t)[Len(x) + k] = t[k]
    BY <1>2
  <1>8. \A k \in 1 .. Len(u) : k \in 1 .. Len(x)
    BY <1>1, <1>2
  <1>9. \A k \in 1 .. Len(m) : Len(u) + k \in 1 .. Len(x)
    BY <1>1, <1>2
  <1>10. \A k \in 1 .. Len(u) : (x \o t)[k] = u[k]
    BY <1>3, <1>6, <1>8
  <1>11. \A k \in 1 .. Len(m) : (x \o t)[Len(u) + k] = m[k]
    BY <1>4, <1>6, <1>9
  <1>12. \A k \in 1 .. Len(t) : (x \o t)[Len(u) + Len(m) + k] = t[k]
    BY <1>2, <1>7
  <1>13. Len(x \o t) = Len(u) + Len(m) + Len(t)
    BY <1>2, <1>5
  <1> DEFINE w == x \o t
  <1>14. /\ w \in Seq(E) /\ Len(w) = Len(u) + Len(m) + Len(t)
         /\ \A k \in 1 .. Len(u) : w[k] = u[k]
         /\ \A k \in 1 .. Len(m) : w[Len(u) + k] = m[k]
         /\ \A k \in 1 .. Len(t) : w[Len(u) + Len(m) + k] = t[k]
    BY <1>5, <1>10, <1>11, <1>12, <1>13
  <1> HIDE DEF w
  <1>15. Appended(w, u, m, t, E)
    BY <1>14 DEF Appended
  <1> QED
    BY <1>15 DEF w, x

LEMMA StatesWritten ==
    ASSUME WrittenInv, pc = "done"
    PROVE  /\ \A n \in 0 .. graph.size : WrittenStates[n] \in Seq(NumberedArc)
           /\ WrittenStates[0] = << >>
           /\ \A n \in 1 .. graph.size :
                WrittenStates[n] = WrittenStates[n - 1] \o StateMarker(n - 1) \o StateTransitions(n - 1)
  <1> DEFINE N == graph.size
             V == Seq(NumberedArc)
             v0 == << >>
             add(n, v) == v \o StateMarker(n - 1) \o StateTransitions(n - 1)
             step == [n \in 1 .. N |-> [v \in V |-> add(n, v)]]
             G(f) == [n \in 0 .. N |-> IF n = 0 THEN << >> ELSE add(n, f[n - 1])]
             W == WrittenStates
  <1>1. N \in Nat /\ \A n \in 1 .. N : n - 1 \in States(graph) /\ n - 1 \in 0 .. N
    BY AtTheEnd
  <1>2. \A n \in 1 .. N : StateMarker(n - 1) \in V /\ StateTransitions(n - 1) \in V
    BY <1>1, EntriesType
  <1>3. ASSUME NEW n \in 1 .. N, NEW v \in V PROVE add(n, v) \in V
    <2> DEFINE m == StateMarker(n - 1)
               t == StateTransitions(n - 1)
    <2>1. m \in V /\ t \in V
      BY <1>2
    <2> HIDE DEF m, t
    <2>2. v \o m \o t \in Seq(NumberedArc)
      BY <2>1
    <2> QED
      BY <2>2 DEF m, t
  <1>4. v0 \in V
    OBVIOUS
  <1>5. W = CHOOSE g : g = G(g)
    BY DEF WrittenStates
  <1> HIDE DEF N, V, v0, add, W
  <1>6. Steps(N, V, step)
    BY <1>3 DEF Steps
  <1>7. \A n \in 1 .. N : \A v \in V : step[n][v] = add(n, v)
    OBVIOUS
  <1> HIDE DEF step
  <1>8. Solution(N, V, v0, step)
    BY <1>1, <1>4, <1>6, Recursion
  <1>9. PICK f \in [0 .. N -> V] : f[0] = v0 /\ \A n \in 1 .. N : f[n] = step[n][f[n - 1]]
    BY <1>8 DEF Solution
  <1>10. \A n \in 1 .. N : f[n] = add(n, f[n - 1])
    <2>1. \A n \in 1 .. N : f[n - 1] \in V
      BY <1>1, <1>9
    <2> QED
      BY <1>7, <1>9, <2>1
  <1>11. \A n \in 0 .. N : n = 0 \/ n \in 1 .. N
    BY <1>1
  <1>12. f = G(f)
    <2>1. f = [n \in 0 .. N |-> f[n]]
      BY <1>9
    <2>2. \A n \in 0 .. N : f[n] = IF n = 0 THEN << >> ELSE add(n, f[n - 1])
      BY <1>9, <1>10, <1>11 DEF v0
    <2> QED
      BY <2>1, <2>2
  <1>13. W = G(W)
    <2> HIDE DEF G
    <2> QED
      BY <1>5, <1>12
  <1>14. W[0] = << >> /\ \A n \in 1 .. N : W[n] = add(n, W[n - 1])
    BY <1>1, <1>13
  <1>15. \A n \in 0 .. N : W[n] \in V
    <2> DEFINE bad == {n \in 0 .. N : W[n] \notin V}
    <2>1. SUFFICES ASSUME bad # {} PROVE FALSE
      OBVIOUS
    <2>2. PICK n \in bad : \A r \in bad : n <= r
      <3>1. bad \subseteq Nat
        BY <1>1
      <3> HIDE DEF bad
      <3> QED
        BY <2>1, <3>1, LeastNumber
    <2>3. n # 0
      BY <1>4, <1>14 DEF v0
    <2>4. n \in 1 .. N /\ n - 1 \in 0 .. N /\ n - 1 \notin bad
      BY <1>1, <2>2, <2>3
    <2> QED
      BY <1>3, <1>14, <2>4
  <1> QED
    BY <1>14, <1>15 DEF N, V, W, add
\* Where the entries of the first n states are in a table: the marker of a state
\* at position First[s] (counted from 1), its transitions right behind it, and
\* nothing after the last one.
Placed(table, n) ==
    /\ table \in Seq(NumberedArc)
    /\ Len(table) = IF n = 0 THEN 0 ELSE First[n - 1] + Len(placeholders[n - 1])
    /\ \A s \in 0 .. n - 1 :
         /\ First[s] + Len(placeholders[s]) <= Len(table)
         /\ s # 0 => table[First[s]] = StateMarker(s)[1]
         /\ \A k \in 1 .. Len(placeholders[s]) : table[First[s] + k] = StateTransitions(s)[k]

(* Writing one more state moves nothing that is already there. *)
LEMMA PlacedNext ==
    ASSUME WrittenInv, pc = "done", NEW n \in 1 .. graph.size,
           NEW u, Placed(u, n - 1)
    PROVE  Placed(u \o StateMarker(n - 1) \o StateTransitions(n - 1), n)
  <1> DEFINE N == graph.size
             P == placeholders
             s0 == n - 1
             m == StateMarker(s0)
             t == StateTransitions(s0)
             w == u \o m \o t
  <1>1. N \in Nat /\ States(graph) = 0 .. N - 1 /\ s0 \in States(graph) /\ s0 \in Nat
    BY AtTheEnd
  <1>2. /\ \A s \in 0 .. N - 1 : First[s] \in Nat /\ Len(P[s]) \in Nat
        /\ First[0] = 0
        /\ \A s \in 1 .. N - 1 : First[s] = First[s - 1] + 1 + Len(P[s - 1])
        /\ \A s \in 0 .. N - 1 : s # 0 => First[s] >= 1
    BY <1>1, FirstFacts
  <1>3. u \in Seq(NumberedArc) /\ Len(u) \in Nat
    BY DEF Placed
  <1>4. /\ m \in Seq(NumberedArc) /\ t \in Seq(NumberedArc)
        /\ Len(t) = Len(P[s0]) /\ Len(m) = IF s0 = 0 THEN 0 ELSE 1
    BY <1>1, EntriesType
  <1>5. Len(u) = IF s0 = 0 THEN 0 ELSE First[s0 - 1] + Len(P[s0 - 1])
    BY DEF Placed
  <1>6. \A s \in 0 .. s0 - 1 :
         /\ First[s] + Len(P[s]) <= Len(u)
         /\ s # 0 => u[First[s]] = StateMarker(s)[1]
         /\ \A k \in 1 .. Len(P[s]) : u[First[s] + k] = StateTransitions(s)[k]
    BY DEF Placed
  <1> HIDE DEF m, t, First, P, N
  <1>7. /\ w \in Seq(NumberedArc)
        /\ Len(w) = Len(u) + Len(m) + Len(t)
        /\ \A k \in 1 .. Len(u) : w[k] = u[k]
        /\ \A k \in 1 .. Len(m) : w[Len(u) + k] = m[k]
        /\ \A k \in 1 .. Len(t) : w[Len(u) + Len(m) + k] = t[k]
    <2>1. Appended(w, u, m, t, NumberedArc)
      BY <1>3, <1>4, AppendState
    <2> HIDE DEF w
    <2> QED
      BY <2>1 DEF Appended
  <1> HIDE DEF w
  <1>8. s0 \in 0 .. N - 1 /\ n \in Nat /\ n # 0
    BY <1>1
  <1>9. Len(u) + Len(m) = First[s0]
    <2>1. CASE s0 = 0
      BY <1>2, <1>4, <1>5, <2>1
    <2>2. CASE s0 # 0
      <3>1. s0 \in 1 .. N - 1 /\ s0 - 1 \in 0 .. N - 1
        BY <1>1, <1>8, <2>2
      <3>2. First[s0] = First[s0 - 1] + 1 + Len(P[s0 - 1])
        BY <1>2, <3>1
      <3>3. First[s0 - 1] \in Nat /\ Len(P[s0 - 1]) \in Nat
        BY <1>2, <3>1
      <3> QED
        BY <1>4, <1>5, <2>2, <3>2, <3>3
    <2> QED
      BY <2>1, <2>2
  <1>10. Len(w) = First[s0] + Len(P[s0])
    BY <1>4, <1>7, <1>9
  <1>11. ASSUME NEW s \in 0 .. n - 1
         PROVE  /\ First[s] + Len(P[s]) <= Len(w)
                /\ s # 0 => w[First[s]] = StateMarker(s)[1]
                /\ \A k \in 1 .. Len(P[s]) : w[First[s] + k] = StateTransitions(s)[k]
    <2>1. CASE s = s0
      <3>1. First[s] + Len(P[s]) <= Len(w)
        BY <1>2, <1>8, <1>10, <2>1
      <3>2. s # 0 => w[First[s]] = StateMarker(s)[1]
        <4>1. s # 0 => 1 \in 1 .. Len(m) /\ Len(u) + 1 = First[s]
          BY <1>3, <1>4, <1>9, <2>1
        <4>2. s # 0 => w[Len(u) + 1] = m[1]
          BY <1>7, <4>1
        <4> QED
          BY <2>1, <4>1, <4>2 DEF m
      <3>3. \A k \in 1 .. Len(P[s]) : w[First[s] + k] = StateTransitions(s)[k]
        BY <1>4, <1>7, <1>9, <2>1 DEF t
      <3> QED
        BY <3>1, <3>2, <3>3
    <2>2. CASE s # s0
      <3>1. s \in 0 .. s0 - 1 /\ s \in 0 .. N - 1
        BY <1>1, <2>2
      <3>2. First[s] \in Nat /\ Len(P[s]) \in Nat /\ (s # 0 => First[s] >= 1)
        BY <1>2, <3>1
      <3>3. First[s] + Len(P[s]) <= Len(u)
        BY <1>6, <3>1
      <3>4. First[s] + Len(P[s]) <= Len(w)
        <4>1. Len(m) \in Nat /\ Len(t) \in Nat /\ Len(w) = Len(u) + Len(m) + Len(t)
          BY <1>4, <1>7
        <4> QED
          BY <1>3, <3>2, <3>3, <4>1
      <3>5. s # 0 => w[First[s]] = StateMarker(s)[1]
        <4>1. s # 0 => First[s] \in 1 .. Len(u)
          BY <1>3, <3>2, <3>3
        <4> QED
          BY <1>6, <1>7, <3>1, <4>1
      <3>6. \A k \in 1 .. Len(P[s]) : w[First[s] + k] = StateTransitions(s)[k]
        <4>1. \A k \in 1 .. Len(P[s]) : First[s] + k \in 1 .. Len(u)
          BY <1>3, <3>2, <3>3
        <4> QED
          BY <1>6, <1>7, <3>1, <4>1
      <3> QED
        BY <3>4, <3>5, <3>6
    <2> QED
      BY <2>1, <2>2
  <1>12. Len(w) = IF n = 0 THEN 0 ELSE First[n - 1] + Len(P[n - 1])
    BY <1>8, <1>10
  <1>13. Placed(w, n)
    BY <1>7, <1>11, <1>12 DEF Placed, P
  <1> QED
    BY <1>13 DEF w, m, t

LEMMA AllPlaced ==
    ASSUME WrittenInv, pc = "done"
    PROVE  Placed(WrittenStates[graph.size], graph.size)
  <1> DEFINE N == graph.size
             W == WrittenStates
             bad == {n \in 0 .. N : ~ Placed(W[n], n)}
  <1>1. N \in Nat
    BY AtTheEnd
  <1>2. /\ W[0] = << >>
        /\ \A n \in 1 .. N : W[n] = W[n - 1] \o StateMarker(n - 1) \o StateTransitions(n - 1)
    BY StatesWritten
  <1> HIDE DEF W
  <1>3. SUFFICES ASSUME bad # {} PROVE FALSE
    BY <1>1 DEF W
  <1>4. PICK n \in bad : \A r \in bad : n <= r
    <2>1. bad \subseteq Nat
      BY <1>1
    <2> HIDE DEF bad
    <2> QED
      BY <1>3, <2>1, LeastNumber
  <1>5. n # 0
    <2>1. Placed(W[0], 0)
      BY <1>2 DEF Placed
    <2> QED
      BY <2>1
  <1>6. n \in 1 .. N /\ n - 1 \in 0 .. N /\ n - 1 \notin bad
    BY <1>1, <1>4, <1>5
  <1>7. Placed(W[n - 1], n - 1)
    BY <1>6
  <1>8. Placed(W[n], n)
    BY <1>2, <1>6, <1>7, PlacedNext
  <1> QED
    BY <1>8
(* The whole transition table: the transitions of every state are followed   *)
(* by an entry without a symbol, the next state's marker or the last entry.  *)
LEMMA TransitionTableFacts ==
    ASSUME WrittenInv, pc = "done"
    PROVE  /\ wtransition_table \in Seq(NumberedArc)
           /\ Len(wtransition_table) = First[graph.size - 1] + Len(placeholders[graph.size - 1]) + 1
           /\ \A s \in States(graph) :
                /\ First[s] + Len(placeholders[s]) < Len(wtransition_table)
                /\ s # 0 => wtransition_table[First[s]] = StateMarker(s)[1]
                /\ \A k \in 1 .. Len(placeholders[s]) :
                     wtransition_table[First[s] + k] = StateTransitions(s)[k]
                /\ wtransition_table[First[s] + Len(placeholders[s]) + 1].input = NO_SYMBOL_NUMBER
  <1> DEFINE N == graph.size
             P == placeholders
             W == WrittenStates[N]
             e == FinalityMarker(FALSE, NO_TABLE_INDEX)
             tt == W \o << e >>
  <1>1. N \in Nat \ {0} /\ States(graph) = 0 .. N - 1
    BY AtTheEnd
  <1>2. /\ \A s \in 0 .. N - 1 : First[s] \in Nat /\ Len(P[s]) \in Nat
        /\ \A s \in 1 .. N - 1 : First[s] = First[s - 1] + 1 + Len(P[s - 1])
        /\ \A s \in 0 .. N - 1 : s # 0 => First[s] >= 1
    BY <1>1, FirstFacts
  <1>3. wtransition_table = tt
    BY DEF WrittenInv, TransitionTable
  <1>4. Placed(W, N)
    BY AllPlaced
  <1>5. e \in NumberedArc /\ e.input = NO_SYMBOL_NUMBER
    BY ConstantsAssumption DEF FinalityMarker, Transition, NumberedArc
  <1>6. \A s \in 0 .. N - 1 : s # 0 => StateMarker(s)[1].input = NO_SYMBOL_NUMBER
    BY DEF StateMarker, FinalityMarker, Transition
  <1> HIDE DEF W, e, N, P, First
  <1>7. << e >> \in Seq(NumberedArc) /\ Len(<< e >>) = 1 /\ << e >>[1] = e
    BY <1>5, OneElement
  <1>8. W \in Seq(NumberedArc) /\ Len(W) \in Nat
    BY <1>4 DEF Placed
  <1>9. tt \in Seq(NumberedArc)
    BY <1>7, <1>8, ConcatProperties
  <1>10. Len(tt) = Len(W) + 1
    BY <1>7, <1>8
  <1>11. \A k \in 1 .. Len(W) : tt[k] = W[k]
    BY <1>7, <1>8
  <1>12. tt[Len(W) + 1] = e
    BY <1>7, <1>8
  <1> HIDE DEF tt
  <1>13. Len(W) = First[N - 1] + Len(P[N - 1])
    BY <1>1, <1>4 DEF Placed, P
  <1>14. ASSUME NEW s \in 0 .. N - 1
         PROVE  /\ First[s] + Len(P[s]) <= Len(W)
                /\ s # 0 => W[First[s]] = StateMarker(s)[1]
                /\ \A k \in 1 .. Len(P[s]) : W[First[s] + k] = StateTransitions(s)[k]
    BY <1>4 DEF Placed, P
  <1>15. ASSUME NEW s \in 0 .. N - 1
         PROVE  /\ First[s] + Len(P[s]) < Len(tt)
                /\ s # 0 => tt[First[s]] = StateMarker(s)[1]
                /\ \A k \in 1 .. Len(P[s]) : tt[First[s] + k] = StateTransitions(s)[k]
    <2>1. First[s] \in Nat /\ Len(P[s]) \in Nat /\ (s # 0 => First[s] >= 1)
      BY <1>2
    <2>2. First[s] + Len(P[s]) <= Len(W)
      BY <1>14
    <2>3. s # 0 => First[s] \in 1 .. Len(W)
      BY <1>8, <2>1, <2>2
    <2>4. \A k \in 1 .. Len(P[s]) : First[s] + k \in 1 .. Len(W)
      BY <1>8, <2>1, <2>2
    <2>5. s # 0 => tt[First[s]] = StateMarker(s)[1]
      BY <1>11, <1>14, <2>3
    <2>6. \A k \in 1 .. Len(P[s]) : tt[First[s] + k] = StateTransitions(s)[k]
      BY <1>11, <1>14, <2>4
    <2>7. First[s] + Len(P[s]) < Len(tt)
      BY <1>8, <1>10, <2>1, <2>2
    <2> QED
      BY <2>5, <2>6, <2>7
  <1>16. ASSUME NEW s \in 0 .. N - 1
         PROVE  tt[First[s] + Len(P[s]) + 1].input = NO_SYMBOL_NUMBER
    <2>1. CASE s = N - 1
      BY <1>5, <1>12, <1>13, <2>1
    <2>2. CASE s # N - 1
      <3>1. s + 1 \in 1 .. N - 1 /\ s + 1 \in 0 .. N - 1 /\ s + 1 # 0 /\ s + 1 - 1 = s
        BY <1>1, <2>2
      <3>2. First[s + 1] = First[s] + 1 + Len(P[s])
        BY <1>2, <3>1
      <3>3. First[s] + Len(P[s]) + 1 = First[s + 1]
        BY <1>2, <3>2
      <3>4. tt[First[s + 1]] = StateMarker(s + 1)[1]
        BY <1>15, <3>1
      <3> QED
        BY <1>6, <3>1, <3>3, <3>4
    <2> QED
      BY <2>1, <2>2
  <1>17. Len(tt) = First[N - 1] + Len(P[N - 1]) + 1
    BY <1>10, <1>13
  <1>18. /\ tt \in Seq(NumberedArc)
         /\ Len(tt) = First[N - 1] + Len(P[N - 1]) + 1
         /\ \A s \in 0 .. N - 1 :
              /\ First[s] + Len(P[s]) < Len(tt)
              /\ s # 0 => tt[First[s]] = StateMarker(s)[1]
              /\ \A k \in 1 .. Len(P[s]) : tt[First[s] + k] = StateTransitions(s)[k]
              /\ tt[First[s] + Len(P[s]) + 1].input = NO_SYMBOL_NUMBER
    BY <1>9, <1>15, <1>16, <1>17
  <1> QED
    BY <1>1, <1>3, <1>18 DEF P, N

(* The index table has the entry of every position that is used, and blank   *)
(* entries elsewhere and in the padding.                                     *)
LEMMA IndexTableFacts ==
    ASSUME WrittenInv, pc = "done"
    PROVE  /\ Len(windex_table) \in Nat
           /\ \A p \in 0 .. Len(windex_table) - 1 : windex_table[p + 1] = IndexTableEntry(p)
           /\ \A s \in DOMAIN start_index :
                /\ start_index[s] \in Nat /\ seen_input_symbols \in Nat
                /\ start_index[s] + seen_input_symbols < Len(windex_table)
  <1> DEFINE b == Beyond(used_indices)
             n == b + seen_input_symbols
             entry(p) == IF p <= b THEN IndexTableEntry(p - 1) ELSE BlankIndex
             xt == [p \in 1 .. n |-> entry(p)]
  <1>1. TableInv /\ TypeOK /\ IndexOwnership
    BY DEF WrittenInv, TableInv, IndexInv
  <1>2. b \in Nat /\ \A p \in DOMAIN used_indices : p < b
    BY <1>1, BeyondAll DEF TableInv, TypeOK
  <1>3. seen_input_symbols \in Nat
    BY <1>1 DEF TypeOK
  <1>4. windex_table = xt
    BY DEF WrittenInv, IndexTable
  <1>5. \A p : p \notin DOMAIN used_indices => IndexTableEntry(p) = BlankIndex
    BY DEF IndexTableEntry
  <1> HIDE DEF b
  <1>6. n \in Nat
    BY <1>2, <1>3
  <1>7. \A p \in 0 .. n - 1 : entry(p + 1) = IndexTableEntry(p)
    <2> SUFFICES ASSUME NEW p \in 0 .. n - 1 PROVE entry(p + 1) = IndexTableEntry(p)
      OBVIOUS
    <2>1. p + 1 - 1 = p /\ p \in Nat
      BY <1>6
    <2>2. CASE p + 1 <= b
      BY <2>1, <2>2
    <2>3. CASE ~ (p + 1 <= b)
      <3>1. p \notin DOMAIN used_indices
        BY <1>2, <2>1, <2>3
      <3> QED
        BY <1>5, <2>3, <3>1
    <2> QED
      BY <2>2, <2>3
  <1> HIDE DEF entry, n
  <1>8. Len(xt) = n /\ \A p \in 0 .. n - 1 : xt[p + 1] = entry(p + 1)
    BY <1>6
  <1>9. ASSUME NEW s \in DOMAIN start_index
        PROVE  start_index[s] \in Nat /\ start_index[s] + seen_input_symbols < n
    <2>1. start_index[s] \in Nat /\ start_index[s] \in DOMAIN used_indices
      BY <1>1 DEF TypeOK, IndexOwnership
    <2>2. start_index[s] < b
      BY <1>2, <2>1
    <2> QED
      BY <1>2, <1>3, <2>1, <2>2 DEF n
  <1> QED
    BY <1>3, <1>4, <1>6, <1>7, <1>8, <1>9
-----------------------------------------------------------------------------
(* Reading the tables at the address of a state. *)

LEMMA WrittenInvariant == Spec => []WrittenInv
  BY InitWritten, WrittenStep, PTL DEF Spec

LEMMA AddressArithmetic ==
    /\ \A f \in Nat : f >= 1 =>
         LET a == f + TRANSITION_TARGET_TABLE_START - 1
         IN  IndexesTransitionTable(a) /\ TableAddress(a) + 1 = f /\ TableAddress(a + 1) = f
    /\ \A f \in Nat : TableAddress(f + TRANSITION_TARGET_TABLE_START) = f
    /\ \A a \in Nat : a < TRANSITION_TARGET_TABLE_START =>
         ~ IndexesTransitionTable(a) /\ TableAddress(a) = a
  BY ConstantsAssumption DEF IndexesTransitionTable, TableAddress

LEMMA FinalWeightUnique ==
    ASSUME WrittenInv, pc = "done", NEW s \in States(graph), graph.final[s] # {}
    PROVE  LET w == CHOOSE w \in graph.final[s] : TRUE
           IN  w \in Nat /\ w # NO_TABLE_INDEX /\ graph.final[s] = {w}
  <1> DEFINE w == CHOOSE w \in graph.final[s] : TRUE
  <1>1. w \in graph.final[s]
    OBVIOUS
  <1>2. /\ graph.final[s] \subseteq Nat /\ NO_TABLE_INDEX \notin graph.final[s]
        /\ \A v, u \in graph.final[s] : v = u
    BY AtTheEnd, GraphsAssumption
  <1> HIDE DEF w
  <1>3. w \in Nat /\ w # NO_TABLE_INDEX /\ graph.final[s] = {w}
    BY <1>1, <1>2
  <1> QED
    BY <1>3 DEF w

LEMMA FinalityRead == WrittenInv /\ Addressable => FinalityFaithful
  <1>1. ASSUME WrittenInv, pc = "done", Addressable, NEW s \in States(graph)
        PROVE  LET a == StateAddress(s)
               IN  /\ IsFinalAddress(windex_table, wtransition_table, a) <=> graph.final[s] # {}
                   /\ graph.final[s] # {} =>
                        {IF SimpleState(s) THEN At(wtransition_table, a).weight
                                           ELSE At(windex_table, a).target} = graph.final[s]
    <2> USE <1>1
    <2> DEFINE a == StateAddress(s)
               w == CHOOSE v \in graph.final[s] : TRUE
    <2>1. /\ NO_SYMBOL_NUMBER \in Nat /\ NO_TABLE_INDEX \in Nat /\ NO_TABLE_INDEX # 1
          /\ TRANSITION_TARGET_TABLE_START \in Nat
      BY ConstantsAssumption
    <2>2. graph.final[s] # {} => w \in Nat /\ w # NO_TABLE_INDEX /\ graph.final[s] = {w}
      BY FinalWeightUnique
    <2>3. CASE SimpleState(s)
      <3>1. s # 0 /\ a = First[s] + TRANSITION_TARGET_TABLE_START - 1 /\ First[s] \in Nat /\ First[s] >= 1
        BY <2>3, AddressType, FirstFacts
      <3>2. IndexesTransitionTable(a) /\ TableAddress(a) + 1 = First[s]
        BY <3>1, AddressArithmetic
      <3>3. At(wtransition_table, a) = StateMarker(s)[1]
        BY <3>1, <3>2, TransitionTableFacts DEF At
      <3>4. StateMarker(s)[1] = FinalityMarker(graph.final[s] # {}, IF graph.final[s] = {} THEN 0 ELSE w)
        BY <3>1 DEF StateMarker
      <3> HIDE DEF a, w
      <3>5. TransitionFinal(At(wtransition_table, a)) <=> graph.final[s] # {}
        BY <2>1, <3>3, <3>4 DEF TransitionFinal, FinalityMarker, Transition
      <3>6. graph.final[s] # {} => {At(wtransition_table, a).weight} = graph.final[s]
        BY <2>2, <3>3, <3>4 DEF FinalityMarker, Transition
      <3> QED
        BY <2>3, <3>2, <3>5, <3>6 DEF IsFinalAddress, a
    <2>4. CASE ~ SimpleState(s)
      <3>1. s \in DOMAIN start_index /\ a = start_index[s] /\ a \in Nat
        BY <2>4, AddressType
      <3>2. a \in 0 .. Len(windex_table) - 1 /\ a < TRANSITION_TARGET_TABLE_START
        <4>1. Len(windex_table) \in Nat /\ seen_input_symbols \in Nat
               /\ start_index[s] + seen_input_symbols < Len(windex_table)
          BY <3>1, IndexTableFacts
        <4>2. Len(windex_table) <= TRANSITION_TARGET_TABLE_START
          BY DEF Addressable
        <4>3. a + seen_input_symbols < Len(windex_table)
          BY <3>1, <4>1
        <4> DEFINE l == Len(windex_table)
        <4> HIDE DEF a, l
        <4>4. a \in 0 .. l - 1 /\ a < TRANSITION_TARGET_TABLE_START
          BY <2>1, <3>1, <4>1, <4>2, <4>3 DEF l
        <4> QED
          BY <4>4 DEF l
      <3>3. ~ IndexesTransitionTable(a) /\ TableAddress(a) = a
        BY <3>1, <3>2, AddressArithmetic
      <3>4. At(windex_table, a) = IndexTableEntry(a)
        BY <3>2, <3>3, IndexTableFacts DEF At
      <3>5. a \in DOMAIN used_indices /\ used_indices[a] = << s, NO_SYMBOL_NUMBER >>
        BY <3>1, AtTheEnd DEF IndexInv, IndexOwnership
      <3>6. IndexTableEntry(a) = IF graph.final[s] = {} THEN BlankIndex ELSE FinalIndex(w)
        BY <3>5 DEF IndexTableEntry
      <3> HIDE DEF a, w
      <3>7. IndexFinal(At(windex_table, a)) <=> graph.final[s] # {}
        BY <2>1, <2>2, <3>4, <3>6 DEF IndexFinal, BlankIndex, FinalIndex, IndexEntry
      <3>8. graph.final[s] # {} => {At(windex_table, a).target} = graph.final[s]
        BY <2>2, <3>4, <3>6 DEF FinalIndex, IndexEntry
      <3> QED
        BY <2>4, <3>3, <3>7, <3>8 DEF IsFinalAddress, a
    <2> QED
      BY <2>3, <2>4
  <1> QED
    BY <1>1 DEF FinalityFaithful

\* Reading the finality of a state at its address gives the finality of the
\* basic transducer's state and its weight, whichever table the address is in.
THEOREM FinalityCorrect == Spec => [](Addressable => FinalityFaithful)
  BY FinalityRead, WrittenInvariant, PTL
-----------------------------------------------------------------------------
(* The transitions of a state with symbols in S are one block of entries. *)

\* With a transition of state s, D has every transition that is written before.
Closed(s, D) ==
    \A x \in D : \A y \in DOMAIN placeholders[s] :
      << y, x >> \in WrittenBefore(placeholders[s]) => y \in D

WithSymbols(s, S) == {k \in DOMAIN placeholders[s] : placeholders[s][k].input \in S}

\* r holds the entries of the transitions B of s, which are written after c others.
Block(s, r, B, c) ==
    LET order == WriteOrder(placeholders[s])
    IN  /\ c \in Nat /\ r \in Seq(NumberedArc) /\ Len(r) = Cardinality(B)
        /\ c + Len(r) <= Len(placeholders[s])
        /\ \A j \in 1 .. Len(r) :
             order[c + j] \in B /\ r[j] = TransitionEntry(placeholders[s][order[c + j]])
        /\ \A k \in B : \E j \in 1 .. Len(r) : order[c + j] = k

(* If the transitions C come first and B right after them, the run of        *)
(* entries behind C's is B's: it ends at a transition with another symbol or *)
(* at the entry without a symbol that follows the state.                     *)
LEMMA BlockRead ==
    ASSUME WrittenInv, pc = "done", Addressable, NEW s \in States(graph),
           NEW S, NO_SYMBOL_NUMBER \notin S,
           NEW B, B = WithSymbols(s, S),
           NEW C \in SUBSET DOMAIN placeholders[s], C \cap B = {},
           Closed(s, C), Closed(s, C \cup B),
           NEW i, TableAddress(i) = First[s] + Cardinality(C)
    PROVE  Block(s, Run(wtransition_table, i, S), B, Cardinality(C))
  <1> DEFINE arcs == placeholders[s]
             n == Len(arcs)
             D == DOMAIN arcs
             R == WrittenBefore(arcs)
             O == WriteOrder(arcs)
             tt == wtransition_table
             c == Cardinality(C)
             m == Cardinality(B)
             F == First[s]
             r == Run(tt, i, S)
  <1>1. arcs \in Seq(NumberedArc) /\ F \in Nat
    BY AtTheEnd, FirstFacts
  <1>2. /\ D = 1 .. n /\ n \in Nat /\ IsFiniteSet(D) /\ Cardinality(D) = n
        /\ StrictOrder(D, R)
    BY <1>1, WriteOrderStrict
  <1>3. B \subseteq D
    BY DEF WithSymbols
  <1>4. O = Ordered(D, R)
    BY DEF WriteOrder
  <1>5. /\ \A x \in C : \A y \in D : << y, x >> \in R => y \in C
        /\ \A x \in C \cup B : \A y \in D : << y, x >> \in R => y \in C \cup B
    BY DEF Closed
  <1>6. IsFiniteSet(C) /\ IsFiniteSet(B) /\ c \in Nat /\ m \in Nat
    BY <1>2, <1>3, FS_Subset, FS_CardinalityType
  <1>7. Cardinality(C \cup B) = c + m
    BY <1>6, DisjointSize
  <1>0. C \in SUBSET D /\ C \cup B \in SUBSET D
    BY <1>3
  <1> HIDE DEF D, R, O, arcs, n
  <1>8. c <= n /\ \A k \in 1 .. n : O[k] \in C <=> k <= c
    <2>1. /\ Cardinality(C) \in 0 .. Cardinality(D)
          /\ \A k \in 1 .. Cardinality(D) : Ordered(D, R)[k] \in C <=> k <= Cardinality(C)
      BY <1>0, <1>2, <1>5, OrderedPrefix
    <2> QED
      BY <1>2, <1>4, <1>6, <2>1
  <1>9. c + m <= n /\ \A k \in 1 .. n : O[k] \in C \cup B <=> k <= c + m
    <2> DEFINE U == C \cup B
    <2>1. U \in SUBSET D /\ Cardinality(U) = c + m
      BY <1>0, <1>7
    <2>2. \A x \in U : \A y \in D : << y, x >> \in R => y \in U
      BY <1>5
    <2> HIDE DEF U
    <2>3. /\ Cardinality(U) \in 0 .. Cardinality(D)
          /\ \A k \in 1 .. Cardinality(D) : Ordered(D, R)[k] \in U <=> k <= Cardinality(U)
      BY <1>2, <2>1, <2>2, OrderedPrefix
    <2> HIDE DEF c, m
    <2>4. c + m \in 0 .. n /\ \A k \in 1 .. n : O[k] \in U <=> k <= c + m
      BY <1>2, <1>4, <2>1, <2>3
    <2> QED
      BY <1>2, <2>4 DEF U
  <1>10. O \in [1 .. n -> D] /\ \A k \in D : \E j \in 1 .. n : O[j] = k
    <2>1. Lists(Ordered(D, R), Cardinality(D), D, R)
      BY <1>2, OrderedLists
    <2>2. Covers(Ordered(D, R), Cardinality(D), D)
      BY <1>2, OrderedCovers
    <2> QED
      BY <1>2, <1>4, <2>1, <2>2 DEF Lists, Covers
  <1>11. /\ tt \in Seq(NumberedArc)
         /\ F + n < Len(tt)
         /\ \A k \in 1 .. n : tt[F + k] = StateTransitions(s)[k]
         /\ tt[F + n + 1].input = NO_SYMBOL_NUMBER
    BY TransitionTableFacts DEF arcs, n
  <1>12. \A k \in 1 .. n : StateTransitions(s)[k] = TransitionEntry(arcs[O[k]])
    BY EntriesType DEF arcs, n, O
  <1>13. \A k \in 1 .. n : tt[F + k] = TransitionEntry(arcs[O[k]])
    BY <1>11, <1>12
  <1>14. \A k \in D : TransitionEntry(arcs[k]).input = arcs[k].input
    BY DEF TransitionEntry, Transition
  <1>15. \A k \in D : k \in B <=> arcs[k].input \in S
    BY DEF WithSymbols, D, arcs
  <1> HIDE DEF F, c, m, tt
  <1>16. ASSUME NEW j \in 1 .. m
         PROVE  O[c + j] \in B /\ c + j \in 1 .. n
    <2>1. c + j \in 1 .. n /\ ~ (c + j <= c) /\ c + j <= c + m
      BY <1>2, <1>6, <1>9
    <2> QED
      BY <1>8, <1>9, <2>1
  <1> DEFINE from == F + c
  <1>17. from \in Nat /\ from + m < Len(tt) /\ Len(tt) \in Nat
    BY <1>1, <1>2, <1>6, <1>9, <1>11
  <1>18. \A j \in 1 .. m : tt[from + j] = TransitionEntry(arcs[O[c + j]])
    <2>1. \A j \in 1 .. m : from + j = F + (c + j)
      BY <1>1, <1>6
    <2> QED
      BY <1>13, <1>16, <2>1
  <1>19. \A j \in 1 .. m : tt[from + j].input \in S
    BY <1>3, <1>14, <1>15, <1>16, <1>18 DEF D, arcs
  <1>20. tt[from + m + 1].input \notin S
    <2>1. CASE c + m = n
      <3>1. from + m + 1 = F + n + 1
        BY <1>1, <1>6, <2>1
      <3> QED
        BY <1>11, <3>1
    <2>2. CASE c + m # n
      <3>1. c + m + 1 \in 1 .. n /\ ~ (c + m + 1 <= c + m) /\ from + m + 1 = F + (c + m + 1)
        BY <1>1, <1>2, <1>6, <1>9, <2>2
      <3>2. O[c + m + 1] \in D /\ O[c + m + 1] \notin B
        BY <1>9, <1>10, <3>1
      <3> QED
        BY <1>13, <1>14, <1>15, <3>1, <3>2
    <2> QED
      BY <2>1, <2>2
  <1>21. TableAddress(i) = from /\ Len(tt) <= TRANSITION_TARGET_TABLE_START
    BY DEF F, c, tt, Addressable
  <1> HIDE DEF from
  <1>22. r \in Seq(NumberedArc) /\ Len(r) = m /\ \A j \in 1 .. m : r[j] = tt[from + j]
    <2> DEFINE T == NumberedArc
    <2>1. tt \in Seq(T) /\ Len(tt) <= TRANSITION_TARGET_TABLE_START
      BY <1>11, <1>21
    <2>2. from \in Nat /\ TableAddress(i) = from /\ m \in Nat /\ from + m < Len(tt)
      BY <1>6, <1>17, <1>21
    <2> HIDE DEF T, r
    <2>3. RunIs(tt, from, m, S)
      BY <1>19, <1>20 DEF RunIs
    <2>4. Extract(Run(tt, i, S), tt, from, m, T)
      BY <2>1, <2>2, <2>3, RunRead
    <2> QED
      BY <2>4 DEF T, r, Extract
  <1> HIDE DEF r
  <1>23. ASSUME NEW k \in B
         PROVE  \E j \in 1 .. m : O[c + j] = k
    <2>1. k \in D
      BY <1>3 DEF D, arcs
    <2>2. PICK q \in 1 .. n : O[q] = k
      BY <1>10, <2>1
    <2>3. k \notin C /\ k \in C \cup B
      OBVIOUS
    <2>4. ~ (q <= c) /\ q <= c + m
      BY <1>8, <1>9, <2>2, <2>3
    <2>5. q - c \in 1 .. m /\ c + (q - c) = q
      BY <1>2, <1>6, <2>4
    <2> QED
      BY <2>2, <2>5
  <1> QED
    BY <1>6, <1>9, <1>16, <1>18, <1>22, <1>23 DEF Block, r, tt, c, m, n, arcs, O
(* The entries of a block with one symbol are the state's transitions with   *)
(* that symbol, in the order in which they were added.                       *)
LEMMA BlockKeepsOrder ==
    ASSUME WrittenInv, pc = "done", NEW s \in States(graph),
           NEW B \in SUBSET DOMAIN placeholders[s], NEW r, NEW c, Block(s, r, B, c),
           NEW y, WithSymbols(s, {y}) \subseteq B
    PROVE  Choose(r, {j \in DOMAIN r : r[j].input = y}) = OwnTransitions(s, y)
  <1> DEFINE arcs == placeholders[s]
             n == Len(arcs)
             D == DOMAIN arcs
             R == WrittenBefore(arcs)
             O == WriteOrder(arcs)
             m == Len(r)
             I == {j \in DOMAIN r : r[j].input = y}
             J == {k \in D : arcs[k].input = y}
             f == [j \in I |-> O[c + j]]
  <1>1. arcs \in Seq(NumberedArc)
    BY AtTheEnd
  <1>2. /\ D = 1 .. n /\ n \in Nat /\ IsFiniteSet(D) /\ Cardinality(D) = n
        /\ StrictOrder(D, R)
    BY <1>1, WriteOrderStrict
  <1>3. O = Ordered(D, R)
    BY DEF WriteOrder
  <1>4. /\ c \in Nat /\ r \in Seq(NumberedArc) /\ c + m <= n
        /\ \A j \in 1 .. m : O[c + j] \in B /\ r[j] = TransitionEntry(arcs[O[c + j]])
        /\ \A k \in B : \E j \in 1 .. m : O[c + j] = k
    BY DEF Block
  <1>5. J \subseteq B /\ B \subseteq D /\ J \subseteq D
    BY DEF WithSymbols
  <1>6. \A k : TransitionEntry(arcs[k]).input = arcs[k].input
    BY DEF TransitionEntry, Transition
  <1>7. \A k \in D : arcs[k].input \in Nat
    <2>1. \A k \in D : arcs[k] \in NumberedArc
      BY <1>1
    <2> QED
      BY <2>1 DEF NumberedArc
  <1>8. DOMAIN r = 1 .. m /\ m \in Nat
    BY <1>4
  <1>9. \A i, j \in D : << i, j >> \in R /\ arcs[i].input = arcs[j].input => i < j
    <2>1. \A i, j \in D : << i, j >> \in R =>
             SymbolBefore(arcs[i].input, arcs[j].input) \/ i < j
      BY DEF WrittenBefore
    <2> QED
      BY <1>7, <2>1, SymbolOrderStrict
  <1>10. OwnTransitions(s, y) =
           [k \in DOMAIN Choose(arcs, J) |-> TransitionEntry(Choose(arcs, J)[k])]
    BY DEF OwnTransitions
  <1> HIDE DEF arcs, n, D, R, O, m
  <1>11. I \subseteq 1 .. m /\ \A j \in I : O[c + j] \in J
    <2>1. \A j \in 1 .. m : r[j].input = arcs[O[c + j]].input
      BY <1>4, <1>6
    <2> QED
      BY <1>4, <1>5, <1>8, <2>1
  <1>12. \A i, j \in 1 .. n : i < j => << O[i], O[j] >> \in R
    <2>1. Lists(Ordered(D, R), Cardinality(D), D, R)
      BY <1>2, OrderedLists
    <2> QED
      BY <1>2, <1>3, <2>1 DEF Lists
  <1>13. \A i, j \in I : i < j => O[c + i] < O[c + j]
    <2> SUFFICES ASSUME NEW i \in I, NEW j \in I, i < j
                 PROVE  O[c + i] < O[c + j]
      OBVIOUS
    <2>1. i \in 1 .. m /\ j \in 1 .. m
      BY <1>11
    <2>2. c + i \in 1 .. n /\ c + j \in 1 .. n /\ c + i < c + j
      BY <1>2, <1>4, <1>8, <2>1
    <2>3. O[c + i] \in J /\ O[c + j] \in J
      BY <1>11
    <2>4. << O[c + i], O[c + j] >> \in R
      BY <1>12, <2>2
    <2> QED
      BY <1>5, <1>9, <2>3, <2>4
  <1>14. \A k \in J : \E j \in I : O[c + j] = k
    <2> SUFFICES ASSUME NEW k \in J PROVE \E j \in I : O[c + j] = k
      OBVIOUS
    <2>1. PICK j \in 1 .. m : O[c + j] = k
      BY <1>4, <1>5
    <2>2. r[j].input = y
      BY <1>4, <1>6, <2>1
    <2> QED
      BY <1>8, <2>1, <2>2
  <1>15. I \subseteq Int /\ J \subseteq Int /\ IsFiniteSet(I)
    <2>1. IsFiniteSet(1 .. m)
      BY <1>8, IntervalSize
    <2>2. IsFiniteSet(I)
      BY <1>11, <2>1, FS_Subset
    <2> QED
      BY <1>2, <1>5, <1>8, <1>11, <2>2
  <1> HIDE DEF I, J
  <1>16. f \in [I -> J] /\ \A j \in I : f[j] = O[c + j]
    BY <1>11
  <1> HIDE DEF f
  <1>17. \A i, j \in I : i < j => f[i] < f[j]
    BY <1>13, <1>16
  <1>18. f \in Bijection(I, J)
    <2>1. \A i, j \in I : f[i] = f[j] => i = j
      <3> SUFFICES ASSUME NEW i \in I, NEW j \in I, f[i] = f[j], i # j
                   PROVE  FALSE
        OBVIOUS
      <3>1. f[i] \in Int /\ f[j] \in Int /\ i \in Int /\ j \in Int
        BY <1>15, <1>16
      <3>2. f[i] < f[j] \/ f[j] < f[i]
        BY <1>17, <3>1
      <3> QED
        BY <3>1, <3>2
    <2>2. \A k \in J : \E j \in I : f[j] = k
      BY <1>14, <1>16
    <2>3. f \in Injection(I, J)
      BY <1>16, <2>1 DEF Injection, IsInjective
    <2>4. f \in Surjection(I, J)
      BY <1>16, <2>2 DEF Surjection
    <2> QED
      BY <2>3, <2>4 DEF Bijection
  <1>19. /\ IsFiniteSet(J) /\ Cardinality(J) = Cardinality(I)
         /\ \A k \in 1 .. Cardinality(I) : /\ Ascending(I)[k] \in I
                                           /\ f[Ascending(I)[k]] = Ascending(J)[k]
    BY <1>15, <1>17, <1>18, AscendingImage
  <1>20. DOMAIN Ascending(I) = 1 .. Cardinality(I) /\ DOMAIN Ascending(J) = 1 .. Cardinality(I)
    BY <1>19 DEF Ascending, Ordered
  <1>21. Choose(r, I) = [k \in 1 .. Cardinality(I) |-> r[Ascending(I)[k]]]
    BY <1>20 DEF Choose
  <1>22. Choose(arcs, J) = [k \in 1 .. Cardinality(I) |-> arcs[Ascending(J)[k]]]
    BY <1>20 DEF Choose
  <1>23. OwnTransitions(s, y) = [k \in 1 .. Cardinality(I) |-> TransitionEntry(arcs[Ascending(J)[k]])]
    BY <1>10, <1>22
  <1>24. \A k \in 1 .. Cardinality(I) : r[Ascending(I)[k]] = TransitionEntry(arcs[Ascending(J)[k]])
    <2> SUFFICES ASSUME NEW k \in 1 .. Cardinality(I)
                 PROVE  r[Ascending(I)[k]] = TransitionEntry(arcs[Ascending(J)[k]])
      OBVIOUS
    <2> DEFINE j == Ascending(I)[k]
    <2>1. j \in I /\ f[j] = Ascending(J)[k]
      BY <1>19
    <2> HIDE DEF j
    <2>2. j \in 1 .. m /\ f[j] = O[c + j]
      BY <1>11, <1>16, <2>1
    <2>3. r[j] = TransitionEntry(arcs[O[c + j]])
      BY <1>4, <2>2
    <2> QED
      BY <2>1, <2>2, <2>3 DEF j
  <1>25. Choose(r, I) = OwnTransitions(s, y)
    BY <1>21, <1>23, <1>24
  <1> QED
    BY <1>25 DEF I
(* Taking every element of a sequence leaves it as it is. *)
LEMMA ChooseAll ==
    ASSUME NEW T, NEW r \in Seq(T)
    PROVE  Choose(r, DOMAIN r) = r
  <1> DEFINE n == Len(r)
             D == 1 .. n
             f == [k \in 1 .. n |-> k]
  <1>1. n \in Nat /\ DOMAIN r = D
    OBVIOUS
  <1>2. IsFiniteSet(D) /\ Cardinality(D) = n /\ D \subseteq Int
    BY <1>1, IntervalSize
  <1>3. f \in [1 .. n -> D] /\ \A i, j \in 1 .. n : i < j => f[i] < f[j]
    OBVIOUS
  <1> HIDE DEF D, f
  <1>4. f = Ascending(D)
    BY <1>2, <1>3, AscendingUnique
  <1>5. Choose(r, D) = [k \in 1 .. n |-> r[k]]
    BY <1>4 DEF f, Choose
  <1> QED
    BY <1>1, <1>5

(* A symbol's transitions follow those that symbol_offset counts; epsilons   *)
(* and flags are the first ones.                                             *)
LEMMA SymbolBlocks ==
    ASSUME WrittenInv, pc = "done", NEW s \in States(graph)
    PROVE  /\ Closed(s, {}) /\ Closed(s, WithSymbols(s, {0} \cup flag_symbols))
           /\ \A x \in Nat \ ({0} \cup flag_symbols) :
                LET C == {k \in DOMAIN placeholders[s] : \/ placeholders[s][k].input = 0
                                                         \/ placeholders[s][k].input \in flag_symbols
                                                         \/ placeholders[s][k].input < x}
                IN  /\ Closed(s, C) /\ Closed(s, C \cup WithSymbols(s, {x}))
                    /\ C \cap WithSymbols(s, {x}) = {}
                    /\ Cardinality(C) = SymbolOffset(x, placeholders[s], flag_symbols)
  <1> DEFINE arcs == placeholders[s]
             D == DOMAIN arcs
             in(k) == arcs[k].input
             eps == {0} \cup flag_symbols
  <1>1. \A k \in D : in(k) \in Nat
    <2>1. \A k \in D : arcs[k] \in NumberedArc
      BY AtTheEnd
    <2> QED
      BY <2>1 DEF NumberedArc
  <1>2. \A j, k \in D : << j, k >> \in WrittenBefore(arcs) => SymbolBefore(in(j), in(k)) \/ in(j) = in(k)
    BY DEF WrittenBefore
  <1>3. \A x : WriteClass(x) = (IF x = 0 THEN 0 ELSE IF x \in eps THEN 1 ELSE 2)
    BY DEF WriteClass
  <1> HIDE DEF in, D, arcs, eps
  <1>5. \A j, k \in D : << j, k >> \in WrittenBefore(arcs) =>
          /\ in(k) \in eps => in(j) \in eps
          /\ in(k) \notin eps => in(j) \in eps \/ in(j) <= in(k)
    <2> SUFFICES ASSUME NEW j \in D, NEW k \in D, << j, k >> \in WrittenBefore(arcs)
                 PROVE  /\ in(k) \in eps => in(j) \in eps
                        /\ in(k) \notin eps => in(j) \in eps \/ in(j) <= in(k)
      OBVIOUS
    <2>1. in(j) \in Nat /\ in(k) \in Nat
      BY <1>1
    <2>2. CASE SymbolBefore(in(j), in(k))
      <3> DEFINE x == in(j)
                 y == in(k)
      <3>1. x \in Nat /\ y \in Nat /\ SymbolBefore(x, y)
        BY <2>1, <2>2
      <3> HIDE DEF x, y
      <3>2. (y \in eps => x \in eps) /\ (y \notin eps => x \in eps \/ x <= y)
        <4>1. 0 \in eps
          BY DEF eps
        <4>2. /\ WriteClass(x) = (IF x = 0 THEN 0 ELSE IF x \in eps THEN 1 ELSE 2)
              /\ WriteClass(y) = (IF y = 0 THEN 0 ELSE IF y \in eps THEN 1 ELSE 2)
          BY <1>3
        <4> QED
          BY <3>1, <4>1, <4>2 DEF SymbolBefore
      <3> QED
        BY <3>2 DEF x, y
    <2>3. CASE in(j) = in(k)
      BY <2>1, <2>3
    <2> QED
      BY <1>2, <2>2, <2>3
  <1>6. Closed(s, {})
    BY DEF Closed
  <1>7. Closed(s, WithSymbols(s, eps))
    BY <1>5 DEF Closed, WithSymbols, arcs, D, in
  <1>8. ASSUME NEW x \in Nat \ eps,
               NEW C, C = {k \in D : in(k) \in eps \/ in(k) < x}
        PROVE  /\ Closed(s, C) /\ Closed(s, C \cup WithSymbols(s, {x}))
               /\ C \cap WithSymbols(s, {x}) = {}
    <2> DEFINE X == {k \in D : in(k) = x}
    <2>1. WithSymbols(s, {x}) = X
      BY DEF WithSymbols, X, D, in, arcs
    <2>2. \A k \in C : \A j \in D : << j, k >> \in WrittenBefore(arcs) => j \in C
      BY <1>1, <1>5, <1>8
    <2>3. \A k \in X : \A j \in D : << j, k >> \in WrittenBefore(arcs) => j \in C \cup X
      BY <1>1, <1>5, <1>8
    <2>4. C \cap X = {}
      BY <1>1, <1>8
    <2>5. \A k \in C \cup X : \A j \in D : << j, k >> \in WrittenBefore(arcs) => j \in C \cup X
      BY <2>2, <2>3
    <2> HIDE DEF X
    <2> QED
      BY <2>1, <2>2, <2>4, <2>5 DEF Closed, D, arcs
  <1>9. ASSUME NEW x \in Nat \ eps
        PROVE  LET C == {k \in DOMAIN placeholders[s] : \/ placeholders[s][k].input = 0
                                                        \/ placeholders[s][k].input \in flag_symbols
                                                        \/ placeholders[s][k].input < x}
               IN  /\ Closed(s, C) /\ Closed(s, C \cup WithSymbols(s, {x}))
                   /\ C \cap WithSymbols(s, {x}) = {}
                   /\ Cardinality(C) = SymbolOffset(x, placeholders[s], flag_symbols)
    <2> DEFINE C == {k \in DOMAIN placeholders[s] : \/ placeholders[s][k].input = 0
                                                    \/ placeholders[s][k].input \in flag_symbols
                                                    \/ placeholders[s][k].input < x}
    <2>1. C = {k \in D : in(k) \in eps \/ in(k) < x}
      BY DEF D, in, arcs, eps
    <2>2. Cardinality(C) = SymbolOffset(x, placeholders[s], flag_symbols)
      BY DEF SymbolOffset, eps
    <2> HIDE DEF C
    <2>3. /\ Closed(s, C) /\ Closed(s, C \cup WithSymbols(s, {x}))
          /\ C \cap WithSymbols(s, {x}) = {}
      BY <1>8, <2>1
    <2> QED
      BY <2>2, <2>3 DEF C
  <1> QED
    BY <1>6, <1>7, <1>9 DEF eps
-----------------------------------------------------------------------------
(* What an index entry for symbol x leads to. *)

\* The symbols whose transitions are found under x: 0 stands for epsilon and
\* for every flag diacritic.
SymbolsUnder(x) == IF x = 0 THEN {0} \cup flag_symbols ELSE {x}

LEMMA SameElement ==
    ASSUME NEW S, IsFiniteSet(S), Cardinality(S) <= 1, NEW x \in S, NEW y \in S
    PROVE  x = y
  <1> SUFFICES ASSUME x # y PROVE FALSE
    OBVIOUS
  <1>1. /\ IsFiniteSet(S \ {x}) /\ Cardinality(S \ {x}) = Cardinality(S) - 1
        /\ Cardinality(S) \in Nat /\ Cardinality(S \ {x}) \in Nat
    BY FS_RemoveElement, FS_CardinalityType
  <1>2. Cardinality(S \ {x}) = 0
    BY <1>1
  <1>3. S \ {x} = {}
    BY <1>1, <1>2, FS_EmptySet
  <1> QED
    BY <1>3

LEMMA UnderOffset ==
    ASSUME WrittenInv, pc = "done", NEW s \in States(graph), NEW x, x \notin flag_symbols
    PROVE  /\ x \in StateOffsets(s) <=> WithSymbols(s, SymbolsUnder(x)) # {}
           /\ SimpleState(s) /\ x \in StateOffsets(s) =>
                WithSymbols(s, SymbolsUnder(x)) = DOMAIN placeholders[s]
  <1> DEFINE arcs == placeholders[s]
             D == DOMAIN arcs
             in(k) == arcs[k].input
             T == StateOffsets(s)
             B == WithSymbols(s, SymbolsUnder(x))
             f == [k \in D |-> IndexOffset(in(k), flag_symbols)]
  <1>1. T = {IndexOffset(in(k), flag_symbols) : k \in D}
    BY DEF StateOffsets, Offsets, Inputs
  <1>2. B = {k \in D : in(k) \in SymbolsUnder(x)}
    BY DEF WithSymbols
  <1>3. \A k \in D : in(k) \in SymbolsUnder(x) <=> IndexOffset(in(k), flag_symbols) = x
    BY DEF SymbolsUnder, IndexOffset
  <1>4. IsFiniteSet(D)
    <2>1. arcs \in Seq(NumberedArc)
      BY AtTheEnd
    <2> QED
      BY <2>1, WriteOrderStrict
  <1>5. SimpleState(s) => Cardinality(T) <= 1
    BY DEF SimpleState, IsSimple, StateOffsets
  <1> HIDE DEF arcs, D, in, T, B
  <1>6. x \in T <=> B # {}
    BY <1>1, <1>2, <1>3
  <1>7. IsFiniteSet(T)
    <2>1. f \in Surjection(D, T)
      BY <1>1 DEF Surjection
    <2> HIDE DEF f
    <2> QED
      BY <1>4, <2>1, FS_Surjection
  <1>8. ASSUME SimpleState(s), x \in T
        PROVE  B = D
    <2>1. \A k \in D : IndexOffset(in(k), flag_symbols) \in T
      BY <1>1
    <2>2. \A k \in D : IndexOffset(in(k), flag_symbols) = x
      BY <1>5, <1>7, <1>8, <2>1, SameElement
    <2> QED
      BY <1>2, <1>3, <2>2
  <1> QED
    BY <1>6, <1>8 DEF T, B, D, arcs

(* The transitions under x are one block, symbol_offset entries from the     *)
(* state's first one.                                                        *)
LEMMA UnderBlock ==
    ASSUME WrittenInv, pc = "done", NEW s \in States(graph), NEW x \in Nat, x \notin flag_symbols
    PROVE  \E C \in SUBSET DOMAIN placeholders[s] :
             /\ Closed(s, C) /\ Closed(s, C \cup WithSymbols(s, SymbolsUnder(x)))
             /\ C \cap WithSymbols(s, SymbolsUnder(x)) = {}
             /\ Cardinality(C) = SymbolOffset(x, placeholders[s], flag_symbols)
  <1>1. CASE x = 0
    <2> DEFINE C == {}
               B == WithSymbols(s, SymbolsUnder(x))
    <2>1. Closed(s, C) /\ Closed(s, B)
      BY <1>1, SymbolBlocks DEF SymbolsUnder
    <2>2. Cardinality(C) = 0 /\ SymbolOffset(x, placeholders[s], flag_symbols) = 0
      BY <1>1, FS_EmptySet DEF SymbolOffset
    <2>3. C \cup B = B /\ C \cap B = {} /\ C \in SUBSET DOMAIN placeholders[s]
      OBVIOUS
    <2> HIDE DEF C, B
    <2> QED
      BY <2>1, <2>2, <2>3 DEF B
  <1>2. CASE x # 0
    <2> DEFINE C == {k \in DOMAIN placeholders[s] : \/ placeholders[s][k].input = 0
                                                    \/ placeholders[s][k].input \in flag_symbols
                                                    \/ placeholders[s][k].input < x}
               B == WithSymbols(s, SymbolsUnder(x))
    <2>1. SymbolsUnder(x) = {x} /\ x \in Nat \ ({0} \cup flag_symbols)
      BY <1>2 DEF SymbolsUnder
    <2>2. /\ Closed(s, C) /\ Closed(s, C \cup B) /\ C \cap B = {}
          /\ Cardinality(C) = SymbolOffset(x, placeholders[s], flag_symbols)
      BY <2>1, SymbolBlocks
    <2>3. C \in SUBSET DOMAIN placeholders[s]
      OBVIOUS
    <2> HIDE DEF C, B
    <2> QED
      BY <2>2, <2>3 DEF B
  <1> QED
    BY <1>1, <1>2

(* find_index at a state: a simple state's transitions start behind its      *)
(* marker; for another state the index table has an entry for x exactly when *)
(* it has transitions under x.                                               *)
LEMMA IndexFound ==
    ASSUME WrittenInv, pc = "done", Addressable, NEW s \in States(graph),
           NEW x \in 0 .. seen_input_symbols - 1
    PROVE  LET a == StateAddress(s)
           IN  /\ SimpleState(s) => /\ FindIndex(windex_table, a, x) = {a + 1}
                                    /\ TableAddress(a + 1) = First[s]
               /\ ~ SimpleState(s) /\ x \notin StateOffsets(s) => FindIndex(windex_table, a, x) = {}
               /\ ~ SimpleState(s) /\ x \in StateOffsets(s) =>
                    \E i : /\ FindIndex(windex_table, a, x) = {i}
                           /\ TableAddress(i) = First[s] + SymbolOffset(x, placeholders[s], flag_symbols)
  <1> DEFINE a == StateAddress(s)
             p == a + 1 + x
             off == SymbolOffset(x, placeholders[s], flag_symbols)
  <1>1. seen_input_symbols \in Nat /\ x \in Nat /\ x < NO_SYMBOL_NUMBER /\ NO_SYMBOL_NUMBER \in Nat
    <2>1. /\ seen_input_symbols \in 1 .. Len(symbol_table) /\ Len(symbol_table) \in Nat
          /\ Len(symbol_table) <= NO_SYMBOL_NUMBER
      BY AtTheEnd DEF NumbersBounded
    <2> QED
      BY <2>1, ConstantsAssumption
  <1>2. CASE SimpleState(s)
    <2>1. a = First[s] + TRANSITION_TARGET_TABLE_START - 1 /\ First[s] \in Nat /\ First[s] >= 1
      BY <1>2, AddressType, FirstFacts
    <2>2. IndexesTransitionTable(a) /\ TableAddress(a + 1) = First[s]
      BY <2>1, AddressArithmetic
    <2> QED
      BY <1>2, <2>2 DEF FindIndex
  <1>3. CASE ~ SimpleState(s)
    <2>1. s \in DOMAIN start_index /\ a = start_index[s] /\ a \in Nat
      BY <1>3, AddressType
    <2>2. Len(windex_table) \in Nat /\ a + seen_input_symbols < Len(windex_table)
      BY <2>1, IndexTableFacts
    <2>3. Len(windex_table) <= TRANSITION_TARGET_TABLE_START /\ TRANSITION_TARGET_TABLE_START \in Nat
      BY ConstantsAssumption DEF Addressable
    <2> HIDE DEF a
    <2>4. /\ p \in Nat /\ p \in 0 .. Len(windex_table) - 1
          /\ p < TRANSITION_TARGET_TABLE_START /\ a < TRANSITION_TARGET_TABLE_START
      BY <1>1, <2>1, <2>2, <2>3
    <2>5. ~ IndexesTransitionTable(a) /\ TableAddress(p) = p
      BY <2>1, <2>4, AddressArithmetic
    <2> DEFINE e == IndexTableEntry(p)
    <2>6. At(windex_table, p) = e
      BY <2>4, <2>5, IndexTableFacts DEF At
    <2>7. FindIndex(windex_table, a, x) = {e.target : q \in {z \in {x} : Matches(e, z)}}
      BY <2>5, <2>6 DEF FindIndex
    <2>8. /\ (p \in DOMAIN used_indices /\ used_indices[p][2] = x) <=> x \in StateOffsets(s)
          /\ x \in StateOffsets(s) => used_indices[p][1] = s
      <3>1. NoFalseHit
        BY AtTheEnd, OwnershipGivesNoFalseHit
      <3>2. x \in 0 .. NO_SYMBOL_NUMBER - 1 /\ start_index[s] + 1 + x = p
        BY <1>1, <2>1
      <3> QED
        BY <2>1, <3>1, <3>2 DEF NoFalseHit
    <2>9. CASE x \in StateOffsets(s)
      <3>1. p \in DOMAIN used_indices /\ used_indices[p][2] = x /\ used_indices[p][1] = s
        BY <2>8, <2>9
      <3>2. e = IndexEntry(x, First[s] + off + TRANSITION_TARGET_TABLE_START)
        BY <1>1, <3>1 DEF IndexTableEntry, First
      <3> HIDE DEF e, off
      <3>3. e.input = x /\ e.target = First[s] + off + TRANSITION_TARGET_TABLE_START
        BY <3>2 DEF IndexEntry
      <3>4. Matches(e, x)
        BY <1>1, <3>3 DEF Matches
      <3>5. FindIndex(windex_table, a, x) = {e.target}
        BY <2>7, <3>4
      <3>6. off \in Nat /\ First[s] \in Nat
        <4>1. IsFiniteSet(DOMAIN placeholders[s])
          BY AtTheEnd, WriteOrderStrict
        <4>2. \A S \in SUBSET DOMAIN placeholders[s] : Cardinality(S) \in Nat
          BY <4>1, FS_Subset, FS_CardinalityType
        <4> QED
          BY <4>2, FirstFacts DEF off, SymbolOffset
      <3>7. TableAddress(e.target) = First[s] + off
        <4> DEFINE y == First[s] + off
        <4>1. y \in Nat /\ e.target = y + TRANSITION_TARGET_TABLE_START
          BY <3>3, <3>6
        <4> HIDE DEF y
        <4> QED
          BY <4>1, AddressArithmetic DEF y
      <3> QED
        BY <1>3, <2>9, <3>5, <3>7 DEF a, off
    <2>10. CASE x \notin StateOffsets(s)
      <3>1. ~ (p \in DOMAIN used_indices /\ used_indices[p][2] = x)
        BY <2>8, <2>10
      <3>2. ~ Matches(e, x)
        BY <1>1, <3>1 DEF Matches, IndexTableEntry, BlankIndex, FinalIndex, IndexEntry
      <3> HIDE DEF e
      <3>3. FindIndex(windex_table, a, x) = {}
        BY <2>7, <3>2
      <3> QED
        BY <1>3, <2>10, <3>3 DEF a
    <2> QED
      BY <2>9, <2>10
  <1> QED
    BY <1>2, <1>3
LEMMA EmptyBlock ==
    ASSUME WrittenInv, pc = "done", NEW s \in States(graph)
    PROVE  Block(s, << >>, {}, 0)
  <1>1. Len(placeholders[s]) \in Nat
    BY FirstFacts
  <1>2. << >> \in Seq(NumberedArc) /\ Len(<< >>) = 0 /\ Cardinality({}) = 0
    BY FS_EmptySet
  <1> QED
    BY <1>1, <1>2 DEF Block

\* What a lookup under symbol x reads at the address of state s.
ReadUnder(s, x) ==
    Found(UNION {{Run(wtransition_table, i, SymbolsUnder(x))} :
                   i \in FindIndex(windex_table, StateAddress(s), x)})

(* Reading under x gives the transitions under x and no others. *)
LEMMA ReadBlock ==
    ASSUME WrittenInv, pc = "done", Addressable, NEW s \in States(graph),
           NEW x \in 0 .. seen_input_symbols - 1, x \notin flag_symbols
    PROVE  \E c : Block(s, ReadUnder(s, x), WithSymbols(s, SymbolsUnder(x)), c)
  <1> DEFINE S == SymbolsUnder(x)
             B == WithSymbols(s, S)
             D == DOMAIN placeholders[s]
             tt == wtransition_table
             a == StateAddress(s)
             found == FindIndex(windex_table, a, x)
  <1>1. x \in Nat /\ NO_SYMBOL_NUMBER \notin S
    <2>1. /\ seen_input_symbols \in 1 .. Len(symbol_table) /\ Len(symbol_table) \in Nat
          /\ Len(symbol_table) <= NO_SYMBOL_NUMBER
          /\ NumberingKept
      BY AtTheEnd DEF NumbersBounded, WrittenInv
    <2>2. flag_symbols = NumbersOf(symbol_table, InputsUsed \cap FlagNames)
      BY <2>1 DEF NumberingKept
    <2>3. \A y \in flag_symbols : y < NO_SYMBOL_NUMBER
      BY <2>1, <2>2, ConstantsAssumption DEF NumbersOf
    <2>4. x \in Nat /\ x < NO_SYMBOL_NUMBER /\ 0 < NO_SYMBOL_NUMBER /\ NO_SYMBOL_NUMBER \in Nat
      BY <2>1, ConstantsAssumption
    <2> QED
      BY <2>3, <2>4 DEF SymbolsUnder
  <1>2. \A i : found = {i} => ReadUnder(s, x) = Run(tt, i, S)
    <2> SUFFICES ASSUME NEW i, found = {i} PROVE ReadUnder(s, x) = Run(tt, i, S)
      OBVIOUS
    <2> DEFINE runs == UNION {{Run(tt, j, S)} : j \in found}
    <2>1. runs = {Run(tt, i, S)}
      OBVIOUS
    <2>2. ReadUnder(s, x) = Found(runs)
      BY DEF ReadUnder
    <2> HIDE DEF runs
    <2> QED
      BY <2>1, <2>2 DEF Found
  <1>3. found = {} => ReadUnder(s, x) = << >>
    BY DEF ReadUnder, Found
  <1>4. /\ x \in StateOffsets(s) <=> B # {}
        /\ SimpleState(s) /\ x \in StateOffsets(s) => B = D
    BY UnderOffset
  <1>5. B \subseteq D
    BY DEF WithSymbols
  <1>6. CASE SimpleState(s)
    <2> DEFINE C == {}
    <2>1. found = {a + 1} /\ TableAddress(a + 1) = First[s] /\ First[s] \in Nat
      BY <1>6, IndexFound, FirstFacts
    <2>2. Cardinality({}) = 0
      BY FS_EmptySet
    <2>3. TableAddress(a + 1) = First[s] + Cardinality(C)
      BY <2>1, <2>2
    <2>4. B = {} \/ B = D
      BY <1>4, <1>6
    <2>5. Closed(s, C) /\ Closed(s, C \cup B)
      BY <2>4 DEF Closed
    <2>6. C \in SUBSET D /\ C \cap B = {}
      OBVIOUS
    <2> HIDE DEF C
    <2>7. Block(s, Run(tt, a + 1, S), B, Cardinality(C))
      <3> DEFINE i == a + 1
      <3>1. TableAddress(i) = First[s] + Cardinality(C)
        BY <2>3
      <3> HIDE DEF i, S
      <3>2. Block(s, Run(wtransition_table, i, S), B, Cardinality(C))
        BY <1>1, <2>5, <2>6, <3>1, BlockRead
      <3> QED
        BY <3>2 DEF i
    <2> QED
      BY <1>2, <2>1, <2>7
  <1>7. CASE ~ SimpleState(s) /\ x \in StateOffsets(s)
    <2>1. PICK i : /\ found = {i}
                   /\ TableAddress(i) = First[s] + SymbolOffset(x, placeholders[s], flag_symbols)
      BY <1>7, IndexFound
    <2>2. PICK C \in SUBSET D :
             /\ Closed(s, C) /\ Closed(s, C \cup B) /\ C \cap B = {}
             /\ Cardinality(C) = SymbolOffset(x, placeholders[s], flag_symbols)
      BY <1>1, UnderBlock
    <2>3. Block(s, Run(tt, i, S), B, Cardinality(C))
      <3>1. TableAddress(i) = First[s] + Cardinality(C)
        BY <2>1, <2>2
      <3> HIDE DEF S
      <3> QED
        BY <1>1, <2>2, <3>1, BlockRead
    <2> QED
      BY <1>2, <2>1, <2>3
  <1>8. CASE ~ SimpleState(s) /\ x \notin StateOffsets(s)
    <2>1. found = {} /\ B = {}
      BY <1>4, <1>8, IndexFound
    <2> QED
      BY <1>3, <2>1, EmptyBlock
  <1> QED
    BY <1>6, <1>7, <1>8

\* The tables represent the transducer: following them from the address of a
\* state gives the transitions of that state, symbol by symbol and in their
\* order, each leading to the address of its target - whatever the states are
\* and wherever they were packed, as long as the addresses fit.
THEOREM TransitionsCorrect == Spec => [](Addressable => TransitionsFaithful)
  <1>1. ASSUME WrittenInv, pc = "done", Addressable, NEW s \in States(graph),
               NEW x \in (1 .. seen_input_symbols - 1) \ flag_symbols
        PROVE  Found(FindTransitions(windex_table, wtransition_table, StateAddress(s), x))
                 = OwnTransitions(s, x)
    <2> DEFINE r == ReadUnder(s, x)
               B == WithSymbols(s, {x})
    <2>1. x \in 0 .. seen_input_symbols - 1 /\ x \notin flag_symbols /\ SymbolsUnder(x) = {x}
      BY <1>1 DEF SymbolsUnder
    <2>2. PICK c : Block(s, r, B, c)
      BY <1>1, <2>1, ReadBlock
    <2>3. B \in SUBSET DOMAIN placeholders[s]
      BY DEF WithSymbols
    <2>4. r = Found(FindTransitions(windex_table, wtransition_table, StateAddress(s), x))
      BY <2>1 DEF ReadUnder, FindTransitions
    <2>5. r \in Seq(NumberedArc) /\ \A j \in DOMAIN r : r[j].input = x
      <3>1. /\ r \in Seq(NumberedArc)
            /\ \A j \in 1 .. Len(r) : \E k \in B : r[j] = TransitionEntry(placeholders[s][k])
        BY <2>2 DEF Block
      <3>2. \A k \in B : TransitionEntry(placeholders[s][k]).input = x
        BY DEF WithSymbols, TransitionEntry, Transition
      <3> HIDE DEF r, B
      <3>3. DOMAIN r = 1 .. Len(r)
        BY <3>1
      <3> QED
        BY <3>1, <3>2, <3>3
    <2> HIDE DEF r
    <2>6. {j \in DOMAIN r : r[j].input = x} = DOMAIN r
      BY <2>5
    <2>7. Choose(r, {j \in DOMAIN r : r[j].input = x}) = OwnTransitions(s, x)
      BY <1>1, <2>2, <2>3, BlockKeepsOrder
    <2>8. Choose(r, DOMAIN r) = r
      BY <2>5, ChooseAll
    <2> QED
      BY <2>4, <2>6, <2>7, <2>8
  <1>2. ASSUME WrittenInv, pc = "done", Addressable, NEW s \in States(graph)
        PROVE  LET eps == {0} \cup flag_symbols
                   read == Found(TryEpsilons(windex_table, wtransition_table, StateAddress(s), flag_symbols))
               IN  /\ Len(read) = Cardinality({k \in DOMAIN placeholders[s] : placeholders[s][k].input \in eps})
                   /\ \A y \in eps : Choose(read, {i \in DOMAIN read : read[i].input = y}) = OwnTransitions(s, y)
    <2> DEFINE eps == {0} \cup flag_symbols
               r == ReadUnder(s, 0)
               B == WithSymbols(s, eps)
    <2>1. 0 \in 0 .. seen_input_symbols - 1 /\ 0 \notin flag_symbols /\ SymbolsUnder(0) = eps
      <3>1. NumbersBounded /\ Len(symbol_table) \in Nat
        BY <1>2, AtTheEnd DEF NumbersBounded
      <3> QED
        BY <3>1 DEF SymbolsUnder, NumbersBounded
    <2>2. PICK c : Block(s, r, B, c)
      BY <1>2, <2>1, ReadBlock
    <2>3. r = Found(TryEpsilons(windex_table, wtransition_table, StateAddress(s), flag_symbols))
      BY <2>1 DEF ReadUnder, TryEpsilons
    <2>4. B = {k \in DOMAIN placeholders[s] : placeholders[s][k].input \in eps}
      BY DEF WithSymbols
    <2>5. \A y \in eps : WithSymbols(s, {y}) \subseteq B
      BY DEF WithSymbols
    <2>6. Len(r) = Cardinality(B)
      BY <2>2 DEF Block
    <2> HIDE DEF r
    <2>7. B \in SUBSET DOMAIN placeholders[s]
      BY <2>4
    <2> HIDE DEF B
    <2>8. ASSUME NEW y \in eps
          PROVE  Choose(r, {j \in DOMAIN r : r[j].input = y}) = OwnTransitions(s, y)
      <3>1. WithSymbols(s, {y}) \subseteq B
        BY <2>5
      <3> HIDE DEF eps
      <3> QED
        BY <1>2, <2>2, <2>7, <3>1, BlockKeepsOrder
    <2> QED
      BY <2>3, <2>4, <2>6, <2>8
  <1>3. WrittenInv => (Addressable => TransitionsFaithful)
    BY <1>1, <1>2 DEF TransitionsFaithful
  <1> QED
    BY <1>3, WrittenInvariant, PTL

-----------------------------------------------------------------------------
(* Where the start state is.                                               *)

\* The start state is the first one packed, so its address is 0.
RootInv ==
    /\ it = 0 => DOMAIN used_indices = {} /\ first_available_index = 0
    /\ it > 0 => 0 \in DOMAIN start_index /\ start_index[0] = 0

LEMMA InitRoot == Init => RootInv
  BY DEF Init, RootInv

LEMMA RootStep == WrittenInv /\ RootInv /\ [Next]_vars => RootInv'
  <1> SUFFICES ASSUME WrittenInv, RootInv, [Next]_vars
               PROVE  RootInv'
    OBVIOUS
  <1> USE DEF inputVars, symbolVars, packVars, tableVars
  <1>1. TypeOK /\ it \in Nat
    BY DEF WrittenInv, TableInv, IndexInv, TypeOK
  <1>2. CASE SkipSimpleState
    <2>1. it # 0
      BY <1>2 DEF SkipSimpleState, SimpleState, IsSimple
    <2> QED
      BY <1>1, <1>2, <2>1 DEF SkipSimpleState, RootInv
  <1>3. CASE PackState
    <2>1. PICK i \in first_available_index .. first_available_index + Beyond(used_indices) :
            start_index' = [s \in DOMAIN start_index \cup {it} |-> IF s = it THEN i ELSE start_index[s]]
      BY <1>3 DEF PackState
    <2>2. it' = it + 1
      BY <1>3 DEF PackState
    <2>3. CASE it = 0
      <3>1. first_available_index = 0 /\ Beyond(used_indices) = 0
        BY <2>3 DEF RootInv, Beyond
      <3>2. i = 0
        BY <2>1, <3>1
      <3> QED
        BY <2>1, <2>2, <2>3, <3>2 DEF RootInv
    <2>4. CASE it # 0
      <3>1. 0 \in DOMAIN start_index /\ start_index[0] = 0
        BY <1>1, <2>4 DEF RootInv
      <3>2. it' # 0
        BY <1>1, <2>2
      <3> QED
        BY <2>1, <2>4, <3>1, <3>2 DEF RootInv
    <2> QED
      BY <2>3, <2>4
  <1>4. CASE ~ SkipSimpleState /\ ~ PackState
    <2>1. UNCHANGED << it, used_indices, first_available_index, start_index >>
      BY <1>4 DEF Next, GetStatesAndSymbols, PackingDone, WriteIndexTable, WriteTransitionTable,
                  Converted, vars
    <2> QED
      BY <2>1 DEF RootInv
  <1> QED
    BY <1>2, <1>3, <1>4

=============================================================================

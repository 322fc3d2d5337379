----------------------- MODULE ComposeIntersectProofs -----------------------
(***************************************************************************)
(* Proofs about ComposeIntersect, for every lexicon, any number of         *)
(* deterministic rules and both directions: the numbers that the rule      *)
(* pairs give to their states never change their meaning, the transitions  *)
(* they compute when asked are those of the intersection of the rules, and *)
(* the agenda explores the product of the lexicon and the rules.           *)
(***************************************************************************)
EXTENDS ComposeIntersect, FiniteSetTheorems, SequenceTheorems, TLAPS

-----------------------------------------------------------------------------
(* Numbers and finite sets in order. *)

(* A set of numbers that is not empty has a least element, and a greatest  *)
(* one when it is bounded.                                                 *)
LEMMA LeastNumber ==
    ASSUME NEW T, T \subseteq Nat, T # {}
    PROVE  \E x \in T : \A y \in T : x <= y
  <1> DEFINE R == {ss \in Nat \X Nat : ss[1] < ss[2]}
  <1>1. IsWellFoundedOn(R, Nat)
    BY NatLessThanWellFounded DEF OpToRel
  <1> HIDE DEF R
  <1>2. \E x \in T : \A y \in T : ~ (<< y, x >> \in R)
    BY <1>1, WFMin
  <1>3. \A x, y \in Nat : y < x => << y, x >> \in R
    BY DEF R
  <1>4. PICK x \in T : \A y \in T : ~ (<< y, x >> \in R)
    BY <1>2
  <1>5. x \in Nat /\ \A y \in T : y \in Nat /\ ~ (y < x)
    BY <1>3, <1>4
  <1>6. \A y \in T : x <= y
    BY <1>5
  <1> QED
    BY <1>6

LEMMA GreatestNumber ==
    ASSUME NEW T, T \subseteq Nat, T # {}, NEW b \in Nat, \A t \in T : t <= b
    PROVE  \E x \in T : \A y \in T : x >= y
  <1> DEFINE U == {b - t : t \in T}
  <1>1. U \subseteq Nat /\ U # {}
    <2>1. \A t \in T : b - t \in Nat
      OBVIOUS
    <2> QED
      BY <2>1
  <1>2. PICK u \in U : \A v \in U : u <= v
    BY <1>1, LeastNumber
  <1>3. PICK x \in T : u = b - x
    OBVIOUS
  <1>4. \A y \in T : b - x <= b - y
    BY <1>2, <1>3
  <1> QED
    BY <1>4

\* R orders S strictly and totally.
StrictOrder(S, R) ==
    /\ \A x \in S : << x, x >> \notin R
    /\ \A x, y, z \in S : << x, y >> \in R /\ << y, z >> \in R => << x, z >> \in R
    /\ \A x, y \in S : x = y \/ << x, y >> \in R \/ << y, x >> \in R

\* f lists elements of S in the order R.
Lists(f, n, S, R) ==
    /\ f \in [1 .. n -> S]
    /\ \A i, j \in 1 .. n : i < j => << f[i], f[j] >> \in R

Earlier(S, R, x) == {y \in S : << y, x >> \in R}

(* An element that comes later has more elements before it. *)
LEMMA EarlierGrows ==
    ASSUME NEW S, IsFiniteSet(S), NEW R, StrictOrder(S, R)
    PROVE  /\ \A x \in S : /\ IsFiniteSet(Earlier(S, R, x))
                           /\ Cardinality(Earlier(S, R, x)) \in 0 .. Cardinality(S) - 1
           /\ \A x, y \in S : << x, y >> \in R =>
                Cardinality(Earlier(S, R, x)) < Cardinality(Earlier(S, R, y))
  <1>1. ASSUME NEW x \in S
        PROVE  /\ IsFiniteSet(Earlier(S, R, x))
               /\ Cardinality(Earlier(S, R, x)) \in 0 .. Cardinality(S) - 1
    <2>1. Earlier(S, R, x) \in SUBSET (S \ {x})
      BY DEF Earlier, StrictOrder
    <2>2. IsFiniteSet(S \ {x}) /\ Cardinality(S \ {x}) = Cardinality(S) - 1
      BY FS_RemoveElement
    <2>3. IsFiniteSet(Earlier(S, R, x)) /\ Cardinality(Earlier(S, R, x)) <= Cardinality(S \ {x})
      BY <2>1, <2>2, FS_Subset
    <2>4. Cardinality(Earlier(S, R, x)) \in Nat /\ Cardinality(S) \in Nat
      BY <2>3, FS_CardinalityType
    <2> QED
      BY <2>2, <2>3, <2>4
  <1>2. ASSUME NEW x \in S, NEW y \in S, << x, y >> \in R
        PROVE  Cardinality(Earlier(S, R, x)) < Cardinality(Earlier(S, R, y))
    <2>1. Earlier(S, R, x) \in SUBSET Earlier(S, R, y)
      BY <1>2 DEF Earlier, StrictOrder
    <2>2. x \in Earlier(S, R, y) /\ x \notin Earlier(S, R, x)
      BY <1>2 DEF Earlier, StrictOrder
    <2>3. /\ IsFiniteSet(Earlier(S, R, y))
          /\ Cardinality(Earlier(S, R, y)) \in 0 .. Cardinality(S) - 1
          /\ Cardinality(Earlier(S, R, x)) \in 0 .. Cardinality(S) - 1
      BY <1>1
    <2>4. /\ Cardinality(Earlier(S, R, x)) <= Cardinality(Earlier(S, R, y))
          /\ Cardinality(Earlier(S, R, x)) # Cardinality(Earlier(S, R, y))
      BY <2>1, <2>2, <2>3, FS_Subset
    <2>5. Cardinality(S) \in Nat
      BY FS_CardinalityType
    <2> QED
      BY <2>3, <2>4, <2>5
  <1> QED
    BY <1>1, <1>2

(* Ordered lists every element, in order. *)
LEMMA OrderedLists ==
    ASSUME NEW S, IsFiniteSet(S), NEW R, StrictOrder(S, R)
    PROVE  /\ Cardinality(S) \in Nat
           /\ Lists(Ordered(S, R), Cardinality(S), S, R)
           /\ \A k \in 1 .. Cardinality(S) : Cardinality(Earlier(S, R, Ordered(S, R)[k])) = k - 1
           /\ \A x \in S : \E k \in 1 .. Cardinality(S) : Ordered(S, R)[k] = x
  <1> DEFINE n == Cardinality(S)
             rank == [x \in S |-> Cardinality(Earlier(S, R, x)) + 1]
             O == Ordered(S, R)
  <1>1. n \in Nat
    BY FS_CardinalityType
  <1>2. \A x \in S : Cardinality(Earlier(S, R, x)) \in 0 .. n - 1
    BY EarlierGrows
  <1>3. \A x, y \in S : << x, y >> \in R =>
          Cardinality(Earlier(S, R, x)) < Cardinality(Earlier(S, R, y))
    BY EarlierGrows
  <1> HIDE DEF n
  <1>4. rank \in [S -> 1 .. n]
    BY <1>1, <1>2
  <1>5. \A x, y \in S : << x, y >> \in R => rank[x] < rank[y]
    BY <1>1, <1>2, <1>3
  <1>6. \A x \in S : rank[x] = Cardinality(Earlier(S, R, x)) + 1
    OBVIOUS
  <1> HIDE DEF rank
  <1>7. \A x, y \in S : rank[x] = rank[y] => x = y
    <2> SUFFICES ASSUME NEW x \in S, NEW y \in S, rank[x] = rank[y]
                 PROVE  x = y
      OBVIOUS
    <2>1. rank[x] \in Nat /\ ~ (rank[x] < rank[y]) /\ ~ (rank[y] < rank[x])
      BY <1>1, <1>4
    <2>2. ~ (<< x, y >> \in R) /\ ~ (<< y, x >> \in R)
      BY <1>5, <2>1
    <2> QED
      BY <2>2 DEF StrictOrder
  <1>8. rank \in Injection(S, 1 .. n)
    BY <1>4, <1>7 DEF Injection, IsInjective
  <1>9. IsFiniteSet(1 .. n) /\ Cardinality(1 .. n) = n
    BY <1>1, FS_Interval
  <1>10. rank \in Surjection(S, 1 .. n)
    BY <1>8, <1>9, FS_Injection DEF n
  <1>11. \A k \in 1 .. n : \E x \in S : rank[x] = k
    BY <1>10 DEF Surjection
  <1>12. \A k \in 1 .. n : \E x \in S : Cardinality(Earlier(S, R, x)) = k - 1
    <2> SUFFICES ASSUME NEW k \in 1 .. n
                 PROVE  \E x \in S : Cardinality(Earlier(S, R, x)) = k - 1
      OBVIOUS
    <2>1. PICK x \in S : rank[x] = k
      BY <1>11
    <2>2. Cardinality(Earlier(S, R, x)) + 1 = k /\ Cardinality(Earlier(S, R, x)) \in Int
      BY <1>1, <1>2, <1>6, <2>1
    <2>3. Cardinality(Earlier(S, R, x)) = k - 1
      BY <1>1, <2>2
    <2> QED
      BY <2>3
  <1>13. O = [k \in 1 .. n |-> CHOOSE x \in S : Cardinality(Earlier(S, R, x)) = k - 1]
    BY DEF Ordered, Earlier, n
  <1> HIDE DEF O
  <1>14. \A k \in 1 .. n : O[k] \in S /\ Cardinality(Earlier(S, R, O[k])) = k - 1
    BY <1>12, <1>13
  <1>15. O \in [1 .. n -> S]
    BY <1>13, <1>14
  <1>16. \A k \in 1 .. n : rank[O[k]] = k
    BY <1>1, <1>6, <1>14
  <1>17. \A i, j \in 1 .. n : i < j => << O[i], O[j] >> \in R
    <2> SUFFICES ASSUME NEW i \in 1 .. n, NEW j \in 1 .. n, i < j
                 PROVE  << O[i], O[j] >> \in R
      OBVIOUS
    <2>1. O[i] \in S /\ O[j] \in S /\ rank[O[i]] = i /\ rank[O[j]] = j
      BY <1>14, <1>16
    <2>2. ~ (<< O[j], O[i] >> \in R) /\ O[i] # O[j]
      BY <1>1, <1>5, <2>1
    <2> QED
      BY <2>1, <2>2 DEF StrictOrder
  <1>18. \A x \in S : \E k \in 1 .. n : O[k] = x
    BY <1>4, <1>7, <1>14, <1>16
  <1> QED
    BY <1>1, <1>14, <1>15, <1>17, <1>18 DEF Lists, O, n

(* What is in a list of all elements of a set in order. *)
LEMMA OrderedElements ==
    ASSUME NEW S, IsFiniteSet(S), NEW R, StrictOrder(S, R)
    PROVE  Ordered(S, R) \in Seq(S) /\ ToSet(Ordered(S, R)) = S
  <1> DEFINE n == Cardinality(S)
             f == Ordered(S, R)
  <1>1. n \in Nat /\ f \in [1 .. n -> S] /\ \A x \in S : \E k \in 1 .. n : f[k] = x
    BY OrderedLists DEF Lists
  <1> HIDE DEF n, f
  <1>2. f \in Seq(S) /\ DOMAIN f = 1 .. n
    BY <1>1
  <1>3. ToSet(f) = S
    BY <1>1, <1>2 DEF ToSet
  <1> QED
    BY <1>2, <1>3 DEF f

-----------------------------------------------------------------------------
(* Transitions in order. *)

Transitions == [in : Symbols, out : Symbols, target : Nat, weight : Int]

LEMMA NumberFacts ==
    /\ \A x \in Symbols : Number(x) \in Nat
    /\ \A x, y \in Symbols : Number(x) = Number(y) => x = y
  <1>1. /\ SymbolOrder \in Seq(Symbols)
        /\ \A i, j \in DOMAIN SymbolOrder : SymbolOrder[i] = SymbolOrder[j] => i = j
    BY ComposeAssumption
  <1>2. \A x \in Symbols : Number(x) \in DOMAIN SymbolOrder /\ SymbolOrder[Number(x)] = x
    <2>1. \A x \in Symbols : \E i \in DOMAIN SymbolOrder : SymbolOrder[i] = x
      BY DEF Symbols, ToSet
    <2> QED
      BY <2>1 DEF Number
  <1>3. DOMAIN SymbolOrder \subseteq Nat
    BY <1>1
  <1> QED
    BY <1>2, <1>3

(* CompareTransitions orders transitions strictly and totally. *)
LEMMA BeforeIsStrict ==
    /\ \A a \in Transitions : ~ Before(a, a)
    /\ \A a, b, c \in Transitions : Before(a, b) /\ Before(b, c) => Before(a, c)
    /\ \A a, b \in Transitions : a = b \/ Before(a, b) \/ Before(b, a)
  <1>1. \A a \in Transitions : /\ a.in \in Symbols /\ a.out \in Symbols
                               /\ a.target \in Nat /\ a.weight \in Int
                               /\ Number(a.in) \in Nat /\ Number(a.out) \in Nat
    BY NumberFacts DEF Transitions
  <1>2. \A a \in Transitions : ~ Before(a, a)
    <2> SUFFICES ASSUME NEW a \in Transitions PROVE ~ Before(a, a)
      OBVIOUS
    <2> QED
      BY <1>1 DEF Before
  <1>3. ASSUME NEW a \in Transitions, NEW b \in Transitions, NEW c \in Transitions,
               Before(a, b), Before(b, c)
        PROVE  Before(a, c)
    <2> DEFINE i(t) == Number(t.in)
               o(t) == Number(t.out)
    <2>1. /\ a.target \in Nat /\ b.target \in Nat /\ c.target \in Nat
          /\ a.weight \in Int /\ b.weight \in Int /\ c.weight \in Int
          /\ i(a) \in Nat /\ i(b) \in Nat /\ i(c) \in Nat /\ o(a) \in Nat /\ o(b) \in Nat /\ o(c) \in Nat
      BY <1>1
    <2>2. /\ a.in = b.in => i(a) = i(b)
          /\ b.in = c.in => i(b) = i(c)
          /\ a.out = b.out => o(a) = o(b)
          /\ b.out = c.out => o(b) = o(c)
      OBVIOUS
    <2>3. \/ i(a) < i(b)
          \/ a.in = b.in /\ o(a) < o(b)
          \/ a.in = b.in /\ a.out = b.out /\ a.weight < b.weight
          \/ a.in = b.in /\ a.out = b.out /\ a.weight = b.weight /\ a.target < b.target
      BY <1>3 DEF Before
    <2>4. \/ i(b) < i(c)
          \/ b.in = c.in /\ o(b) < o(c)
          \/ b.in = c.in /\ b.out = c.out /\ b.weight < c.weight
          \/ b.in = c.in /\ b.out = c.out /\ b.weight = c.weight /\ b.target < c.target
      BY <1>3 DEF Before
    <2>5. \/ i(a) < i(c)
          \/ a.in = c.in /\ o(a) < o(c)
          \/ a.in = c.in /\ a.out = c.out /\ a.weight < c.weight
          \/ a.in = c.in /\ a.out = c.out /\ a.weight = c.weight /\ a.target < c.target
      <3> HIDE DEF i, o
      <3> QED
        BY <2>1, <2>2, <2>3, <2>4
    <2> QED
      BY <2>5 DEF Before
  <1>4. ASSUME NEW a \in Transitions, NEW b \in Transitions, a # b
        PROVE  Before(a, b) \/ Before(b, a)
    <2>1. /\ a.target \in Nat /\ b.target \in Nat /\ a.weight \in Int /\ b.weight \in Int
          /\ Number(a.in) \in Nat /\ Number(b.in) \in Nat /\ Number(a.out) \in Nat /\ Number(b.out) \in Nat
      BY <1>1
    <2>2. /\ Number(a.in) = Number(b.in) => a.in = b.in
          /\ Number(a.out) = Number(b.out) => a.out = b.out
      BY <1>1, NumberFacts
    <2>3. ~ (a.in = b.in /\ a.out = b.out /\ a.target = b.target /\ a.weight = b.weight)
      BY <1>4 DEF Transitions
    <2> QED
      BY <2>1, <2>2, <2>3 DEF Before
  <1> QED
    BY <1>2, <1>3, <1>4

LEMMA InOrderElements ==
    ASSUME NEW T, IsFiniteSet(T), T \subseteq Transitions
    PROVE  InOrder(T) \in Seq(T) /\ ToSet(InOrder(T)) = T
  <1> DEFINE R == {p \in T \X T : Before(p[1], p[2])}
  <1>1. \A x, y \in T : << x, y >> \in R <=> Before(x, y)
    OBVIOUS
  <1>2. \A x \in T : x \in Transitions
    OBVIOUS
  <1> HIDE DEF R
  <1>3. StrictOrder(T, R)
    BY <1>1, <1>2, BeforeIsStrict DEF StrictOrder
  <1> QED
    BY <1>3, OrderedElements DEF InOrder, R

LEMMA PairsInOrderElements ==
    ASSUME NEW P, IsFiniteSet(P), P \subseteq Transitions \X Transitions
    PROVE  PairsInOrder(P) \in Seq(P) /\ ToSet(PairsInOrder(P)) = P
  <1> DEFINE first(d, e) == \/ Before(d[1], e[1])
                            \/ d[1] = e[1] /\ Before(d[2], e[2])
             R == {d \in P \X P : first(d[1], d[2])}
  <1>1. \A x, y \in P : << x, y >> \in R <=> first(x, y)
    OBVIOUS
  <1>2. \A x \in P : x[1] \in Transitions /\ x[2] \in Transitions
    OBVIOUS
  <1>3. \A x, y \in P : x[1] = y[1] /\ x[2] = y[2] => x = y
    OBVIOUS
  <1> HIDE DEF R
  <1>4. \A x \in P : ~ first(x, x)
    BY <1>2, BeforeIsStrict
  <1>5. ASSUME NEW x \in P, NEW y \in P, NEW z \in P, first(x, y), first(y, z)
        PROVE  first(x, z)
    BY <1>2, <1>5, BeforeIsStrict
  <1>6. \A x, y \in P : x = y \/ first(x, y) \/ first(y, x)
    BY <1>2, <1>3, BeforeIsStrict
  <1>7. StrictOrder(P, R)
    <2> HIDE DEF first
    <2> QED
      BY <1>1, <1>4, <1>5, <1>6 DEF StrictOrder
  <1>8. PairsInOrder(P) = Ordered(P, R)
    BY DEF PairsInOrder, R
  <1> QED
    BY <1>7, <1>8, OrderedElements

(* What the loops over transitions list. *)
Targets(list) == {a.to : a \in ToSet(list)}

ListsTargets(u, n, f) ==
    /\ n \in Nat /\ DOMAIN u = 1 .. n /\ u = [i \in 1 .. n |-> u[i]]
    /\ \A i \in 1 .. n : u[i].to = f[i]

LEMMA ListedTargets ==
    ASSUME NEW u, NEW n, NEW f, ListsTargets(u, n, f)
    PROVE  /\ u \in Seq(ToSet(u))
           /\ \A t : t \in Targets(u) <=> \E i \in 1 .. n : t = f[i]
  <1>1. /\ n \in Nat /\ DOMAIN u = 1 .. n /\ u = [i \in 1 .. n |-> u[i]]
        /\ \A i \in 1 .. n : u[i].to = f[i]
    BY DEF ListsTargets
  <1>2. \A x : x \in ToSet(u) <=> \E i \in 1 .. n : x = u[i]
    BY <1>1 DEF ToSet
  <1>3. u \in [1 .. n -> ToSet(u)]
    BY <1>1, <1>2
  <1>4. u \in Seq(ToSet(u))
    BY <1>1, <1>3
  <1>5. \A t : t \in Targets(u) <=> \E x \in ToSet(u) : t = x.to
    BY DEF Targets
  <1>6. ASSUME NEW t, t \in Targets(u)
        PROVE  \E i \in 1 .. n : t = f[i]
    <2>1. PICK x \in ToSet(u) : t = x.to
      BY <1>5, <1>6
    <2>2. PICK i \in 1 .. n : x = u[i]
      BY <1>2, <2>1
    <2> QED
      BY <1>1, <2>1, <2>2
  <1>7. ASSUME NEW i \in 1 .. n
        PROVE  f[i] \in Targets(u)
    <2>1. u[i] \in ToSet(u) /\ u[i].to = f[i]
      BY <1>1, <1>2
    <2> QED
      BY <1>5, <2>1
  <1> QED
    BY <1>4, <1>6, <1>7

LEMMA SkippedListed ==
    ASSUME NEW T, IsFiniteSet(T), T \subseteq Transitions, NEW l, NEW r
    PROVE  /\ LexiconSkip(T, r) \in Seq(ToSet(LexiconSkip(T, r)))
           /\ \A t : t \in Targets(LexiconSkip(T, r)) <=> \E a \in T : t = << a.target, r >>
           /\ RuleSkip(T, l) \in Seq(ToSet(RuleSkip(T, l)))
           /\ \A t : t \in Targets(RuleSkip(T, l)) <=> \E a \in T : t = << l, a.target >>
  <1> DEFINE order == InOrder(T)
             n == Len(order)
             u == LexiconSkip(T, r)
             v == RuleSkip(T, l)
             f == [i \in 1 .. n |-> << order[i].target, r >>]
             g == [i \in 1 .. n |-> << l, order[i].target >>]
  <1>1. order \in Seq(T) /\ ToSet(order) = T
    BY InOrderElements
  <1>2. /\ u = [i \in DOMAIN order |-> Arc(order[i].in, order[i].out, order[i].weight, order[i].target, r, TRUE)]
        /\ v = [i \in DOMAIN order |-> Arc(order[i].in, order[i].out, order[i].weight, l, order[i].target, FALSE)]
    BY DEF LexiconSkip, RuleSkip, Listed
  <1> HIDE DEF order, u, v
  <1>3. DOMAIN order = 1 .. n /\ n \in Nat /\ \A i \in 1 .. n : order[i] \in T
    BY <1>1
  <1>4. \A a \in T : \E i \in 1 .. n : order[i] = a
    BY <1>1, <1>3 DEF ToSet
  <1> HIDE DEF n
  <1>5. /\ DOMAIN u = 1 .. n /\ u = [i \in 1 .. n |-> u[i]]
        /\ DOMAIN v = 1 .. n /\ v = [i \in 1 .. n |-> v[i]]
    BY <1>2, <1>3
  <1>6. \A i \in 1 .. n : u[i].to = << order[i].target, r >> /\ v[i].to = << l, order[i].target >>
    BY <1>2, <1>3 DEF Arc
  <1>7. \A i \in 1 .. n : u[i].to = f[i] /\ v[i].to = g[i]
    BY <1>6
  <1>8. \A t : /\ (\E i \in 1 .. n : t = f[i]) <=> \E a \in T : t = << a.target, r >>
               /\ (\E i \in 1 .. n : t = g[i]) <=> \E a \in T : t = << l, a.target >>
    BY <1>3, <1>4
  <1> HIDE DEF f, g
  <1>9. ListsTargets(u, n, f) /\ ListsTargets(v, n, g)
    BY <1>3, <1>5, <1>7 DEF ListsTargets
  <1>10. u \in Seq(ToSet(u)) /\ \A t : t \in Targets(u) <=> \E i \in 1 .. n : t = f[i]
    BY <1>9, ListedTargets
  <1>11. v \in Seq(ToSet(v)) /\ \A t : t \in Targets(v) <=> \E i \in 1 .. n : t = g[i]
    BY <1>9, ListedTargets
  <1> QED
    BY <1>8, <1>10, <1>11 DEF u, v

LEMMA ComposeListed ==
    ASSUME NEW S, IsFiniteSet(S), S \subseteq Transitions,
           NEW T, IsFiniteSet(T), T \subseteq Transitions
    PROVE  /\ Compose(S, T) \in Seq(ToSet(Compose(S, T)))
           /\ \A t : t \in Targets(Compose(S, T)) <=>
                       \E a \in S, b \in T : t = << a.target, b.target >>
  <1> DEFINE order == PairsInOrder(S \X T)
             n == Len(order)
             u == Compose(S, T)
             f == [i \in 1 .. n |-> << order[i][1].target, order[i][2].target >>]
  <1>1. order \in Seq(S \X T) /\ ToSet(order) = S \X T
    <2>1. IsFiniteSet(S \X T) /\ S \X T \subseteq Transitions \X Transitions
      BY FS_Product
    <2> QED
      BY <2>1, PairsInOrderElements
  <1>2. u = [i \in DOMAIN order |->
               Arc(order[i][1].in, order[i][2].out, order[i][1].weight + order[i][2].weight,
                   order[i][1].target, order[i][2].target, TRUE)]
    BY DEF Compose, Listed
  <1> HIDE DEF order, u
  <1>3. DOMAIN order = 1 .. n /\ n \in Nat /\ \A i \in 1 .. n : order[i] \in S \X T
    BY <1>1
  <1>4. \A p \in S \X T : \E i \in 1 .. n : order[i] = p
    BY <1>1, <1>3 DEF ToSet
  <1> HIDE DEF n
  <1>5. DOMAIN u = 1 .. n /\ u = [i \in 1 .. n |-> u[i]]
    BY <1>2, <1>3
  <1>6. \A i \in 1 .. n : u[i].to = << order[i][1].target, order[i][2].target >>
    BY <1>2, <1>3 DEF Arc
  <1>7. \A i \in 1 .. n : u[i].to = f[i]
    BY <1>6
  <1>8. ASSUME NEW t
        PROVE  (\E i \in 1 .. n : t = f[i]) <=> \E a \in S, b \in T : t = << a.target, b.target >>
    <2>1. ASSUME NEW a \in S, NEW b \in T
          PROVE  \E i \in 1 .. n : << a.target, b.target >> = f[i]
      <3>1. << a, b >> \in S \X T
        OBVIOUS
      <3>2. PICK i \in 1 .. n : order[i] = << a, b >>
        BY <1>4, <3>1
      <3> QED
        BY <3>2
    <2>2. \A i \in 1 .. n : /\ order[i][1] \in S /\ order[i][2] \in T
                            /\ f[i] = << order[i][1].target, order[i][2].target >>
      BY <1>3
    <2> HIDE DEF f
    <2>3. ASSUME NEW i \in 1 .. n, t = f[i]
          PROVE  \E a \in S, b \in T : t = << a.target, b.target >>
      BY <2>2, <2>3
    <2>4. ASSUME NEW a \in S, NEW b \in T, t = << a.target, b.target >>
          PROVE  \E i \in 1 .. n : t = f[i]
      BY <2>1, <2>4
    <2> QED
      BY <2>3, <2>4
  <1> HIDE DEF f
  <1>9. ListsTargets(u, n, f)
    BY <1>3, <1>5, <1>7 DEF ListsTargets
  <1>10. u \in Seq(ToSet(u)) /\ \A t : t \in Targets(u) <=> \E i \in 1 .. n : t = f[i]
    BY <1>9, ListedTargets
  <1> QED
    BY <1>8, <1>10 DEF u

-----------------------------------------------------------------------------
(* What a state number means: the state of every level, and of every rule.  *)

IsRoute(n, tbl, s, f) ==
    f = [k \in 1 .. n |-> IF k = n THEN s ELSE tbl[k + 1].pairs[f[k + 1] + 1].rest]

LEMMA RouteFacts ==
    ASSUME NEW n \in Nat, n # 0, NEW tbl, NEW s, NEW f, IsRoute(n, tbl, s, f)
    PROVE  /\ DOMAIN f = 1 .. n /\ f = [k \in 1 .. n |-> f[k]] /\ f[n] = s
           /\ \A k \in 1 .. n : k # n => f[k] = tbl[k + 1].pairs[f[k + 1] + 1].rest
  <1> DEFINE g == [k \in 1 .. n |-> IF k = n THEN s ELSE tbl[k + 1].pairs[f[k + 1] + 1].rest]
  <1>1. f = g
    BY DEF IsRoute
  <1>2. n \in 1 .. n
    OBVIOUS
  <1>3. DOMAIN g = 1 .. n /\ g[n] = s
    BY <1>2
  <1>4. \A k \in 1 .. n : k # n => g[k] = tbl[k + 1].pairs[f[k + 1] + 1].rest
    OBVIOUS
  <1>5. g = [k \in 1 .. n |-> g[k]]
    OBVIOUS
  <1> HIDE DEF g
  <1> QED
    BY <1>1, <1>3, <1>4, <1>5

LEMMA RouteExists ==
    ASSUME NEW n \in Nat, n # 0, NEW tbl, NEW s
    PROVE  \E f : IsRoute(n, tbl, s, f)
  <1> DEFINE Good(m) == \A t : \E f : IsRoute(m, tbl, t, f)
             bad == {m \in 1 .. n : ~ Good(m)}
  <1> HIDE DEF Good
  <1>1. SUFFICES ASSUME bad # {} PROVE FALSE
    BY DEF Good
  <1>2. PICK m \in bad : \A k \in bad : m <= k
    <2>1. bad \subseteq Nat
      OBVIOUS
    <2> HIDE DEF bad
    <2> QED
      BY <1>1, <2>1, LeastNumber
  <1>3. m \in 1 .. n /\ ~ Good(m)
    BY <1>2
  <1>4. CASE m = 1
    <2>1. ASSUME NEW t PROVE IsRoute(1, tbl, t, [k \in 1 .. 1 |-> t])
      <3>1. \A k \in 1 .. 1 : k = 1
        OBVIOUS
      <3> QED
        BY <3>1 DEF IsRoute
    <2> QED
      BY <1>3, <1>4, <2>1 DEF Good
  <1>5. CASE m # 1
    <2>1. m - 1 \in 1 .. n /\ m - 1 \notin bad /\ m - 1 \in Nat /\ m - 1 # 0 /\ m \in 1 .. m
      <3>1. m - 1 \in 1 .. n /\ ~ (m <= m - 1)
        BY <1>3, <1>5
      <3> QED
        BY <1>2, <1>3, <3>1
    <2>2. Good(m - 1)
      BY <2>1
    <2>3. ASSUME NEW t PROVE \E f : IsRoute(m, tbl, t, f)
      <3> DEFINE u == tbl[m].pairs[t + 1].rest
      <3>1. PICK g : IsRoute(m - 1, tbl, u, g)
        BY <2>2 DEF Good
      <3> DEFINE f == [k \in 1 .. m |-> IF k = m THEN t ELSE g[k]]
      <3>2. /\ g[m - 1] = u
            /\ \A k \in 1 .. m - 1 : k # m - 1 => g[k] = tbl[k + 1].pairs[g[k + 1] + 1].rest
        BY <2>1, <3>1, RouteFacts
      <3>3. f[m] = t /\ \A k \in 1 .. m : k # m => k \in 1 .. m - 1 /\ k + 1 \in 1 .. m /\ f[k] = g[k]
        BY <1>3, <2>1
      <3>4. f = [k \in 1 .. m |-> f[k]]
        OBVIOUS
      <3> HIDE DEF f, u
      <3>5. \A k \in 1 .. m : k # m => f[k] = tbl[k + 1].pairs[f[k + 1] + 1].rest
        <4> SUFFICES ASSUME NEW k \in 1 .. m, k # m
                     PROVE  f[k] = tbl[k + 1].pairs[f[k + 1] + 1].rest
          OBVIOUS
        <4>1. CASE k = m - 1
          <5>1. k + 1 = m
            BY <1>3, <4>1
          <5> QED
            BY <3>2, <3>3, <4>1, <5>1 DEF u
        <4>2. CASE k # m - 1
          <5>1. k \in 1 .. m - 1 /\ k + 1 \in 1 .. m /\ k + 1 # m
            BY <1>3, <4>2
          <5> QED
            BY <3>2, <3>3, <4>2, <5>1
        <4> QED
          BY <4>1, <4>2
      <3>6. \A k \in 1 .. m : f[k] = IF k = m THEN t ELSE tbl[k + 1].pairs[f[k + 1] + 1].rest
        BY <3>3, <3>5
      <3>7. IsRoute(m, tbl, t, f)
        BY <3>4, <3>6 DEF IsRoute
      <3> QED
        BY <3>7
    <2> QED
      BY <1>3, <2>3 DEF Good
  <1> QED
    BY <1>4, <1>5

LEMMA RouteUnique ==
    ASSUME NEW n \in Nat, n # 0, NEW tbl, NEW s, NEW f, NEW g,
           IsRoute(n, tbl, s, f), IsRoute(n, tbl, s, g)
    PROVE  f = g
  <1> DEFINE bad == {k \in 1 .. n : f[k] # g[k]}
  <1>1. /\ f = [k \in 1 .. n |-> f[k]] /\ f[n] = s
        /\ \A k \in 1 .. n : k # n => f[k] = tbl[k + 1].pairs[f[k + 1] + 1].rest
    BY RouteFacts
  <1>2. /\ g = [k \in 1 .. n |-> g[k]] /\ g[n] = s
        /\ \A k \in 1 .. n : k # n => g[k] = tbl[k + 1].pairs[g[k + 1] + 1].rest
    BY RouteFacts
  <1>3. bad = {}
    <2>1. SUFFICES ASSUME bad # {} PROVE FALSE
      OBVIOUS
    <2>2. PICK m \in bad : \A k \in bad : m >= k
      <3>1. bad \subseteq Nat /\ \A k \in bad : k <= n
        OBVIOUS
      <3> HIDE DEF bad
      <3> QED
        BY <2>1, <3>1, GreatestNumber
    <2>3. m \in 1 .. n /\ f[m] # g[m] /\ m # n
      BY <1>1, <1>2, <2>2
    <2>4. m + 1 \in 1 .. n /\ ~ (m >= m + 1)
      BY <2>3
    <2>5. f[m + 1] = g[m + 1]
      BY <2>2, <2>4
    <2>6. /\ f[m] = tbl[m + 1].pairs[f[m + 1] + 1].rest
          /\ g[m] = tbl[m + 1].pairs[g[m + 1] + 1].rest
      BY <1>1, <1>2, <2>3
    <2>7. f[m] = g[m]
      BY <2>5, <2>6
    <2> QED
      BY <2>3, <2>7
  <1>4. \A k \in 1 .. n : f[k] = g[k]
    BY <1>3
  <1> QED
    BY <1>1, <1>2, <1>4

Route(n, tbl, s) == CHOOSE f : IsRoute(n, tbl, s, f)

LEMMA RouteIs ==
    ASSUME NEW n \in Nat, n # 0, NEW tbl, NEW s
    PROVE  IsRoute(n, tbl, s, Route(n, tbl, s))
  BY RouteExists DEF Route

\* The states of the first n rules that state s of level n stands for.
Meaning(n, tbl, s) ==
    [k \in 1 .. n |-> IF k = 1 THEN Route(n, tbl, s)[1]
                      ELSE tbl[k].pairs[Route(n, tbl, s)[k] + 1].rule]

LEMMA RuleStatesAre ==
    ASSUME Top \in Nat, Top # 0, NEW tbl, NEW s
    PROVE  RuleStates(tbl, s) = Meaning(Top, tbl, s)
  <1>1. LevelStates(tbl, s) = Route(Top, tbl, s)
    BY DEF LevelStates, Route, IsRoute
  <1> QED
    BY <1>1 DEF RuleStates, Meaning

LEMMA MeaningFirst ==
    ASSUME NEW tbl, NEW s
    PROVE  Meaning(1, tbl, s) = [k \in 1 .. 1 |-> s]
  <1>1. Route(1, tbl, s)[1] = s
    BY RouteIs, RouteFacts
  <1>2. \A k \in 1 .. 1 : k = 1
    OBVIOUS
  <1> QED
    BY <1>1, <1>2 DEF Meaning

LEMMA MeaningNext ==
    ASSUME NEW n \in Nat, n > 1, NEW tbl, NEW s
    PROVE  Meaning(n, tbl, s) =
             [k \in 1 .. n |-> IF k = n THEN tbl[n].pairs[s + 1].rule
                               ELSE Meaning(n - 1, tbl, tbl[n].pairs[s + 1].rest)[k]]
  <1> DEFINE f == Route(n, tbl, s)
             t == tbl[n].pairs[s + 1].rest
             g == Route(n - 1, tbl, t)
             h == [k \in 1 .. n - 1 |-> f[k]]
  <1>1. n - 1 \in Nat /\ n - 1 # 0 /\ n # 0 /\ n - 1 \in 1 .. n - 1
    OBVIOUS
  <1>2. /\ f[n] = s
        /\ \A k \in 1 .. n : k # n => f[k] = tbl[k + 1].pairs[f[k + 1] + 1].rest
    BY <1>1, RouteIs, RouteFacts
  <1>3. IsRoute(n - 1, tbl, t, h)
    <2> HIDE DEF f
    <2>1. \A k \in 1 .. n - 1 : k \in 1 .. n /\ k # n /\ h[k] = f[k]
      OBVIOUS
    <2>2. h[n - 1] = t
      <3>1. (n - 1) + 1 = n /\ n - 1 \in 1 .. n - 1
        BY <1>1
      <3>2. f[n - 1] = tbl[n].pairs[f[n] + 1].rest
        BY <1>2, <2>1, <3>1
      <3> QED
        BY <1>2, <2>1, <3>1, <3>2
    <2>3. ASSUME NEW k \in 1 .. n - 1, k # n - 1
          PROVE  h[k] = tbl[k + 1].pairs[h[k + 1] + 1].rest
      <3>1. k + 1 \in 1 .. n - 1
        BY <2>3
      <3> QED
        BY <1>2, <2>1, <3>1
    <2>4. h = [k \in 1 .. n - 1 |-> h[k]]
      OBVIOUS
    <2> HIDE DEF h, t
    <2>5. \A k \in 1 .. n - 1 : h[k] = IF k = n - 1 THEN t ELSE tbl[k + 1].pairs[h[k + 1] + 1].rest
      BY <2>2, <2>3
    <2> QED
      BY <2>4, <2>5 DEF IsRoute
  <1>4. IsRoute(n - 1, tbl, t, g)
    BY <1>1, RouteIs
  <1> HIDE DEF f, g, h, t
  <1>5. g = h
    BY <1>1, <1>3, <1>4, RouteUnique
  <1>6. \A k \in 1 .. n - 1 : g[k] = f[k]
    BY <1>5 DEF h
  <1>7. Meaning(n, tbl, s) = [k \in 1 .. n |-> IF k = 1 THEN f[1] ELSE tbl[k].pairs[f[k] + 1].rule]
    BY DEF Meaning, f
  <1>8. Meaning(n - 1, tbl, t) = [k \in 1 .. n - 1 |-> IF k = 1 THEN g[1] ELSE tbl[k].pairs[g[k] + 1].rule]
    BY DEF Meaning, g
  <1>9. \A k \in 1 .. n : (IF k = 1 THEN f[1] ELSE tbl[k].pairs[f[k] + 1].rule) =
                          (IF k = n THEN tbl[n].pairs[s + 1].rule ELSE Meaning(n - 1, tbl, t)[k])
    <2> SUFFICES ASSUME NEW k \in 1 .. n
                 PROVE  (IF k = 1 THEN f[1] ELSE tbl[k].pairs[f[k] + 1].rule) =
                        (IF k = n THEN tbl[n].pairs[s + 1].rule ELSE Meaning(n - 1, tbl, t)[k])
      OBVIOUS
    <2>1. CASE k = n
      BY <1>2, <2>1
    <2>2. CASE k # n
      <3>1. k \in 1 .. n - 1 /\ 1 \in 1 .. n - 1
        BY <2>2
      <3>2. Meaning(n - 1, tbl, t)[k] = IF k = 1 THEN g[1] ELSE tbl[k].pairs[g[k] + 1].rule
        BY <1>8, <3>1
      <3> QED
        BY <1>6, <2>2, <3>1, <3>2
    <2> QED
      BY <2>1, <2>2
  <1> QED
    BY <1>7, <1>9 DEF t

-----------------------------------------------------------------------------
(* The tables of the rule pairs. *)

\* A deterministic rule as the composition needs it.
IsRule(r) ==
    /\ 0 \in States(r) /\ States(r) \subseteq Nat
    /\ \A s \in States(r) :
         /\ IsFiniteSet(r.arcs[s])
         /\ \A a \in r.arcs[s] : /\ a \in Transitions /\ a.target \in States(r)
                                 /\ a.in = Identity <=> a.out = Identity
    /\ Deterministic(r)

AreRules(R) == Len(R) \in Nat /\ Len(R) # 0 /\ \A k \in 1 .. Len(R) : IsRule(R[k])

\* The states of level k that have numbers.
Numbers(R, tbl, k) == IF k = 1 THEN States(R[1]) ELSE 0 .. Len(tbl[k].pairs) - 1

Pairs(R, tbl, k) == [rule : States(R[k]), rest : Numbers(R, tbl, k - 1)]

NoneTwice(list) == \A i, j \in DOMAIN list : list[i] = list[j] => i = j

AreTables(R, tbl) ==
    \A k \in 2 .. Len(R) :
      /\ tbl[k].pairs \in Seq(Pairs(R, tbl, k))
      /\ tbl[k].pairs # << >>
      /\ tbl[k].pairs[1] = [rule |-> 0, rest |-> 0]
      /\ NoneTwice(tbl[k].pairs)

\* Numbers are only added.
Extends(R, new, tbl) ==
    \A k \in 2 .. Len(R) :
      /\ Len(tbl[k].pairs) <= Len(new[k].pairs)
      /\ \A i \in 1 .. Len(tbl[k].pairs) : new[k].pairs[i] = tbl[k].pairs[i]

LEMMA PairOf ==
    ASSUME NEW R, NEW tbl, AreTables(R, tbl), Len(R) \in Nat,
           NEW k \in 2 .. Len(R), NEW s \in Numbers(R, tbl, k)
    PROVE  /\ s \in Nat /\ s + 1 \in DOMAIN tbl[k].pairs /\ k # 1 /\ k - 1 \in 1 .. Len(R) /\ k - 1 # k
           /\ tbl[k].pairs[s + 1] \in Pairs(R, tbl, k)
           /\ tbl[k].pairs[s + 1].rule \in States(R[k])
           /\ tbl[k].pairs[s + 1].rest \in Numbers(R, tbl, k - 1)
  <1> DEFINE list == tbl[k].pairs
  <1>1. list \in Seq(Pairs(R, tbl, k))
    BY DEF AreTables
  <1>2. k # 1 /\ k - 1 \in 1 .. Len(R) /\ k - 1 # k
    OBVIOUS
  <1>3. s \in 0 .. Len(list) - 1
    BY <1>2 DEF Numbers
  <1> HIDE DEF list
  <1>4. s \in Nat /\ s + 1 \in DOMAIN list /\ list[s + 1] \in Pairs(R, tbl, k)
    BY <1>1, <1>3
  <1>5. list[s + 1].rule \in States(R[k]) /\ list[s + 1].rest \in Numbers(R, tbl, k - 1)
    BY <1>4 DEF Pairs
  <1> QED
    BY <1>2, <1>4, <1>5 DEF list

(* Every rule is in one of its states. *)
LEMMA MeaningType ==
    ASSUME NEW R, NEW tbl, AreRules(R), AreTables(R, tbl),
           NEW n \in 1 .. Len(R), NEW s \in Numbers(R, tbl, n)
    PROVE  \A k \in 1 .. n : Meaning(n, tbl, s)[k] \in States(R[k])
  <1> DEFINE Good(m) == \A t \in Numbers(R, tbl, m) :
                          \A k \in 1 .. m : Meaning(m, tbl, t)[k] \in States(R[k])
             bad == {m \in 1 .. Len(R) : ~ Good(m)}
  <1>0. Len(R) \in Nat
    BY DEF AreRules
  <1> HIDE DEF Good
  <1>1. SUFFICES ASSUME bad # {} PROVE FALSE
    BY DEF Good
  <1>2. PICK m \in bad : \A k \in bad : m <= k
    <2>1. bad \subseteq Nat
      BY <1>0
    <2> HIDE DEF bad
    <2> QED
      BY <1>1, <2>1, LeastNumber
  <1>3. m \in 1 .. Len(R) /\ ~ Good(m)
    BY <1>2
  <1>4. CASE m = 1
    <2>1. ASSUME NEW t \in Numbers(R, tbl, 1), NEW k \in 1 .. 1
          PROVE  Meaning(1, tbl, t)[k] \in States(R[k])
      <3>1. Meaning(1, tbl, t)[k] = t /\ k = 1 /\ t \in States(R[1])
        BY MeaningFirst DEF Numbers
      <3> QED
        BY <3>1
    <2> QED
      BY <1>3, <1>4, <2>1 DEF Good
  <1>5. CASE m # 1
    <2>1. m \in 2 .. Len(R) /\ m - 1 \in 1 .. Len(R) /\ m > 1 /\ m \in Nat
      BY <1>0, <1>3, <1>5
    <2>2. Good(m - 1)
      <3>1. ~ (m <= m - 1)
        BY <2>1
      <3> QED
        BY <1>2, <2>1, <3>1
    <2>3. ASSUME NEW t \in Numbers(R, tbl, m), NEW k \in 1 .. m
          PROVE  Meaning(m, tbl, t)[k] \in States(R[k])
      <3> DEFINE p == tbl[m].pairs[t + 1]
      <3>1. p.rule \in States(R[m]) /\ p.rest \in Numbers(R, tbl, m - 1)
        BY <1>0, <2>1, PairOf
      <3> HIDE DEF p
      <3>2. Meaning(m, tbl, t)[k] = IF k = m THEN p.rule ELSE Meaning(m - 1, tbl, p.rest)[k]
        BY <2>1, MeaningNext DEF p
      <3>3. CASE k = m
        BY <3>1, <3>2, <3>3
      <3>4. CASE k # m
        <4>1. k \in 1 .. m - 1
          BY <2>1, <3>4
        <4> QED
          BY <2>2, <3>1, <3>2, <3>4, <4>1 DEF Good
      <3> QED
        BY <3>3, <3>4
    <2> QED
      BY <1>3, <2>3 DEF Good
  <1> QED
    BY <1>4, <1>5

(* Number 0 stands for the first states of all rules. *)
LEMMA MeaningOfZero ==
    ASSUME NEW R, NEW tbl, AreRules(R), AreTables(R, tbl), NEW n \in 1 .. Len(R)
    PROVE  0 \in Numbers(R, tbl, n) /\ Meaning(n, tbl, 0) = [k \in 1 .. n |-> 0]
  <1> DEFINE Good(m) == Meaning(m, tbl, 0) = [k \in 1 .. m |-> 0]
             bad == {m \in 1 .. Len(R) : ~ Good(m)}
  <1>0. Len(R) \in Nat
    BY DEF AreRules
  <1>1. 0 \in Numbers(R, tbl, n)
    <2>1. CASE n = 1
      BY <2>1 DEF Numbers, AreRules, IsRule
    <2>2. CASE n # 1
      <3>1. n \in 2 .. Len(R)
        BY <1>0, <2>2
      <3>2. tbl[n].pairs \in Seq(Pairs(R, tbl, n)) /\ tbl[n].pairs # << >>
        BY <3>1 DEF AreTables
      <3>3. Len(tbl[n].pairs) \in Nat /\ Len(tbl[n].pairs) # 0
        BY <3>2
      <3> QED
        BY <2>2, <3>3 DEF Numbers
    <2> QED
      BY <2>1, <2>2
  <1> HIDE DEF Good
  <1>2. bad = {}
    <2>1. SUFFICES ASSUME bad # {} PROVE FALSE
      OBVIOUS
    <2>2. PICK m \in bad : \A k \in bad : m <= k
      <3>1. bad \subseteq Nat
        BY <1>0
      <3> HIDE DEF bad
      <3> QED
        BY <2>1, <3>1, LeastNumber
    <2>3. m \in 1 .. Len(R) /\ ~ Good(m)
      BY <2>2
    <2>4. CASE m = 1
      BY <2>3, <2>4, MeaningFirst DEF Good
    <2>5. CASE m # 1
      <3>1. m \in 2 .. Len(R) /\ m - 1 \in 1 .. Len(R) /\ m > 1 /\ m \in Nat /\ ~ (m <= m - 1)
        BY <1>0, <2>3, <2>5
      <3>2. Good(m - 1)
        BY <2>2, <3>1
      <3>3. tbl[m].pairs[0 + 1] = [rule |-> 0, rest |-> 0]
        BY <3>1 DEF AreTables
      <3>4. \A k \in 1 .. m : Meaning(m, tbl, 0)[k] = 0
        <4> SUFFICES ASSUME NEW k \in 1 .. m PROVE Meaning(m, tbl, 0)[k] = 0
          OBVIOUS
        <4>1. Meaning(m, tbl, 0)[k] = IF k = m THEN 0 ELSE Meaning(m - 1, tbl, 0)[k]
          BY <3>1, <3>3, MeaningNext
        <4>2. k = m \/ k \in 1 .. m - 1
          BY <3>1
        <4> QED
          BY <3>2, <4>1, <4>2 DEF Good
      <3>5. Meaning(m, tbl, 0) = [k \in 1 .. m |-> Meaning(m, tbl, 0)[k]]
        BY DEF Meaning
      <3>6. Meaning(m, tbl, 0) = [k \in 1 .. m |-> 0]
        BY <3>4, <3>5
      <3> QED
        BY <2>3, <3>6 DEF Good
    <2> QED
      BY <2>4, <2>5
  <1> QED
    BY <1>1, <1>2 DEF Good

(* States with different numbers are different. *)
LEMMA MeaningInjective ==
    ASSUME NEW R, NEW tbl, AreRules(R), AreTables(R, tbl), NEW n \in 1 .. Len(R),
           NEW s \in Numbers(R, tbl, n), NEW t \in Numbers(R, tbl, n),
           Meaning(n, tbl, s) = Meaning(n, tbl, t)
    PROVE  s = t
  <1> DEFINE Good(m) == \A u, v \in Numbers(R, tbl, m) :
                          Meaning(m, tbl, u) = Meaning(m, tbl, v) => u = v
             bad == {m \in 1 .. Len(R) : ~ Good(m)}
  <1>0. Len(R) \in Nat
    BY DEF AreRules
  <1> HIDE DEF Good
  <1>1. SUFFICES ASSUME bad # {} PROVE FALSE
    BY DEF Good
  <1>2. PICK m \in bad : \A k \in bad : m <= k
    <2>1. bad \subseteq Nat
      BY <1>0
    <2> HIDE DEF bad
    <2> QED
      BY <1>1, <2>1, LeastNumber
  <1>3. m \in 1 .. Len(R) /\ ~ Good(m)
    BY <1>2
  <1>4. CASE m = 1
    <2>1. ASSUME NEW u, NEW v, Meaning(1, tbl, u) = Meaning(1, tbl, v) PROVE u = v
      <3>1. Meaning(1, tbl, u)[1] = u /\ Meaning(1, tbl, v)[1] = v
        BY MeaningFirst
      <3> QED
        BY <2>1, <3>1
    <2> QED
      BY <1>3, <1>4, <2>1 DEF Good
  <1>5. CASE m # 1
    <2>1. /\ m \in 2 .. Len(R) /\ m - 1 \in 1 .. Len(R) /\ m > 1 /\ m \in Nat /\ m \in 1 .. m
          /\ ~ (m <= m - 1)
      BY <1>0, <1>3, <1>5
    <2>2. Good(m - 1)
      BY <1>2, <2>1
    <2>3. ASSUME NEW u \in Numbers(R, tbl, m), NEW v \in Numbers(R, tbl, m),
                 Meaning(m, tbl, u) = Meaning(m, tbl, v)
          PROVE  u = v
      <3> DEFINE p == tbl[m].pairs[u + 1]
                 q == tbl[m].pairs[v + 1]
                 f == Meaning(m - 1, tbl, p.rest)
                 g == Meaning(m - 1, tbl, q.rest)
      <3>1. /\ u \in Nat /\ u + 1 \in DOMAIN tbl[m].pairs /\ p \in Pairs(R, tbl, m)
            /\ p.rest \in Numbers(R, tbl, m - 1)
        BY <1>0, <2>1, PairOf
      <3>2. /\ v \in Nat /\ v + 1 \in DOMAIN tbl[m].pairs /\ q \in Pairs(R, tbl, m)
            /\ q.rest \in Numbers(R, tbl, m - 1)
        BY <1>0, <2>1, PairOf
      <3>3. Meaning(m, tbl, u) = [k \in 1 .. m |-> IF k = m THEN p.rule ELSE f[k]]
        BY <2>1, MeaningNext
      <3>4. Meaning(m, tbl, v) = [k \in 1 .. m |-> IF k = m THEN q.rule ELSE g[k]]
        BY <2>1, MeaningNext
      <3>5. f = [k \in 1 .. m - 1 |-> f[k]] /\ g = [k \in 1 .. m - 1 |-> g[k]]
        BY DEF Meaning
      <3> HIDE DEF f, g, p, q
      <3>6. p.rule = q.rule
        <4>1. Meaning(m, tbl, u)[m] = p.rule /\ Meaning(m, tbl, v)[m] = q.rule
          BY <2>1, <3>3, <3>4
        <4> QED
          BY <2>3, <4>1
      <3>7. \A k \in 1 .. m - 1 : f[k] = g[k]
        <4> SUFFICES ASSUME NEW k \in 1 .. m - 1 PROVE f[k] = g[k]
          OBVIOUS
        <4>1. k \in 1 .. m /\ k # m
          BY <2>1
        <4>2. Meaning(m, tbl, u)[k] = f[k] /\ Meaning(m, tbl, v)[k] = g[k]
          BY <3>3, <3>4, <4>1
        <4> QED
          BY <2>3, <4>2
      <3>8. f = g
        BY <3>5, <3>7
      <3>9. p.rest = q.rest
        BY <2>2, <3>1, <3>2, <3>8 DEF Good, f, g
      <3>10. p = q
        BY <3>1, <3>2, <3>6, <3>9 DEF Pairs
      <3>11. NoneTwice(tbl[m].pairs)
        BY <2>1 DEF AreTables
      <3>12. u + 1 = v + 1
        BY <3>1, <3>2, <3>10, <3>11 DEF NoneTwice, p, q
      <3> QED
        BY <3>1, <3>2, <3>12
    <2> QED
      BY <1>3, <2>3 DEF Good
  <1> QED
    BY <1>4, <1>5

(* A number keeps its meaning when others are given. *)
LEMMA MeaningKept ==
    ASSUME NEW R, NEW tbl, NEW new, AreRules(R), AreTables(R, tbl), Extends(R, new, tbl),
           AreTables(R, new), NEW n \in 1 .. Len(R), NEW s \in Numbers(R, tbl, n)
    PROVE  s \in Numbers(R, new, n) /\ Meaning(n, new, s) = Meaning(n, tbl, s)
  <1> DEFINE Good(m) == \A t \in Numbers(R, tbl, m) : Meaning(m, new, t) = Meaning(m, tbl, t)
             bad == {m \in 1 .. Len(R) : ~ Good(m)}
  <1>0. Len(R) \in Nat
    BY DEF AreRules
  <1>1. s \in Numbers(R, new, n)
    <2>1. CASE n = 1
      BY <2>1 DEF Numbers
    <2>2. CASE n # 1
      <3>1. n \in 2 .. Len(R)
        BY <1>0, <2>2
      <3>2. s \in 0 .. Len(tbl[n].pairs) - 1 /\ Len(tbl[n].pairs) <= Len(new[n].pairs)
        BY <2>2, <3>1 DEF Numbers, Extends
      <3>3. tbl[n].pairs \in Seq(Pairs(R, tbl, n)) /\ new[n].pairs \in Seq(Pairs(R, new, n))
        BY <3>1 DEF AreTables
      <3>4. Len(tbl[n].pairs) \in Nat /\ Len(new[n].pairs) \in Nat
        BY <3>3
      <3>5. s \in 0 .. Len(new[n].pairs) - 1
        BY <3>2, <3>4
      <3> QED
        BY <2>2, <3>5 DEF Numbers
    <2> QED
      BY <2>1, <2>2
  <1> HIDE DEF Good
  <1>2. bad = {}
    <2>1. SUFFICES ASSUME bad # {} PROVE FALSE
      OBVIOUS
    <2>2. PICK m \in bad : \A k \in bad : m <= k
      <3>1. bad \subseteq Nat
        BY <1>0
      <3> HIDE DEF bad
      <3> QED
        BY <2>1, <3>1, LeastNumber
    <2>3. m \in 1 .. Len(R) /\ ~ Good(m)
      BY <2>2
    <2>4. CASE m = 1
      BY <2>3, <2>4, MeaningFirst DEF Good
    <2>5. CASE m # 1
      <3>1. /\ m \in 2 .. Len(R) /\ m - 1 \in 1 .. Len(R) /\ m > 1 /\ m \in Nat /\ ~ (m <= m - 1)
        BY <1>0, <2>3, <2>5
      <3>2. Good(m - 1)
        BY <2>2, <3>1
      <3>3. ASSUME NEW t \in Numbers(R, tbl, m)
            PROVE  Meaning(m, new, t) = Meaning(m, tbl, t)
        <4> DEFINE p == tbl[m].pairs[t + 1]
        <4>1. t \in Nat /\ t + 1 \in DOMAIN tbl[m].pairs /\ p.rest \in Numbers(R, tbl, m - 1)
          BY <1>0, <3>1, PairOf
        <4>2. tbl[m].pairs \in Seq(Pairs(R, tbl, m))
          BY <3>1 DEF AreTables
        <4>3. t + 1 \in 1 .. Len(tbl[m].pairs)
          BY <4>1, <4>2
        <4>4. new[m].pairs[t + 1] = p
          BY <3>1, <4>3 DEF Extends
        <4> HIDE DEF p
        <4>5. Meaning(m, tbl, t) = [k \in 1 .. m |-> IF k = m THEN p.rule ELSE Meaning(m - 1, tbl, p.rest)[k]]
          BY <3>1, MeaningNext DEF p
        <4>6. Meaning(m, new, t) = [k \in 1 .. m |-> IF k = m THEN p.rule ELSE Meaning(m - 1, new, p.rest)[k]]
          BY <3>1, <4>4, MeaningNext
        <4>7. Meaning(m - 1, new, p.rest) = Meaning(m - 1, tbl, p.rest)
          BY <3>2, <4>1 DEF Good
        <4> QED
          BY <4>5, <4>6, <4>7
      <3> QED
        BY <2>3, <3>3 DEF Good
    <2> QED
      BY <2>4, <2>5
  <1> QED
    BY <1>1, <1>2 DEF Good

-----------------------------------------------------------------------------
(* get_state: numbering state pairs. *)

(* A pair that has a number is found under it. *)
LEMMA NumberOfPair ==
    ASSUME NEW P, NEW list \in Seq(P), NEW p \in ToSet(list)
    PROVE  /\ PairNumber(list, p) \in 0 .. Len(list) - 1
           /\ list[PairNumber(list, p) + 1] = p
  <1> DEFINE i == CHOOSE j \in DOMAIN list : list[j] = p
  <1>1. \E j \in DOMAIN list : list[j] = p
    BY DEF ToSet
  <1>2. i \in DOMAIN list /\ list[i] = p
    BY <1>1
  <1>3. PairNumber(list, p) = i - 1
    BY DEF PairNumber
  <1> HIDE DEF i
  <1>4. i \in 1 .. Len(list) /\ Len(list) \in Nat
    BY <1>2
  <1>5. i - 1 \in 0 .. Len(list) - 1 /\ (i - 1) + 1 = i
    BY <1>4
  <1> QED
    BY <1>2, <1>3, <1>5

\* new is old with some elements of S after it.
Continues(new, old, P, S) ==
    /\ new \in Seq(P) /\ NoneTwice(new)
    /\ Len(old) <= Len(new) /\ \A i \in 1 .. Len(old) : new[i] = old[i]
    /\ ToSet(new) = ToSet(old) \cup S

LEMMA ContinuesAppend ==
    ASSUME NEW P, NEW old \in Seq(P), NEW new, NEW S, Continues(new, old, P, S), NEW x \in P
    PROVE  /\ x \in ToSet(new) => Continues(new, old, P, S \cup {x})
           /\ x \notin ToSet(new) => Continues(Append(new, x), old, P, S \cup {x})
  <1>1. ASSUME x \in ToSet(new) PROVE Continues(new, old, P, S \cup {x})
    BY <1>1 DEF Continues
  <1>2. ASSUME x \notin ToSet(new) PROVE Continues(Append(new, x), old, P, S \cup {x})
    <2> DEFINE more == Append(new, x)
    <2>1. new \in Seq(P) /\ Len(new) \in Nat /\ Len(old) \in Nat /\ Len(old) <= Len(new)
      BY DEF Continues
    <2>2. /\ more \in Seq(P) /\ Len(more) = Len(new) + 1 /\ more[Len(new) + 1] = x
          /\ \A i \in 1 .. Len(new) : more[i] = new[i]
      BY <2>1
    <2>3. DOMAIN new = 1 .. Len(new) /\ DOMAIN more = 1 .. Len(new) + 1
      BY <2>1, <2>2
    <2> HIDE DEF more
    <2>4. \A i \in DOMAIN more : i = Len(new) + 1 \/ i \in DOMAIN new
      BY <2>1, <2>3
    <2>5. \A i \in DOMAIN new : new[i] # x
      BY <1>2 DEF ToSet
    <2>6. NoneTwice(more)
      <3> SUFFICES ASSUME NEW i \in DOMAIN more, NEW j \in DOMAIN more, more[i] = more[j]
                   PROVE  i = j
        BY DEF NoneTwice
      <3>1. CASE i \in DOMAIN new /\ j \in DOMAIN new
        BY <2>2, <2>3, <3>1 DEF Continues, NoneTwice
      <3>2. CASE i = Len(new) + 1 /\ j \in DOMAIN new
        BY <2>2, <2>3, <2>5, <3>2
      <3>3. CASE j = Len(new) + 1 /\ i \in DOMAIN new
        BY <2>2, <2>3, <2>5, <3>3
      <3> QED
        BY <2>4, <3>1, <3>2, <3>3
    <2>7. \A i \in 1 .. Len(old) : i \in 1 .. Len(new) /\ more[i] = old[i]
      BY <2>1, <2>2 DEF Continues
    <2>8. ToSet(more) = ToSet(new) \cup {x}
      <3>1. \A i \in DOMAIN new : i \in DOMAIN more /\ more[i] = new[i]
        BY <2>1, <2>2, <2>3
      <3>2. Len(new) + 1 \in DOMAIN more
        BY <2>1, <2>3
      <3>3. ToSet(more) \subseteq ToSet(new) \cup {x}
        BY <2>2, <2>4, <3>1 DEF ToSet
      <3>4. ToSet(new) \cup {x} \subseteq ToSet(more)
        BY <2>2, <3>1, <3>2 DEF ToSet
      <3> QED
        BY <3>3, <3>4
    <2>9. ToSet(more) = ToSet(old) \cup (S \cup {x})
      BY <2>8 DEF Continues
    <2>10. Len(old) <= Len(more)
      BY <2>1, <2>2
    <2> QED
      BY <2>2, <2>6, <2>7, <2>9, <2>10 DEF Continues, more
  <1> QED
    BY <1>1, <1>2

LEMMA NumberedContinues ==
    ASSUME NEW P, NEW old \in Seq(P), NoneTwice(old), NEW new \in Seq(P)
    PROVE  Continues(Numbered(old, new), old, P, ToSet(new))
  <1> DEFINE N == Len(new)
             After(ps, x) == IF x \in ToSet(ps) THEN ps ELSE Append(ps, x)
             G(n, f) == [m \in 0 .. n |-> IF m = 0 THEN old ELSE After(f[m - 1], new[m])]
             Part(n) == {new[i] : i \in 1 .. n}
             Good(n) == \E f : f = G(n, f) /\ \A m \in 0 .. n : Continues(f[m], old, P, Part(m))
             bad == {n \in 0 .. N : ~ Good(n)}
  <1>1. N \in Nat /\ DOMAIN new = 1 .. N /\ \A i \in 1 .. N : new[i] \in P
    OBVIOUS
  <1>2. Numbered(old, new) = (CHOOSE f : f = G(N, f))[N]
    BY DEF Numbered
  <1> HIDE DEF N, Good
  <1>3. Good(0)
    <2> DEFINE f == [m \in 0 .. 0 |-> old]
    <2>1. \A m \in 0 .. 0 : m = 0
      OBVIOUS
    <2>2. f = G(0, f)
      BY <2>1
    <2>3. Part(0) = {}
      OBVIOUS
    <2> HIDE DEF Part
    <2>4. Continues(f[0], old, P, Part(0))
      <3>1. f[0] = old /\ Len(old) \in Nat
        OBVIOUS
      <3> HIDE DEF f
      <3> QED
        BY <2>3, <3>1 DEF Continues
    <2>5. \A m \in 0 .. 0 : Continues(f[m], old, P, Part(m))
      BY <2>1, <2>4
    <2> HIDE DEF f, G
    <2> QED
      BY <2>2, <2>5 DEF Good
  <1>4. Good(N)
    <2>1. SUFFICES ASSUME bad # {} PROVE FALSE
      BY <1>1
    <2>2. PICK n \in bad : \A k \in bad : n <= k
      <3>1. bad \subseteq Nat
        BY <1>1
      <3> HIDE DEF bad
      <3> QED
        BY <2>1, <3>1, LeastNumber
    <2>3. n \in 0 .. N /\ ~ Good(n)
      BY <2>2
    <2>4. n # 0 /\ n - 1 \in 0 .. N /\ n \in 1 .. N /\ ~ (n <= n - 1) /\ n \in Nat
      BY <1>1, <1>3, <2>3
    <2>5. Good(n - 1)
      BY <2>2, <2>4
    <2>6. PICK g : g = G(n - 1, g) /\ \A m \in 0 .. n - 1 : Continues(g[m], old, P, Part(m))
      <3> HIDE DEF G, Part
      <3> QED
        BY <2>5 DEF Good
    <2> DEFINE f == [m \in 0 .. n |-> IF m = n THEN After(g[n - 1], new[n]) ELSE g[m]]
    <2>7. \A m \in 0 .. n - 1 : g[m] = IF m = 0 THEN old ELSE After(g[m - 1], new[m])
      <3> HIDE DEF After
      <3> QED
        BY <2>6
    <2>8. \A m \in 0 .. n : m = n \/ (m # n /\ m \in 0 .. n - 1)
      BY <2>4
    <2>9. f[n] = After(g[n - 1], new[n]) /\ \A m \in 0 .. n - 1 : f[m] = g[m]
      <3>1. n \in 0 .. n /\ \A m \in 0 .. n - 1 : m \in 0 .. n /\ m # n
        BY <2>4
      <3> HIDE DEF After
      <3> QED
        BY <3>1
    <2>10. f = [m \in 0 .. n |-> f[m]]
      <3> HIDE DEF After
      <3> QED
        OBVIOUS
    <2> HIDE DEF f, After
    <2>11. \A m \in 0 .. n : f[m] = IF m = 0 THEN old ELSE After(f[m - 1], new[m])
      <3> SUFFICES ASSUME NEW m \in 0 .. n
                   PROVE  f[m] = IF m = 0 THEN old ELSE After(f[m - 1], new[m])
        OBVIOUS
      <3>1. CASE m = n
        <4>1. m - 1 \in 0 .. n - 1 /\ m # 0
          BY <2>4, <3>1
        <4> QED
          BY <2>9, <3>1, <4>1
      <3>2. CASE m # n
        <4>1. m \in 0 .. n - 1 /\ (m # 0 => m - 1 \in 0 .. n - 1)
          BY <2>4, <3>2
        <4> QED
          BY <2>7, <2>9, <4>1
      <3> QED
        BY <3>1, <3>2
    <2>12. f = G(n, f)
      BY <2>10, <2>11
    <2>13. Continues(f[n], old, P, Part(n))
      <3>1. new[n] \in P
        BY <1>1, <2>4
      <3>2. Part(n) = Part(n - 1) \cup {new[n]}
        <4>1. \A i \in 1 .. n : i = n \/ i \in 1 .. n - 1
          BY <2>4
        <4>2. n \in 1 .. n /\ \A i \in 1 .. n - 1 : i \in 1 .. n
          BY <2>4
        <4> QED
          BY <4>1, <4>2
      <3>3. Continues(g[n - 1], old, P, Part(n - 1))
        <4>1. n - 1 \in 0 .. n - 1
          BY <2>4
        <4> HIDE DEF Part
        <4> QED
          BY <2>6, <4>1
      <3> HIDE DEF Part
      <3>4. Continues(After(g[n - 1], new[n]), old, P, Part(n - 1) \cup {new[n]})
        BY <3>1, <3>3, ContinuesAppend DEF After
      <3> QED
        BY <2>9, <3>2, <3>4
    <2>14. \A m \in 0 .. n : Continues(f[m], old, P, Part(m))
      <3> HIDE DEF Part
      <3> QED
        BY <2>6, <2>8, <2>9, <2>13
    <2> HIDE DEF G, Part
    <2>15. Good(n)
      BY <2>12, <2>14 DEF Good
    <2> QED
      BY <2>3, <2>15
  <1>5. PICK f : f = G(N, f) /\ \A m \in 0 .. N : Continues(f[m], old, P, Part(m))
    <2> HIDE DEF G, Part
    <2> QED
      BY <1>4 DEF Good
  <1>6. ASSUME NEW g, g = G(N, g)
        PROVE  g = f
    <2> DEFINE wrong == {m \in 0 .. N : g[m] # f[m]}
    <2>1. /\ \A m \in 0 .. N : f[m] = IF m = 0 THEN old ELSE After(f[m - 1], new[m])
          /\ \A m \in 0 .. N : g[m] = IF m = 0 THEN old ELSE After(g[m - 1], new[m])
      <3> HIDE DEF After
      <3> QED
        BY <1>5, <1>6
    <2>2. wrong = {}
      <3>1. SUFFICES ASSUME wrong # {} PROVE FALSE
        OBVIOUS
      <3>2. PICK m \in wrong : \A k \in wrong : m <= k
        <4>1. wrong \subseteq Nat
          BY <1>1
        <4> HIDE DEF wrong
        <4> QED
          BY <3>1, <4>1, LeastNumber
      <3>3. m \in 0 .. N /\ g[m] # f[m]
        BY <3>2
      <3>4. m # 0 /\ m - 1 \in 0 .. N /\ ~ (m <= m - 1)
        BY <1>1, <2>1, <3>3
      <3>5. g[m - 1] = f[m - 1]
        BY <3>2, <3>4
      <3> HIDE DEF After
      <3>6. g[m] = After(g[m - 1], new[m]) /\ f[m] = After(f[m - 1], new[m])
        BY <2>1, <3>3, <3>4
      <3> QED
        BY <3>3, <3>5, <3>6
    <2>3. \A m \in 0 .. N : g[m] = f[m]
      BY <2>2
    <2>4. g = [m \in 0 .. N |-> g[m]] /\ f = [m \in 0 .. N |-> f[m]]
      <3> HIDE DEF After
      <3> QED
        BY <1>5, <1>6
    <2> QED
      BY <2>3, <2>4
  <1>7. Numbered(old, new) = f[N]
    <2>1. (CHOOSE g : g = G(N, g)) = f
      <3> DEFINE h == CHOOSE g : g = G(N, g)
      <3>1. h = G(N, h)
        <4> HIDE DEF G
        <4> QED
          BY <1>5
      <3> HIDE DEF G, h
      <3>2. h = f
        BY <3>1, <1>6
      <3> QED
        BY <3>2 DEF h
    <2> HIDE DEF G
    <2> QED
      BY <1>2, <2>1
  <1>8. Part(N) = ToSet(new)
    BY <1>1 DEF ToSet
  <1>9. Continues(f[N], old, P, Part(N))
    <2> HIDE DEF Part, G
    <2> QED
      BY <1>1, <1>5
  <1> HIDE DEF Part
  <1> QED
    BY <1>7, <1>8, <1>9

-----------------------------------------------------------------------------
(* get_transitions: what the rules answer. *)

LEMMA RenamedIs ==
    ASSUME NEW a \in Transitions, NEW x
    PROVE  [a EXCEPT !.in = x, !.out = x] = [in |-> x, out |-> x, target |-> a.target, weight |-> a.weight]
  <1> DEFINE b == [a EXCEPT !.in = x, !.out = x]
  <1>1. DOMAIN a = {"in", "out", "target", "weight"} /\ a = [k \in {"in", "out", "target", "weight"} |-> a[k]]
    BY DEF Transitions
  <1>2. DOMAIN b = DOMAIN a /\ \A k \in DOMAIN a : b[k] = IF k = "in" \/ k = "out" THEN x ELSE a[k]
    OBVIOUS
  <1>3. b = [k \in {"in", "out", "target", "weight"} |-> b[k]]
    BY <1>1
  <1> HIDE DEF b
  <1>4. b["in"] = x /\ b["out"] = x /\ b["target"] = a["target"] /\ b["weight"] = a["weight"]
    BY <1>1, <1>2
  <1> DEFINE c == [in |-> x, out |-> x, target |-> a.target, weight |-> a.weight]
  <1>5. c["in"] = x /\ c["out"] = x /\ c["target"] = a["target"] /\ c["weight"] = a["weight"]
    OBVIOUS
  <1>6. c = [k \in {"in", "out", "target", "weight"} |-> c[k]]
    OBVIOUS
  <1> HIDE DEF c
  <1>7. \A k \in {"in", "out", "target", "weight"} : b[k] = c[k]
    BY <1>4, <1>5
  <1>8. b = c
    BY <1>3, <1>6, <1>7
  <1> QED
    BY <1>8 DEF b, c

(* The transitions of one rule with a symbol: at most one for every output. *)
LEMMA RuleTransitionsAre ==
    ASSUME NEW r, IsRule(r), NEW s \in States(r), NEW x \in Symbols
    PROVE  LET T == RuleTransitions(r, s, x)
           IN  /\ IsFiniteSet(T) /\ T \subseteq Transitions
               /\ \A a \in T : a.in = x /\ a.target \in States(r)
               /\ \A a, b \in T : a.out = b.out => a = b
  <1> DEFINE T == RuleTransitions(r, s, x)
             listed == {a \in r.arcs[s] : a.in = x /\ x # Identity}
             I == IdentityArcs(r, s)
             Renamed(a) == [a EXCEPT !.in = x, !.out = x]
             J == {Renamed(a) : a \in I}
  <1>1. T = IF listed # {} THEN listed ELSE IF x \in r.alphabet THEN {} ELSE J
    BY DEF RuleTransitions
  <1>2. /\ IsFiniteSet(r.arcs[s])
        /\ \A a \in r.arcs[s] : /\ a \in Transitions /\ a.target \in States(r)
                                /\ a.in = Identity <=> a.out = Identity
        /\ \A a, b \in r.arcs[s] : a.in = b.in /\ a.out = b.out => a = b
    BY DEF IsRule, Deterministic
  <1>3. /\ IsFiniteSet(listed) /\ listed \subseteq Transitions
        /\ \A a \in listed : a.in = x /\ a.target \in States(r)
        /\ \A a, b \in listed : a.out = b.out => a = b
    <2>1. IsFiniteSet(listed)
      BY <1>2, FS_Subset
    <2> QED
      BY <1>2, <2>1
  <1>4. IsFiniteSet({})
    BY FS_EmptySet
  <1>5. /\ IsFiniteSet(J) /\ J \subseteq Transitions
        /\ \A a \in J : a.in = x /\ a.target \in States(r)
        /\ \A a, b \in J : a.out = b.out => a = b
    <2>1. I \subseteq r.arcs[s] /\ \A a \in I : a.in = Identity
      BY DEF IdentityArcs
    <2>2. \A a, b \in I : a = b
      BY <1>2, <2>1
    <2>3. ASSUME NEW a \in I
          PROVE  Renamed(a) \in Transitions /\ Renamed(a).in = x /\ Renamed(a).target \in States(r)
      <3>1. a \in Transitions /\ a.target \in States(r)
        BY <1>2, <2>1
      <3>2. Renamed(a) = [in |-> x, out |-> x, target |-> a.target, weight |-> a.weight]
        BY <3>1, RenamedIs DEF Renamed
      <3>3. a.target \in Nat /\ a.weight \in Int
        BY <3>1 DEF Transitions
      <3> HIDE DEF Renamed
      <3> QED
        BY <3>1, <3>2, <3>3 DEF Transitions
    <2> HIDE DEF Renamed, I
    <2>4. \A a, b \in J : a = b
      BY <2>2
    <2>5. IsFiniteSet(J)
      <3>1. CASE J = {}
        BY <3>1, FS_EmptySet
      <3>2. CASE J # {}
        <4>1. PICK a \in J : TRUE
          BY <3>2
        <4>2. J = {a}
          BY <2>4, <4>1
        <4> QED
          BY <4>2, FS_Singleton
      <3> QED
        BY <3>1, <3>2
    <2> QED
      BY <2>3, <2>4, <2>5
  <1> HIDE DEF T, listed, J
  <1> QED
    BY <1>1, <1>3, <1>4, <1>5 DEF T

(* The two iterators find every pair of transitions with the same output.  *)
LEMMA MeetAre ==
    ASSUME NEW S, S \subseteq Transitions, \A a, b \in S : a.out = b.out => a = b,
           NEW T, T \subseteq Transitions, \A a, b \in T : a.out = b.out => a = b
    PROVE  Meet(S, T) = {p \in S \X T : p[1].out = p[2].out}
  <1>1. \A a \in S : {b \in S : b.out = a.out /\ Before(b, a)} = {}
    BY BeforeIsStrict
  <1>2. \A a \in T : {b \in T : b.out = a.out /\ Before(b, a)} = {}
    BY BeforeIsStrict
  <1>3. \A p \in S \X T : Cardinality({b \in S : b.out = p[1].out /\ Before(b, p[1])}) =
                          Cardinality({b \in T : b.out = p[2].out /\ Before(b, p[2])})
    BY <1>1, <1>2
  <1>4. Meet(S, T) = {p \in S \X T : p[1].out = p[2].out /\
                        Cardinality({b \in S : b.out = p[1].out /\ Before(b, p[1])}) =
                        Cardinality({b \in T : b.out = p[2].out /\ Before(b, p[2])})}
    BY DEF Meet
  <1> QED
    BY <1>3, <1>4

\* set holds the transitions of the intersection of the first n rules from
\* state s with symbol x, one for every output on which they agree.
Answers(R, n, tbl, s, x, set) ==
    /\ IsFiniteSet(set) /\ set \subseteq Transitions
    /\ \A a \in set :
         /\ a.in = x /\ a.target \in Numbers(R, tbl, n)
         /\ Agreed(R, n, Meaning(n, tbl, s), x, a.out)
         /\ Meaning(n, tbl, a.target) = [k \in 1 .. n |-> ThatWay(R, k, Meaning(n, tbl, s), x, a.out)]
    /\ \A o : Agreed(R, n, Meaning(n, tbl, s), x, o) => \E a \in set : a.out = o
    /\ \A a, b \in set : a.out = b.out => a = b

(* The first rule answers for itself. *)
LEMMA FirstAnswers ==
    ASSUME NEW R, NEW tbl, AreRules(R), NEW s \in Numbers(R, tbl, 1), NEW x \in Symbols
    PROVE  Answers(R, 1, tbl, s, x, RuleTransitions(R[1], s, x))
  <1> DEFINE T == RuleTransitions(R[1], s, x)
             q == Meaning(1, tbl, s)
  <1>1. IsRule(R[1]) /\ s \in States(R[1])
    BY DEF AreRules, Numbers
  <1>2. /\ IsFiniteSet(T) /\ T \subseteq Transitions
        /\ \A a \in T : a.in = x /\ a.target \in States(R[1])
        /\ \A a, b \in T : a.out = b.out => a = b
    BY <1>1, RuleTransitionsAre
  <1>3. q[1] = s /\ RuleTransitions(R[1], q[1], x) = T /\ 1 \in 1 .. 1
    BY MeaningFirst
  <1> HIDE DEF T, q
  <1>4. \A k \in 1 .. 1 : k = 1
    OBVIOUS
  <1>5. \A o : Agreed(R, 1, q, x, o) <=> \E a \in T : a.out = o
    BY <1>3, <1>4 DEF Agreed
  <1>6. ASSUME NEW a \in T
        PROVE  Meaning(1, tbl, a.target) = [k \in 1 .. 1 |-> ThatWay(R, k, q, x, a.out)]
    <2>1. (CHOOSE b \in T : b.out = a.out) = a
      BY <1>2
    <2>2. ThatWay(R, 1, q, x, a.out) = a.target
      BY <1>3, <2>1 DEF ThatWay
    <2>3. Meaning(1, tbl, a.target) = [k \in 1 .. 1 |-> a.target]
      BY MeaningFirst
    <2>4. \A k \in 1 .. 1 : ThatWay(R, k, q, x, a.out) = a.target
      BY <1>4, <2>2
    <2> QED
      BY <2>3, <2>4
  <1>7. Numbers(R, tbl, 1) = States(R[1])
    BY DEF Numbers
  <1> QED
    BY <1>2, <1>5, <1>6, <1>7 DEF Answers, T, q

(* What was answered stays right when more numbers are given. *)
LEMMA AnswersKept ==
    ASSUME NEW R, NEW tbl, NEW new, AreRules(R), AreTables(R, tbl), AreTables(R, new),
           Extends(R, new, tbl), NEW n \in 1 .. Len(R), NEW s \in Numbers(R, tbl, n),
           NEW x, NEW set, Answers(R, n, tbl, s, x, set)
    PROVE  Answers(R, n, new, s, x, set)
  <1>1. Meaning(n, new, s) = Meaning(n, tbl, s)
    BY MeaningKept
  <1>2. ASSUME NEW a \in set
        PROVE  /\ a.target \in Numbers(R, new, n)
               /\ Meaning(n, new, a.target) = Meaning(n, tbl, a.target)
    <2>1. a.target \in Numbers(R, tbl, n)
      BY DEF Answers
    <2> QED
      BY <2>1, MeaningKept
  <1> QED
    BY <1>1, <1>2 DEF Answers

\* compute_transition_set for state s of level n and symbol x, given the answer
\* of the rest: new tables, and the set.
Computed(R, tbl, new, n, s, x, rest, set) ==
    LET own == RuleTransitions(R[n], tbl[n].pairs[s + 1].rule, x)
        met == PairsInOrder(Meet(own, rest))
        target(p) == [rule |-> p[1].target, rest |-> p[2].target]
        numbered == Numbered(tbl[n].pairs, [i \in DOMAIN met |-> target(met[i])])
    IN  /\ new[n].pairs = numbered
        /\ \A k \in 2 .. Len(R) : k # n => new[k].pairs = tbl[k].pairs
        /\ set = {[in |-> x, out |-> p[1].out, weight |-> p[1].weight + p[2].weight,
                   target |-> PairNumber(numbered, target(p))] : p \in ToSet(met)}

(* compute_transition_set: a rule pair answers from its rule's transitions *)
(* and the answer of the rest, and numbers the states that it finds.       *)
LEMMA PairAnswers ==
    ASSUME NEW R, NEW tbl, NEW new, AreRules(R), AreTables(R, tbl),
           NEW n \in 2 .. Len(R), NEW s \in Numbers(R, tbl, n), NEW x \in Symbols, NEW rest,
           Answers(R, n - 1, tbl, tbl[n].pairs[s + 1].rest, x, rest),
           NEW set, Computed(R, tbl, new, n, s, x, rest, set)
    PROVE  /\ AreTables(R, new) /\ Extends(R, new, tbl)
           /\ Answers(R, n, new, s, x, set)
  <1> DEFINE pair == tbl[n].pairs[s + 1]
             P == Pairs(R, tbl, n)
             own == RuleTransitions(R[n], pair.rule, x)
             M == Meet(own, rest)
             met == PairsInOrder(M)
             To(p) == [rule |-> p[1].target, rest |-> p[2].target]
             found == [i \in DOMAIN met |-> To(met[i])]
             numbered == Numbered(tbl[n].pairs, found)
             A(p) == [in |-> x, out |-> p[1].out, weight |-> p[1].weight + p[2].weight,
                      target |-> PairNumber(numbered, To(p))]
  <1>0. Len(R) \in Nat /\ n \in Nat /\ n > 1 /\ n - 1 \in 1 .. Len(R) /\ n \in 1 .. Len(R) /\ n # 1 /\ n \in 1 .. n
    BY DEF AreRules
  <1>1. /\ pair \in P /\ pair.rule \in States(R[n]) /\ pair.rest \in Numbers(R, tbl, n - 1)
        /\ IsRule(R[n])
    BY <1>0, PairOf DEF AreRules
  <1> DEFINE after == {A(p) : p \in ToSet(met)}
  <1>26. /\ new[n].pairs = numbered
         /\ \A k \in 2 .. Len(R) : k # n => new[k].pairs = tbl[k].pairs
         /\ set = after
    BY DEF Computed
  <1>27. own = RuleTransitions(R[n], pair.rule, x)
    OBVIOUS
  <1>28. numbered = Numbered(tbl[n].pairs, found)
    OBVIOUS
  <1> HIDE DEF after, numbered, A, pair
  <1>2. /\ IsFiniteSet(own) /\ own \subseteq Transitions
        /\ \A a \in own : a.in = x /\ a.target \in States(R[n])
        /\ \A a, b \in own : a.out = b.out => a = b
    BY <1>1, RuleTransitionsAre
  <1> HIDE DEF own
  <1>3. /\ IsFiniteSet(rest) /\ rest \subseteq Transitions
        /\ \A a \in rest : a.target \in Numbers(R, tbl, n - 1)
        /\ \A a, b \in rest : a.out = b.out => a = b
    BY DEF Answers, pair
  <1>4. M = {p \in own \X rest : p[1].out = p[2].out}
    BY <1>2, <1>3, MeetAre
  <1>5. met \in Seq(M) /\ ToSet(met) = M /\ IsFiniteSet(M)
    <2>1. IsFiniteSet(own \X rest)
      BY <1>2, <1>3, FS_Product
    <2>2. IsFiniteSet(M) /\ M \subseteq Transitions \X Transitions
      BY <1>2, <1>3, <1>4, <2>1, FS_Subset
    <2> QED
      BY <2>2, PairsInOrderElements
  <1>6. \A p \in M : To(p) \in P
    BY <1>2, <1>3, <1>4 DEF Pairs
  <1>7. found \in Seq(P) /\ ToSet(found) = {To(p) : p \in M}
    <2>1. DOMAIN met = 1 .. Len(met) /\ Len(met) \in Nat /\ \A i \in DOMAIN met : met[i] \in M
      BY <1>5
    <2>2. \A p \in M : \E i \in DOMAIN met : met[i] = p
      BY <1>5 DEF ToSet
    <2> HIDE DEF M, met, P, To
    <2>3. found \in Seq(P)
      BY <1>6, <2>1
    <2>4. DOMAIN found = DOMAIN met /\ \A i \in DOMAIN met : found[i] = To(met[i])
      OBVIOUS
    <2> HIDE DEF found
    <2>5. ToSet(found) = {To(p) : p \in M}
      BY <2>1, <2>2, <2>4 DEF ToSet
    <2> QED
      BY <2>3, <2>5
  <1>8. tbl[n].pairs \in Seq(P) /\ NoneTwice(tbl[n].pairs) /\ tbl[n].pairs # << >>
        /\ tbl[n].pairs[1] = [rule |-> 0, rest |-> 0]
    BY DEF AreTables
  <1>9. Continues(numbered, tbl[n].pairs, P, ToSet(found))
    <2> HIDE DEF found, P
    <2> QED
      BY <1>7, <1>8, <1>28, NumberedContinues
  <1> HIDE DEF P, M, met, found
  <1>10. Extends(R, new, tbl)
    <2>1. ASSUME NEW k \in 2 .. Len(R)
          PROVE  /\ Len(tbl[k].pairs) <= Len(new[k].pairs)
                 /\ \A i \in 1 .. Len(tbl[k].pairs) : new[k].pairs[i] = tbl[k].pairs[i]
      <3>1. CASE k = n
        BY <1>9, <1>26, <3>1 DEF Continues
      <3>2. CASE k # n
        <4>1. new[k].pairs = tbl[k].pairs
          BY <1>26, <3>2
        <4>2. tbl[k].pairs \in Seq(Pairs(R, tbl, k))
          BY DEF AreTables
        <4>3. Len(tbl[k].pairs) \in Nat
          BY <4>2
        <4> QED
          BY <4>1, <4>3
      <3> QED
        BY <3>1, <3>2
    <2> QED
      BY <2>1 DEF Extends
  <1>11. \A k \in 1 .. Len(R) : Numbers(R, tbl, k) \subseteq Numbers(R, new, k)
    <2> SUFFICES ASSUME NEW k \in 1 .. Len(R) PROVE Numbers(R, tbl, k) \subseteq Numbers(R, new, k)
      OBVIOUS
    <2>1. CASE k = 1
      BY <2>1 DEF Numbers
    <2>2. CASE k # 1
      <3>1. k \in 2 .. Len(R)
        BY <1>0, <2>2
      <3>2. Len(tbl[k].pairs) <= Len(new[k].pairs)
        BY <1>10, <3>1 DEF Extends
      <3>3. Len(tbl[k].pairs) \in Nat
        <4>1. tbl[k].pairs \in Seq(Pairs(R, tbl, k))
          BY <3>1 DEF AreTables
        <4> QED
          BY <4>1
      <3>4. Len(new[k].pairs) \in Nat
        <4>1. CASE k = n
          BY <1>9, <1>26, <4>1 DEF Continues
        <4>2. CASE k # n
          BY <1>26, <3>1, <3>3, <4>2
        <4> QED
          BY <4>1, <4>2
      <3>5. 0 .. Len(tbl[k].pairs) - 1 \subseteq 0 .. Len(new[k].pairs) - 1
        BY <3>2, <3>3, <3>4
      <3> QED
        BY <2>2, <3>5 DEF Numbers
    <2> QED
      BY <2>1, <2>2
  <1>12. \A k \in 2 .. Len(R) : Pairs(R, tbl, k) \subseteq Pairs(R, new, k)
    <2> SUFFICES ASSUME NEW k \in 2 .. Len(R), NEW p \in Pairs(R, tbl, k) PROVE p \in Pairs(R, new, k)
      OBVIOUS
    <2>1. k - 1 \in 1 .. Len(R)
      BY <1>0
    <2>2. Numbers(R, tbl, k - 1) \subseteq Numbers(R, new, k - 1)
      BY <1>11, <2>1
    <2> QED
      BY <2>2 DEF Pairs
  <1>13. AreTables(R, new)
    <2> SUFFICES ASSUME NEW k \in 2 .. Len(R)
                 PROVE  /\ new[k].pairs \in Seq(Pairs(R, new, k))
                        /\ new[k].pairs # << >>
                        /\ new[k].pairs[1] = [rule |-> 0, rest |-> 0]
                        /\ NoneTwice(new[k].pairs)
      BY DEF AreTables
    <2>1. tbl[k].pairs \in Seq(Pairs(R, tbl, k)) /\ tbl[k].pairs # << >>
          /\ tbl[k].pairs[1] = [rule |-> 0, rest |-> 0] /\ NoneTwice(tbl[k].pairs)
      BY DEF AreTables
    <2>2. new[k].pairs \in Seq(Pairs(R, tbl, k)) /\ NoneTwice(new[k].pairs)
      <3>1. CASE k = n
        BY <1>9, <1>26, <3>1 DEF Continues, P
      <3>2. CASE k # n
        BY <1>26, <2>1, <3>2
      <3> QED
        BY <3>1, <3>2
    <2>3. new[k].pairs \in Seq(Pairs(R, new, k))
      <3>1. \A S, T : S \subseteq T => Seq(S) \subseteq Seq(T)
        OBVIOUS
      <3>2. Pairs(R, tbl, k) \subseteq Pairs(R, new, k)
        BY <1>12
      <3> QED
        BY <2>2, <3>1, <3>2
    <2>4. 1 \in 1 .. Len(tbl[k].pairs) /\ Len(tbl[k].pairs) <= Len(new[k].pairs) /\ Len(tbl[k].pairs) \in Nat
      BY <1>10, <2>1 DEF Extends
    <2>5. new[k].pairs[1] = tbl[k].pairs[1]
      BY <1>10, <2>4 DEF Extends
    <2>6. new[k].pairs # << >>
      BY <2>2, <2>4
    <2> QED
      BY <2>1, <2>2, <2>3, <2>5, <2>6
  <1> DEFINE q == Meaning(n, tbl, s)
             r == Meaning(n - 1, tbl, pair.rest)
  <1>14. Meaning(n, new, s) = q /\ s \in Numbers(R, new, n)
    BY <1>0, <1>10, <1>13, MeaningKept
  <1>15. q[n] = pair.rule /\ \A k \in 1 .. n - 1 : q[k] = r[k] /\ k \in 1 .. n /\ k # n
    <2>1. q = [k \in 1 .. n |-> IF k = n THEN pair.rule ELSE r[k]]
      BY <1>0, MeaningNext DEF pair
    <2> HIDE DEF q, r
    <2>2. \A k \in 1 .. n - 1 : k \in 1 .. n /\ k # n
      BY <1>0
    <2> QED
      BY <1>0, <2>1, <2>2
  <1>16. own = RuleTransitions(R[n], q[n], x)
    BY <1>15, <1>27
  <1>17. Answers(R, n - 1, tbl, pair.rest, x, rest)
    BY DEF pair
  <1> HIDE DEF q
  <1>18. \A o : Agreed(R, n, q, x, o) <=> Agreed(R, n - 1, r, x, o) /\ \E a \in own : a.out = o
    <2>1. \A k \in 1 .. n : k = n \/ k \in 1 .. n - 1
      BY <1>0
    <2> HIDE DEF r
    <2> QED
      BY <1>0, <1>15, <1>16, <2>1 DEF Agreed
  <1>19. set = {A(p) : p \in M}
    BY <1>5, <1>26 DEF after
  <1>20. ASSUME NEW p \in M
         PROVE  /\ A(p) \in Transitions /\ A(p).in = x /\ A(p).out = p[1].out
                /\ A(p).target \in Numbers(R, new, n)
                /\ Agreed(R, n, q, x, A(p).out)
                /\ Meaning(n, new, A(p).target) = [k \in 1 .. n |-> ThatWay(R, k, q, x, A(p).out)]
    <2>1. p[1] \in own /\ p[2] \in rest /\ p[1].out = p[2].out
      BY <1>4
    <2>2. To(p) \in ToSet(numbered)
      BY <1>7, <1>9 DEF Continues
    <2> DEFINE t == PairNumber(numbered, To(p))
    <2>3. t \in 0 .. Len(numbered) - 1 /\ numbered[t + 1] = To(p)
      <3>1. numbered \in Seq(P)
        BY <1>9 DEF Continues
      <3> HIDE DEF To
      <3> QED
        BY <2>2, <3>1, NumberOfPair
    <2>4. t \in Numbers(R, new, n) /\ t \in Nat
      BY <1>0, <1>26, <2>3 DEF Numbers
    <2>5. /\ p[1].out \in Symbols /\ p[1].weight \in Int /\ p[2].weight \in Int
          /\ p[1] \in Transitions /\ p[2] \in Transitions
      BY <1>2, <1>3, <2>1 DEF Transitions
    <2>6. A(p) = [in |-> x, out |-> p[1].out, weight |-> p[1].weight + p[2].weight, target |-> t]
      BY DEF A
    <2> HIDE DEF t, To
    <2>7. A(p) \in Transitions
      BY <2>4, <2>5, <2>6 DEF Transitions
    <2>8. A(p).in = x /\ A(p).out = p[1].out /\ A(p).target = t
      BY <2>6
    <2>9. Agreed(R, n - 1, r, x, p[2].out)
          /\ Meaning(n - 1, tbl, p[2].target) = [k \in 1 .. n - 1 |-> ThatWay(R, k, r, x, p[2].out)]
      BY <1>17, <2>1 DEF Answers
    <2>10. Agreed(R, n, q, x, p[1].out)
      BY <1>18, <2>1, <2>9
    <2>11. Meaning(n, new, t) = [k \in 1 .. n |-> IF k = n THEN p[1].target ELSE Meaning(n - 1, new, p[2].target)[k]]
      <3>1. new[n].pairs[t + 1].rule = p[1].target /\ new[n].pairs[t + 1].rest = p[2].target
        BY <1>26, <2>3 DEF To
      <3> QED
        BY <1>0, <3>1, MeaningNext
    <2>12. Meaning(n - 1, new, p[2].target) = Meaning(n - 1, tbl, p[2].target)
      BY <1>0, <1>3, <1>10, <1>13, <2>1, MeaningKept
    <2>13. ThatWay(R, n, q, x, p[1].out) = p[1].target
      <3>1. (CHOOSE b \in own : b.out = p[1].out) = p[1]
        BY <1>2, <2>1
      <3> QED
        BY <1>16, <3>1 DEF ThatWay
    <2>14. \A k \in 1 .. n - 1 : ThatWay(R, k, q, x, p[1].out) = ThatWay(R, k, r, x, p[2].out)
      BY <1>15, <2>1 DEF ThatWay
    <2>15. \A k \in 1 .. n : (IF k = n THEN p[1].target ELSE Meaning(n - 1, new, p[2].target)[k])
                               = ThatWay(R, k, q, x, p[1].out)
      <3> SUFFICES ASSUME NEW k \in 1 .. n
                   PROVE  (IF k = n THEN p[1].target ELSE Meaning(n - 1, new, p[2].target)[k])
                               = ThatWay(R, k, q, x, p[1].out)
        OBVIOUS
      <3>1. CASE k = n
        BY <2>13, <3>1
      <3>2. CASE k # n
        <4>1. k \in 1 .. n - 1
          BY <1>0, <3>2
        <4>2. Meaning(n - 1, new, p[2].target)[k] = ThatWay(R, k, r, x, p[2].out)
          BY <2>9, <2>12, <4>1
        <4> QED
          BY <2>14, <3>2, <4>1, <4>2
      <3> QED
        BY <3>1, <3>2
    <2>16. Meaning(n, new, t) = [k \in 1 .. n |-> ThatWay(R, k, q, x, p[1].out)]
      BY <2>11, <2>15
    <2> QED
      BY <2>4, <2>7, <2>8, <2>10, <2>16
  <1>21. IsFiniteSet(set)
    <2> DEFINE f == [p \in M |-> A(p)]
    <2>1. f \in Surjection(M, set)
      BY <1>19 DEF Surjection
    <2> QED
      BY <1>5, <2>1, FS_Surjection
  <1>22. \A a \in set : /\ a \in Transitions /\ a.in = x /\ a.target \in Numbers(R, new, n)
                        /\ Agreed(R, n, q, x, a.out)
                        /\ Meaning(n, new, a.target) = [k \in 1 .. n |-> ThatWay(R, k, q, x, a.out)]
    BY <1>19, <1>20
  <1>23. ASSUME NEW o, Agreed(R, n, q, x, o)
         PROVE  \E a \in set : a.out = o
    <2>1. Agreed(R, n - 1, r, x, o)
      BY <1>18, <1>23
    <2>2. PICK a \in own : a.out = o
      BY <1>18, <1>23
    <2>3. PICK b \in rest : b.out = o
      BY <1>17, <2>1 DEF Answers
    <2>4. << a, b >> \in M
      BY <1>4, <2>2, <2>3
    <2>5. A(<< a, b >>) \in set /\ A(<< a, b >>).out = o
      BY <1>19, <1>20, <2>2, <2>4
    <2> QED
      BY <2>5
  <1>24. ASSUME NEW a \in set, NEW b \in set, a.out = b.out
         PROVE  a = b
    <2>1. PICK p \in M : a = A(p)
      BY <1>19
    <2>2. PICK p2 \in M : b = A(p2)
      BY <1>19
    <2>3. p[1].out = p2[1].out
      BY <1>20, <1>24, <2>1, <2>2
    <2>4. /\ p \in own \X rest /\ p2 \in own \X rest
          /\ p[1].out = p[2].out /\ p2[1].out = p2[2].out
      BY <1>4
    <2>5. p[1] = p2[1] /\ p[2] = p2[2]
      BY <1>2, <1>3, <2>3, <2>4
    <2>6. p = p2
      BY <2>4, <2>5
    <2> QED
      BY <2>1, <2>2, <2>6
  <1>25. Answers(R, n, new, s, x, set)
    <2>1. set \subseteq Transitions
      BY <1>22
    <2> QED
      BY <1>14, <1>21, <1>22, <1>23, <1>24, <2>1 DEF Answers
  <1> QED
    BY <1>10, <1>13, <1>25

-----------------------------------------------------------------------------
(* The preparations keep transducers transducers. *)

IsPrepared(t) ==
    /\ DOMAIN t = {"alphabet", "arcs", "final"}
    /\ 0 \in States(t) /\ States(t) \subseteq Nat
    /\ t.alphabet \subseteq Symbols
    /\ \A s \in States(t) :
         /\ IsFiniteSet(t.arcs[s])
         /\ \A a \in t.arcs[s] : /\ a \in Transitions /\ a.target \in States(t)
                                 /\ a.in = Identity <=> a.out = Identity

LEMMA SymbolsFinite == IsFiniteSet(Symbols)
  <1>1. SymbolOrder \in Seq(Symbols)
    BY ComposeAssumption
  <1>2. Len(SymbolOrder) \in Nat /\ DOMAIN SymbolOrder = 1 .. Len(SymbolOrder)
    BY <1>1
  <1>3. IsFiniteSet(DOMAIN SymbolOrder)
    BY <1>2, FS_Interval
  <1>4. SymbolOrder \in Surjection(DOMAIN SymbolOrder, Symbols)
    BY <1>1 DEF Surjection, Symbols, ToSet
  <1> QED
    BY <1>3, <1>4, FS_Surjection

LEMMA TransducerPrepared ==
    ASSUME NEW t, IsTransducer(t)
    PROVE  IsPrepared(t)
  <1>1. Cardinality(States(t)) \in Nat /\ Cardinality(States(t)) # 0
    BY FS_CardinalityType, FS_EmptySet DEF IsTransducer
  <1>2. 0 \in States(t) /\ States(t) \subseteq Nat
    <2>1. States(t) = 0 .. Cardinality(States(t)) - 1
      BY DEF IsTransducer
    <2>2. \A n \in Nat : n # 0 => 0 \in 0 .. n - 1 /\ 0 .. n - 1 \subseteq Nat
      OBVIOUS
    <2> QED
      BY <1>1, <2>1, <2>2
  <1>3. \A s \in States(t) : \A a \in t.arcs[s] : a \in Transitions /\ a.target \in States(t)
    <2> SUFFICES ASSUME NEW s \in States(t), NEW a \in t.arcs[s]
                 PROVE  a \in Transitions /\ a.target \in States(t)
      OBVIOUS
    <2>1. a \in [in : Symbols, out : Symbols, target : States(t), weight : Int]
      BY DEF IsTransducer
    <2> QED
      BY <1>2, <2>1 DEF Transitions
  <1>4. DOMAIN t = {"alphabet", "arcs", "final"}
    <2>1. t = [alphabet |-> t.alphabet, arcs |-> t.arcs, final |-> t.final]
      BY DEF IsTransducer
    <2>2. \A x, y, z : DOMAIN [alphabet |-> x, arcs |-> y, final |-> z] = {"alphabet", "arcs", "final"}
      OBVIOUS
    <2> QED
      BY <2>1, <2>2
  <1> QED
    BY <1>2, <1>3, <1>4 DEF IsTransducer, IsPrepared

LEMMA ImageFinite ==
    ASSUME NEW S, IsFiniteSet(S), NEW f
    PROVE  IsFiniteSet({f[a] : a \in S})
  <1> DEFINE g == [a \in S |-> f[a]]
             T == {f[a] : a \in S}
  <1>1. g \in Surjection(S, T)
    BY DEF Surjection
  <1> HIDE DEF g, T
  <1>2. IsFiniteSet(T)
    BY <1>1, FS_Surjection
  <1> QED
    BY <1>2 DEF T

\* f changes the symbols of transitions.
Relabels(f) ==
    \A a \in Transitions : /\ f[a] \in Transitions /\ f[a].target = a.target
                           /\ (a.in = Identity <=> a.out = Identity) =>
                              (f[a].in = Identity <=> f[a].out = Identity)

LEMMA RelabelledPrepared ==
    ASSUME NEW t, IsPrepared(t), NEW f, Relabels(f), NEW u,
           u = [t EXCEPT !.arcs = [s \in States(t) |-> {f[a] : a \in t.arcs[s]}]]
    PROVE  IsPrepared(u)
  <1>1. /\ DOMAIN u = DOMAIN t /\ u.arcs = [s \in States(t) |-> {f[a] : a \in t.arcs[s]}]
        /\ u.alphabet = t.alphabet
    BY DEF IsPrepared
  <1>2. States(u) = States(t)
    BY <1>1 DEF States
  <1>3. ASSUME NEW s \in States(t)
        PROVE  /\ IsFiniteSet(u.arcs[s])
               /\ \A a \in u.arcs[s] : /\ a \in Transitions /\ a.target \in States(t)
                                       /\ a.in = Identity <=> a.out = Identity
    <2>1. u.arcs[s] = {f[a] : a \in t.arcs[s]}
      BY <1>1
    <2>2. /\ IsFiniteSet(t.arcs[s])
          /\ \A a \in t.arcs[s] : /\ a \in Transitions /\ a.target \in States(t)
                                  /\ a.in = Identity <=> a.out = Identity
      BY DEF IsPrepared
    <2>3. IsFiniteSet(u.arcs[s])
      BY <2>1, <2>2, ImageFinite
    <2>4. \A a \in t.arcs[s] : /\ f[a] \in Transitions /\ f[a].target \in States(t)
                               /\ f[a].in = Identity <=> f[a].out = Identity
      BY <2>2 DEF Relabels
    <2> QED
      BY <2>1, <2>3, <2>4
  <1> QED
    BY <1>1, <1>2, <1>3 DEF IsPrepared

LEMMA RelabelIs ==
    ASSUME NEW a \in Transitions, NEW x, NEW y
    PROVE  [a EXCEPT !.in = x, !.out = y] = [in |-> x, out |-> y, target |-> a.target, weight |-> a.weight]
  <1> DEFINE b == [a EXCEPT !.in = x, !.out = y]
             c == [in |-> x, out |-> y, target |-> a.target, weight |-> a.weight]
  <1>1. DOMAIN a = {"in", "out", "target", "weight"}
    BY DEF Transitions
  <1>2. b = [k \in {"in", "out", "target", "weight"} |->
               IF k = "in" THEN x ELSE IF k = "out" THEN y ELSE a[k]]
    BY <1>1
  <1>3. c = [k \in {"in", "out", "target", "weight"} |->
               IF k = "in" THEN x ELSE IF k = "out" THEN y ELSE a[k]]
    OBVIOUS
  <1> HIDE DEF b, c
  <1>4. b = c
    BY <1>2, <1>3
  <1> QED
    BY <1>4 DEF b, c

LEMMA RelabelledIn ==
    ASSUME NEW a \in Transitions, NEW x \in Symbols, NEW y \in Symbols, NEW b,
           b = [in |-> x, out |-> y, target |-> a.target, weight |-> a.weight]
    PROVE  b \in Transitions /\ b.in = x /\ b.out = y /\ b.target = a.target
  BY DEF Transitions

LEMMA InvertPrepared ==
    ASSUME NEW t, IsPrepared(t)
    PROVE  IsPrepared(Invert(t))
  <1> DEFINE f == [a \in Transitions |-> [a EXCEPT !.in = a.out, !.out = a.in]]
  <1>1. Relabels(f)
    <2> SUFFICES ASSUME NEW a \in Transitions
                 PROVE  /\ f[a] \in Transitions /\ f[a].target = a.target
                        /\ (a.in = Identity <=> a.out = Identity) =>
                           (f[a].in = Identity <=> f[a].out = Identity)
      BY DEF Relabels
    <2>1. f[a] = [a EXCEPT !.in = a.out, !.out = a.in]
      OBVIOUS
    <2>2. a.in \in Symbols /\ a.out \in Symbols
      BY DEF Transitions
    <2> HIDE DEF f
    <2>3. f[a] = [in |-> a.out, out |-> a.in, target |-> a.target, weight |-> a.weight]
      BY <2>1, RelabelIs
    <2>4. f[a] \in Transitions /\ f[a].in = a.out /\ f[a].out = a.in /\ f[a].target = a.target
      BY <2>2, <2>3, RelabelledIn
    <2> QED
      BY <2>4
  <1>2. \A s \in States(t) : {[a EXCEPT !.in = a.out, !.out = a.in] : a \in t.arcs[s]} = {f[a] : a \in t.arcs[s]}
    BY DEF IsPrepared
  <1>3. Invert(t) = [t EXCEPT !.arcs = [s \in States(t) |-> {f[a] : a \in t.arcs[s]}]]
    <2> HIDE DEF f
    <2> QED
      BY <1>2 DEF Invert, MapArcs
  <1> HIDE DEF f
  <1> QED
    BY <1>1, <1>3, RelabelledPrepared

LEMMA SubstitutePrepared ==
    ASSUME NEW t, IsPrepared(t), NEW x, NEW v \in Symbols, NEW w \in Symbols,
           v = Identity <=> w = Identity
    PROVE  IsPrepared(SubstitutePair(t, x, << v, w >>))
  <1> DEFINE f == [a \in Transitions |-> IF << a.in, a.out >> = x THEN [a EXCEPT !.in = v, !.out = w] ELSE a]
  <1>1. Relabels(f)
    <2> SUFFICES ASSUME NEW a \in Transitions
                 PROVE  /\ f[a] \in Transitions /\ f[a].target = a.target
                        /\ (a.in = Identity <=> a.out = Identity) =>
                           (f[a].in = Identity <=> f[a].out = Identity)
      BY DEF Relabels
    <2>1. f[a] = IF << a.in, a.out >> = x THEN [a EXCEPT !.in = v, !.out = w] ELSE a
      OBVIOUS
    <2> HIDE DEF f
    <2>2. CASE << a.in, a.out >> = x
      <3>1. f[a] = [a EXCEPT !.in = v, !.out = w]
        BY <2>1, <2>2
      <3>2. f[a] = [in |-> v, out |-> w, target |-> a.target, weight |-> a.weight]
        BY <3>1, RelabelIs
      <3>3. f[a] \in Transitions /\ f[a].in = v /\ f[a].out = w /\ f[a].target = a.target
        BY <3>2, RelabelledIn
      <3> QED
        BY <3>3
    <2>3. CASE << a.in, a.out >> # x
      BY <2>1, <2>3
    <2> QED
      BY <2>2, <2>3
  <1>2. \A s \in States(t) :
          {IF << a.in, a.out >> = x THEN [a EXCEPT !.in = v, !.out = w] ELSE a : a \in t.arcs[s]} =
          {f[a] : a \in t.arcs[s]}
    BY DEF IsPrepared
  <1>3. SubstitutePair(t, x, << v, w >>) = [t EXCEPT !.arcs = [s \in States(t) |-> {f[a] : a \in t.arcs[s]}]]
    <2> HIDE DEF f
    <2> QED
      BY <1>2 DEF SubstitutePair, MapArcs
  <1> HIDE DEF f
  <1> QED
    BY <1>1, <1>3, RelabelledPrepared

LEMMA HiddenPrepared ==
    ASSUME NEW t, IsPrepared(t)
    PROVE  IsPrepared(HideIdentity(t))
  <1> DEFINE f == [a \in Transitions |-> IF a.in = Identity
                                           THEN [a EXCEPT !.in = HiddenIdentity, !.out = HiddenIdentity]
                                           ELSE a]
  <1>1. Relabels(f)
    <2> SUFFICES ASSUME NEW a \in Transitions
                 PROVE  /\ f[a] \in Transitions /\ f[a].target = a.target
                        /\ (a.in = Identity <=> a.out = Identity) =>
                           (f[a].in = Identity <=> f[a].out = Identity)
      BY DEF Relabels
    <2>1. f[a] = IF a.in = Identity THEN [a EXCEPT !.in = HiddenIdentity, !.out = HiddenIdentity] ELSE a
      OBVIOUS
    <2> HIDE DEF f
    <2>2. HiddenIdentity \in Symbols
      BY ComposeAssumption
    <2>3. CASE a.in = Identity
      <3>1. f[a] = [a EXCEPT !.in = HiddenIdentity, !.out = HiddenIdentity]
        BY <2>1, <2>3
      <3>2. f[a] = [in |-> HiddenIdentity, out |-> HiddenIdentity, target |-> a.target, weight |-> a.weight]
        BY <3>1, RelabelIs
      <3>3. /\ f[a] \in Transitions /\ f[a].in = HiddenIdentity /\ f[a].out = HiddenIdentity
            /\ f[a].target = a.target
        BY <2>2, <3>2, RelabelledIn
      <3> QED
        BY <3>3
    <2>4. CASE a.in # Identity
      BY <2>1, <2>4
    <2> QED
      BY <2>3, <2>4
  <1>2. \A s \in States(t) :
          {IF a.in = Identity THEN [a EXCEPT !.in = HiddenIdentity, !.out = HiddenIdentity] ELSE a : a \in t.arcs[s]} =
          {f[a] : a \in t.arcs[s]}
    BY DEF IsPrepared
  <1>3. HideIdentity(t) = [t EXCEPT !.arcs = [s \in States(t) |-> {f[a] : a \in t.arcs[s]}]]
    <2> HIDE DEF f
    <2> QED
      BY <1>2 DEF HideIdentity, MapArcs
  <1> HIDE DEF f
  <1> QED
    BY <1>1, <1>3, RelabelledPrepared

LEMMA HarmonizedPrepared ==
    ASSUME NEW t, IsPrepared(t), NEW alphabet, alphabet \subseteq Symbols
    PROVE  IsPrepared(Harmonize(t, alphabet))
  <1> DEFINE N == alphabet \ t.alphabet
             copies(a) == IF a.in = Identity
                            THEN {a} \cup {[a EXCEPT !.in = x, !.out = x] : x \in N}
                            ELSE {a}
             u == Harmonize(t, alphabet)
             arcs == [s \in States(t) |-> UNION {copies(a) : a \in t.arcs[s]}]
  <1>1. u = [t EXCEPT !.alphabet = @ \cup alphabet, !.arcs = arcs]
    BY DEF Harmonize
  <1> HIDE DEF arcs, u
  <1>2. DOMAIN u = DOMAIN t /\ u.arcs = arcs /\ u.alphabet = t.alphabet \cup alphabet
    BY <1>1 DEF IsPrepared
  <1>3. States(u) = States(t)
    BY <1>2 DEF States, arcs
  <1>4. IsFiniteSet(N) /\ N \subseteq Symbols
    BY SymbolsFinite, FS_Subset
  <1> HIDE DEF N
  <1>5. ASSUME NEW a \in Transitions, a.in = Identity <=> a.out = Identity
        PROVE  /\ IsFiniteSet(copies(a))
               /\ \A b \in copies(a) : /\ b \in Transitions /\ b.target = a.target
                                       /\ b.in = Identity <=> b.out = Identity
    <2> DEFINE f == [x \in N |-> [a EXCEPT !.in = x, !.out = x]]
               S == {f[x] : x \in N}
    <2>1. IsFiniteSet(S)
      <3> HIDE DEF f
      <3> QED
        BY <1>4, ImageFinite
    <2>2. {[a EXCEPT !.in = x, !.out = x] : x \in N} = S
      OBVIOUS
    <2>3. \A b \in S : b \in Transitions /\ b.target = a.target /\ b.in = b.out
      <3>1. ASSUME NEW x \in N
            PROVE  f[x] \in Transitions /\ f[x].target = a.target /\ f[x].in = f[x].out
        <4>1. f[x] = [a EXCEPT !.in = x, !.out = x]
          OBVIOUS
        <4>2. x \in Symbols
          BY <1>4
        <4> HIDE DEF f
        <4>3. f[x] = [in |-> x, out |-> x, target |-> a.target, weight |-> a.weight]
          BY <4>1, RelabelIs
        <4>4. f[x] \in Transitions /\ f[x].in = x /\ f[x].out = x /\ f[x].target = a.target
          BY <4>2, <4>3, RelabelledIn
        <4> QED
          BY <4>4
      <3> HIDE DEF f
      <3> QED
        BY <3>1
    <2>4. copies(a) = IF a.in = Identity THEN {a} \cup S ELSE {a}
      BY <2>2
    <2> HIDE DEF S, copies
    <2>5. IsFiniteSet({a}) /\ IsFiniteSet({a} \cup S)
      BY <2>1, FS_Singleton, FS_Union
    <2>6. IsFiniteSet(copies(a))
      BY <2>4, <2>5
    <2> QED
      BY <1>5, <2>3, <2>4, <2>6
  <1> HIDE DEF copies
  <1>6. ASSUME NEW s \in States(t)
        PROVE  /\ IsFiniteSet(u.arcs[s])
               /\ \A b \in u.arcs[s] : /\ b \in Transitions /\ b.target \in States(t)
                                       /\ b.in = Identity <=> b.out = Identity
    <2> DEFINE f == [a \in t.arcs[s] |-> copies(a)]
               C == {f[a] : a \in t.arcs[s]}
    <2>1. /\ IsFiniteSet(t.arcs[s])
          /\ \A a \in t.arcs[s] : /\ a \in Transitions /\ a.target \in States(t)
                                  /\ a.in = Identity <=> a.out = Identity
      BY DEF IsPrepared
    <2>2. C = {copies(a) : a \in t.arcs[s]}
      OBVIOUS
    <2>3. u.arcs[s] = UNION C
      BY <1>2, <2>2 DEF arcs
    <2>4. IsFiniteSet(C)
      <3> HIDE DEF f
      <3> QED
        BY <2>1, ImageFinite
    <2>5. \A S \in C : IsFiniteSet(S)
      BY <1>5, <2>1, <2>2
    <2> HIDE DEF C
    <2>6. IsFiniteSet(u.arcs[s])
      BY <2>3, <2>4, <2>5, FS_UNION
    <2>7. \A b \in u.arcs[s] : \E a \in t.arcs[s] : b \in copies(a)
      BY <2>2, <2>3
    <2> QED
      BY <1>5, <2>1, <2>6, <2>7
  <1>7. u.alphabet \subseteq Symbols
    BY <1>2 DEF IsPrepared
  <1>8. IsPrepared(u)
    BY <1>2, <1>3, <1>6, <1>7 DEF IsPrepared
  <1> QED
    BY <1>8 DEF u

LEMMA MovedIs ==
    ASSUME NEW S, NEW a \in [in : Symbols, out : Symbols, target : S, weight : Int], NEW x
    PROVE  [a EXCEPT !.target = x] = [in |-> a.in, out |-> a.out, target |-> x, weight |-> a.weight]
  <1> DEFINE b == [a EXCEPT !.target = x]
             c == [in |-> a.in, out |-> a.out, target |-> x, weight |-> a.weight]
  <1>1. DOMAIN a = {"in", "out", "target", "weight"}
    OBVIOUS
  <1>2. b = [k \in {"in", "out", "target", "weight"} |-> IF k = "target" THEN x ELSE a[k]]
    BY <1>1
  <1>3. c = [k \in {"in", "out", "target", "weight"} |-> IF k = "target" THEN x ELSE a[k]]
    OBVIOUS
  <1> HIDE DEF b, c
  <1>4. b = c
    BY <1>2, <1>3
  <1> QED
    BY <1>4 DEF b, c

LEMMA BoundedPrepared ==
    ASSUME NEW t, IsTransducer(t)
    PROVE  IsPrepared(WithBoundaries(t))
  <1> DEFINE size == Cardinality(States(t))
             arc(target, weight) == [in |-> Epsilon, out |-> Boundary, target |-> target, weight |-> weight]
             Moved(s) == {[a EXCEPT !.target = @ + 1] : a \in t.arcs[s - 1]}
             Ended(s) == {arc(size + 1, w) : w \in t.final[s - 1]}
             arcs == [s \in 0 .. size + 1 |-> IF s = 0 THEN {arc(1, 0)}
                                              ELSE IF s = size + 1 THEN {}
                                              ELSE Moved(s) \cup Ended(s)]
             final == [s \in 0 .. size + 1 |-> IF s = size + 1 THEN {0} ELSE {}]
             u == WithBoundaries(t)
  <1>1. u = [alphabet |-> t.alphabet \cup {Boundary}, arcs |-> arcs, final |-> final]
    BY DEF WithBoundaries
  <1>2. /\ States(t) = 0 .. size - 1 /\ t.alphabet \subseteq Symbols
        /\ \A s \in States(t) :
             /\ IsFiniteSet(t.arcs[s]) /\ IsFiniteSet(t.final[s]) /\ t.final[s] \subseteq Int
             /\ \A a \in t.arcs[s] :
                  /\ a \in [in : Symbols, out : Symbols, target : States(t), weight : Int]
                  /\ a.in = Identity <=> a.out = Identity
    BY DEF IsTransducer
  <1>3. size \in Nat /\ size # 0
    BY FS_CardinalityType, FS_EmptySet DEF IsTransducer
  <1>4. /\ Epsilon \in Symbols /\ Boundary \in Symbols /\ Identity # Epsilon /\ Identity # Boundary
    BY ComposeAssumption
  <1> HIDE DEF arcs, size, final, u
  <1>5. DOMAIN u = {"alphabet", "arcs", "final"} /\ u.arcs = arcs /\ u.alphabet \subseteq Symbols
    BY <1>1, <1>2, <1>4
  <1>6. States(u) = 0 .. size + 1
    BY <1>5 DEF States, arcs
  <1>7. \A m \in 0 .. size + 1, w \in Int :
          /\ arc(m, w) \in Transitions /\ arc(m, w).target = m
          /\ arc(m, w).in = Identity <=> arc(m, w).out = Identity
    BY <1>3, <1>4 DEF Transitions
  <1> HIDE DEF arc
  <1>8. ASSUME NEW s \in 0 .. size + 1
        PROVE  /\ IsFiniteSet(arcs[s])
               /\ \A a \in arcs[s] : /\ a \in Transitions /\ a.target \in 0 .. size + 1
                                     /\ a.in = Identity <=> a.out = Identity
    <2>1. CASE s = 0
      <3>1. arcs[s] = {arc(1, 0)}
        BY <2>1 DEF arcs
      <3>2. IsFiniteSet({arc(1, 0)})
        BY FS_Singleton
      <3>3. 1 \in 0 .. size + 1 /\ 0 \in Int
        BY <1>3
      <3> QED
        BY <1>7, <3>1, <3>2, <3>3
    <2>2. CASE s # 0 /\ s = size + 1
      <3>1. arcs[s] = {}
        BY <2>2 DEF arcs
      <3> QED
        BY <3>1, FS_EmptySet
    <2>3. CASE s # 0 /\ s # size + 1
      <3>1. arcs[s] = Moved(s) \cup Ended(s)
        <4> HIDE DEF Moved, Ended
        <4> QED
          BY <2>3 DEF arcs
      <3>2. s - 1 \in States(t)
        BY <1>2, <1>3, <2>3
      <3>3. /\ IsFiniteSet(Moved(s))
            /\ \A a \in Moved(s) : /\ a \in Transitions /\ a.target \in 0 .. size + 1
                                   /\ a.in = Identity <=> a.out = Identity
        <4> DEFINE f == [a \in t.arcs[s - 1] |-> [a EXCEPT !.target = @ + 1]]
                   M == {f[a] : a \in t.arcs[s - 1]}
        <4>1. Moved(s) = M
          OBVIOUS
        <4>2. IsFiniteSet(M)
          <5>1. IsFiniteSet(t.arcs[s - 1])
            BY <1>2, <3>2
          <5> HIDE DEF f
          <5> QED
            BY <5>1, ImageFinite
        <4>3. ASSUME NEW a \in t.arcs[s - 1]
              PROVE  /\ f[a] \in Transitions /\ f[a].target \in 0 .. size + 1
                     /\ f[a].in = Identity <=> f[a].out = Identity
          <5>1. /\ a \in [in : Symbols, out : Symbols, target : States(t), weight : Int]
                /\ a.in = Identity <=> a.out = Identity
            BY <1>2, <3>2
          <5>2. f[a] = [a EXCEPT !.target = a.target + 1]
            OBVIOUS
          <5> HIDE DEF f
          <5>3. f[a] = [in |-> a.in, out |-> a.out, target |-> a.target + 1, weight |-> a.weight]
            BY <5>1, <5>2, MovedIs
          <5>4. a.in \in Symbols /\ a.out \in Symbols /\ a.weight \in Int /\ a.target \in 0 .. size - 1
            BY <1>2, <5>1
          <5>5. a.target + 1 \in Nat /\ a.target + 1 \in 0 .. size + 1
            BY <1>3, <5>4
          <5> QED
            BY <5>1, <5>3, <5>4, <5>5 DEF Transitions
        <4> HIDE DEF f, Moved
        <4> QED
          BY <4>1, <4>2, <4>3
      <3>4. /\ IsFiniteSet(Ended(s))
            /\ \A a \in Ended(s) : /\ a \in Transitions /\ a.target \in 0 .. size + 1
                                   /\ a.in = Identity <=> a.out = Identity
        <4> DEFINE f == [w \in t.final[s - 1] |-> arc(size + 1, w)]
                   M == {f[w] : w \in t.final[s - 1]}
        <4>1. Ended(s) = M
          OBVIOUS
        <4>2. IsFiniteSet(M)
          <5>1. IsFiniteSet(t.final[s - 1])
            BY <1>2, <3>2
          <5> HIDE DEF f
          <5> QED
            BY <5>1, ImageFinite
        <4>3. \A w \in t.final[s - 1] : w \in Int /\ f[w] = arc(size + 1, w)
          BY <1>2, <3>2
        <4>4. size + 1 \in 0 .. size + 1
          BY <1>3
        <4> HIDE DEF f, Ended
        <4> QED
          BY <1>7, <4>1, <4>2, <4>3, <4>4
      <3> HIDE DEF Moved, Ended
      <3>5. IsFiniteSet(arcs[s])
        BY <3>1, <3>3, <3>4, FS_Union
      <3> QED
        BY <3>1, <3>3, <3>4, <3>5
    <2> QED
      BY <2>1, <2>2, <2>3
  <1>9. 0 \in 0 .. size + 1 /\ 0 .. size + 1 \subseteq Nat
    BY <1>3
  <1>10. IsPrepared(u)
    BY <1>5, <1>6, <1>8, <1>9 DEF IsPrepared
  <1> QED
    BY <1>10 DEF u

LEMMA CallPrepared ==
    ASSUME NEW c \in Cases
    PROVE  /\ IsPrepared(PreparedLexicon(c))
           /\ AreRules(PreparedRules(c))
           /\ c.rules \in Seq(ToSet(c.rules)) /\ Len(c.rules) \in Nat /\ Len(c.rules) # 0
           /\ DOMAIN c.rules = 1 .. Len(c.rules)
  <1>1. /\ c.rules \in Seq(ToSet(c.rules)) /\ c.rules # << >>
        /\ IsTransducer(c.lexicon)
        /\ \A k \in DOMAIN c.rules : /\ IsTransducer(c.rules[k])
                                    /\ Deterministic(PreparedRule(c.rules[k], c.invert))
    BY ComposeAssumption
  <1>2. Len(c.rules) \in Nat /\ Len(c.rules) # 0 /\ DOMAIN c.rules = 1 .. Len(c.rules)
    BY <1>1
  <1>3. /\ Epsilon \in Symbols /\ Boundary \in Symbols /\ Identity # Epsilon /\ Identity # Boundary
    BY ComposeAssumption
  <1>4. IsPrepared(PreparedLexicon(c))
    <2> DEFINE first == c.rules[1].alphabet
               bounded == IF Boundary \in first THEN WithBoundaries(c.lexicon) ELSE c.lexicon
               harmonized == Harmonize(bounded, first)
               turned == SubstitutePair(Invert(harmonized), << Boundary, Epsilon >>, << Epsilon, Boundary >>)
    <2>1. PreparedLexicon(c) = HideIdentity(IF c.invert THEN turned ELSE harmonized)
      BY DEF PreparedLexicon
    <2>2. first \subseteq Symbols
      <3>1. 1 \in DOMAIN c.rules
        BY <1>2
      <3> QED
        BY <1>1, <3>1 DEF IsTransducer
    <2>3. IsPrepared(bounded)
      BY <1>1, TransducerPrepared, BoundedPrepared
    <2> HIDE DEF first, bounded
    <2>4. IsPrepared(harmonized)
      BY <2>2, <2>3, HarmonizedPrepared
    <2> HIDE DEF harmonized
    <2>5. IsPrepared(Invert(harmonized))
      BY <2>4, InvertPrepared
    <2>6. IsPrepared(turned)
      BY <1>3, <2>5, SubstitutePrepared
    <2> HIDE DEF turned
    <2>7. IsPrepared(IF c.invert THEN turned ELSE harmonized)
      BY <2>4, <2>6
    <2> QED
      BY <2>1, <2>7, HiddenPrepared
  <1>5. ASSUME NEW k \in DOMAIN c.rules
        PROVE  IsRule(PreparedRule(c.rules[k], c.invert))
    <2> DEFINE r == c.rules[k]
               turned == SubstitutePair(Invert(r), << Epsilon, Boundary >>, << Boundary, Epsilon >>)
    <2>1. IsPrepared(r)
      BY <1>1, TransducerPrepared
    <2>2. IsPrepared(Invert(r))
      BY <2>1, InvertPrepared
    <2>3. IsPrepared(turned)
      BY <1>3, <2>2, SubstitutePrepared
    <2>4. PreparedRule(r, c.invert) = IF c.invert THEN turned ELSE r
      BY DEF PreparedRule
    <2> HIDE DEF turned, r
    <2>5. IsPrepared(PreparedRule(r, c.invert))
      BY <2>1, <2>3, <2>4
    <2>6. Deterministic(PreparedRule(r, c.invert))
      BY <1>1 DEF r
    <2>7. IsRule(PreparedRule(r, c.invert))
      BY <2>5, <2>6 DEF IsPrepared, IsRule
    <2> QED
      BY <2>7 DEF r
  <1>6. AreRules(PreparedRules(c))
    <2> DEFINE R == PreparedRules(c)
    <2>1. DOMAIN R = 1 .. Len(c.rules) /\ \A k \in 1 .. Len(c.rules) : IsRule(R[k])
      BY <1>2, <1>5 DEF PreparedRules
    <2> HIDE DEF R
    <2>2. Len(R) = Len(c.rules)
      BY <1>2, <2>1
    <2>3. AreRules(R)
      BY <1>2, <2>1, <2>2 DEF AreRules
    <2> QED
      BY <2>3 DEF R
  <1> QED
    BY <1>1, <1>2, <1>4, <1>6

(* The output symbols of a state, each once. *)
LEMMA SymbolsListed ==
    ASSUME NEW T, IsFiniteSet(T), T \subseteq Transitions
    PROVE  LET outs == {a.out : a \in T}
               order == Ordered(outs, {p \in outs \X outs : Number(p[1]) < Number(p[2])})
           IN  order \in Seq(Symbols) /\ ToSet(order) = outs
  <1> DEFINE f == [a \in T |-> a.out]
             outs == {a.out : a \in T}
             R == {p \in outs \X outs : Number(p[1]) < Number(p[2])}
             order == Ordered(outs, R)
  <1>1. outs = {f[a] : a \in T}
    OBVIOUS
  <1>2. IsFiniteSet({f[a] : a \in T})
    <2> HIDE DEF f
    <2> QED
      BY ImageFinite
  <1>3. \A x \in outs : x \in Symbols
    BY DEF Transitions
  <1>4. IsFiniteSet(outs)
    BY <1>1, <1>2
  <1>5. \A x, y \in outs : << x, y >> \in R <=> Number(x) < Number(y)
    OBVIOUS
  <1> HIDE DEF outs, R
  <1>6. \A x, y \in outs : /\ Number(x) \in Nat /\ Number(y) \in Nat
                           /\ (Number(x) = Number(y) => x = y)
    BY <1>3, NumberFacts
  <1>7. StrictOrder(outs, R)
    BY <1>5, <1>6 DEF StrictOrder
  <1>8. order \in Seq(outs) /\ ToSet(order) = outs
    BY <1>4, <1>7, OrderedElements
  <1> HIDE DEF order
  <1>9. order \in Seq(Symbols)
    BY <1>3, <1>8
  <1> QED
    BY <1>8, <1>9 DEF order, outs, R

-----------------------------------------------------------------------------
(* The product, as a relation between a pair of states and its successors. *)

LEMMA OutputsAre ==
    ASSUME NEW R, Len(R) \in Nat, Len(R) # 0, NEW q, NEW x, NEW o
    PROVE  o \in Outputs(R, q, x) <=> Agreed(R, Len(R), q, x, o)
  <1>1. 1 \in 1 .. Len(R)
    OBVIOUS
  <1>2. Agreed(R, Len(R), q, x, o) => \E a \in RuleTransitions(R[1], q[1], x) : a.out = o
    BY <1>1 DEF Agreed
  <1> QED
    BY <1>2 DEF Outputs

\* v is found past the rules, or with them, or at an epsilon of theirs.
IsSuccessor(L, R, l, q, v) ==
    \/ \E a \in L.arcs[l] : Passes(R, a.out) /\ v = << a.target, q >>
    \/ \E a \in L.arcs[l] : \E o : /\ ~ Passes(R, a.out) /\ Agreed(R, Len(R), q, a.out, o)
                                   /\ v = << a.target, Move(R, q, a.out, o) >>
    \/ \E o : Agreed(R, Len(R), q, Epsilon, o) /\ v = << l, Move(R, q, Epsilon, o) >>

LEMMA SuccessorsAre ==
    ASSUME NEW L, NEW R, Len(R) \in Nat, Len(R) # 0, NEW l, NEW q, NEW v
    PROVE  v \in SuccessorsOf(L, R, l, q) <=> IsSuccessor(L, R, l, q, v)
  <1> DEFINE A == {<< a.target, q >> : a \in {b \in L.arcs[l] : Passes(R, b.out)}}
             B(a) == {<< a.target, Move(R, q, a.out, o) >> : o \in Outputs(R, q, a.out)}
             C == UNION {B(a) : a \in {b \in L.arcs[l] : ~ Passes(R, b.out)}}
             D == {<< l, Move(R, q, Epsilon, o) >> : o \in Outputs(R, q, Epsilon)}
  <1>1. SuccessorsOf(L, R, l, q) = A \cup C \cup D
    BY DEF SuccessorsOf
  <1>2. v \in A <=> \E a \in L.arcs[l] : Passes(R, a.out) /\ v = << a.target, q >>
    OBVIOUS
  <1>3. \A x, o : o \in Outputs(R, q, x) <=> Agreed(R, Len(R), q, x, o)
    BY OutputsAre
  <1>4. v \in C <=> \E a \in L.arcs[l] : ~ Passes(R, a.out) /\ v \in B(a)
    <2> HIDE DEF B
    <2> QED
      OBVIOUS
  <1>5. \A a : v \in B(a) <=> \E o : /\ Agreed(R, Len(R), q, a.out, o)
                                     /\ v = << a.target, Move(R, q, a.out, o) >>
    BY <1>3
  <1>6. v \in D <=> \E o : Agreed(R, Len(R), q, Epsilon, o) /\ v = << l, Move(R, q, Epsilon, o) >>
    BY <1>3
  <1> HIDE DEF A, B, C, D
  <1> QED
    BY <1>1, <1>2, <1>4, <1>5, <1>6 DEF IsSuccessor

LEMMA ProductIs ==
    ASSUME NEW c \in Cases, NEW e
    PROVE  LET L == PreparedLexicon(c)
               R == PreparedRules(c)
           IN  e \in ProductOf(c) <=>
                 \E l \in States(L), q \in StateLists(R) :
                   \E v \in SuccessorsOf(L, R, l, q) : e = << << l, q >>, v >>
  <1> DEFINE L == PreparedLexicon(c)
             R == PreparedRules(c)
             S(l, q) == {<< << l, q >>, v >> : v \in SuccessorsOf(L, R, l, q)}
  <1>1. ProductOf(c) = UNION {S(l, q) : l \in States(L), q \in StateLists(R)}
    BY DEF ProductOf
  <1>2. \A l, q : e \in S(l, q) <=> \E v \in SuccessorsOf(L, R, l, q) : e = << << l, q >>, v >>
    OBVIOUS
  <1> HIDE DEF L, R, S
  <1>3. e \in ProductOf(c) <=> \E l \in States(L), q \in StateLists(R) : e \in S(l, q)
    BY <1>1
  <1>4. e \in ProductOf(c) <=> \E l \in States(L), q \in StateLists(R) :
                                 \E v \in SuccessorsOf(L, R, l, q) : e = << << l, q >>, v >>
    BY <1>2, <1>3
  <1> QED
    BY <1>4 DEF L, R

LEMMA ProductOfCall ==
    ASSUME call \in Cases
    PROVE  Product = ProductOf(call)
  <1> DEFINE p == CHOOSE d \in Products : d[1] = call
             z == << call, ProductOf(call) >>
  <1>1. z \in Products /\ z[1] = call
    BY DEF Products
  <1>2. \E d \in Products : d[1] = call
    BY <1>1
  <1>3. p \in Products /\ p[1] = call
    BY <1>2
  <1>4. \E c \in Cases : p = << c, ProductOf(c) >>
    BY <1>3 DEF Products
  <1> HIDE DEF p
  <1>5. PICK c \in Cases : p = << c, ProductOf(c) >>
    BY <1>4
  <1>6. c = call /\ p[2] = ProductOf(c)
    BY <1>3, <1>5
  <1> QED
    BY <1>6 DEF Product, p

-----------------------------------------------------------------------------
(* What the transitions to be added mean. *)

Meant(R, tbl, p) == << p[1], Meaning(Len(R), tbl, p[2]) >>
MeantBy(R, tbl, P) == {Meant(R, tbl, p) : p \in P}

StatePairs(L, R, tbl) == States(L) \X Numbers(R, tbl, Len(R))

\* The transitions lead to successors of what p means.
Lead(L, R, tbl, p, list) ==
    /\ list \in Seq(ToSet(list))
    /\ \A t \in Targets(list) :
         /\ t \in StatePairs(L, R, tbl)
         /\ Meant(R, tbl, t) \in SuccessorsOf(L, R, p[1], Meaning(Len(R), tbl, p[2]))

With(L, p, x) == {a \in L.arcs[p[1]] : a.out = x}

LEMMA WithIs ==
    ASSUME NEW L, IsPrepared(L), NEW R, NEW tbl, NEW p \in StatePairs(L, R, tbl), NEW x
    PROVE  /\ IsFiniteSet(With(L, p, x)) /\ With(L, p, x) \subseteq Transitions
           /\ \A a \in With(L, p, x) : a \in L.arcs[p[1]] /\ a.out = x /\ a.target \in States(L)
  <1>1. p[1] \in States(L)
    BY DEF StatePairs
  <1>2. IsFiniteSet(L.arcs[p[1]]) /\ \A a \in L.arcs[p[1]] : a \in Transitions /\ a.target \in States(L)
    BY <1>1 DEF IsPrepared
  <1>3. With(L, p, x) \subseteq L.arcs[p[1]]
    BY DEF With
  <1>4. IsFiniteSet(With(L, p, x))
    BY <1>2, <1>3, FS_Subset
  <1> QED
    BY <1>2, <1>3, <1>4 DEF With

(* lexicon_skip_symbol_compose *)
LEMMA PassingLeads ==
    ASSUME NEW L, IsPrepared(L), NEW R, AreRules(R), NEW tbl,
           NEW p \in StatePairs(L, R, tbl), NEW x, Passes(R, x),
           NEW list, list = LexiconSkip(With(L, p, x), p[2])
    PROVE  /\ Lead(L, R, tbl, p, list)
           /\ \A a \in With(L, p, x) :
                << a.target, Meaning(Len(R), tbl, p[2]) >> \in MeantBy(R, tbl, Targets(list))
  <1> DEFINE T == With(L, p, x)
             q == Meaning(Len(R), tbl, p[2])
  <1>1. /\ IsFiniteSet(T) /\ T \subseteq Transitions
        /\ \A a \in T : a \in L.arcs[p[1]] /\ a.out = x /\ a.target \in States(L)
    BY WithIs
  <1>2. p[1] \in States(L) /\ p[2] \in Numbers(R, tbl, Len(R))
    BY DEF StatePairs
  <1> HIDE DEF T, q
  <1>3. list \in Seq(ToSet(list)) /\ \A t : t \in Targets(list) <=> \E a \in T : t = << a.target, p[2] >>
    <2>1. list = LexiconSkip(T, p[2])
      BY DEF T
    <2> QED
      BY <1>1, <2>1, SkippedListed
  <1>4. /\ \A t \in Targets(list) : \E a \in T : t = << a.target, p[2] >>
        /\ \A a \in T : << a.target, p[2] >> \in Targets(list)
    BY <1>3
  <1>5. ASSUME NEW a \in T
        PROVE  /\ << a.target, p[2] >> \in StatePairs(L, R, tbl)
               /\ Meant(R, tbl, << a.target, p[2] >>) = << a.target, q >>
               /\ << a.target, q >> \in SuccessorsOf(L, R, p[1], q)
    <2>1. << a.target, p[2] >> \in StatePairs(L, R, tbl)
      BY <1>1, <1>2 DEF StatePairs
    <2>2. Meant(R, tbl, << a.target, p[2] >>) = << a.target, q >>
      BY DEF Meant, q
    <2>3. Len(R) \in Nat /\ Len(R) # 0
      BY DEF AreRules
    <2>4. << a.target, q >> \in SuccessorsOf(L, R, p[1], q)
      BY <1>1, <2>3, SuccessorsAre DEF IsSuccessor
    <2> QED
      BY <2>1, <2>2, <2>4
  <1>6. Lead(L, R, tbl, p, list)
    BY <1>3, <1>4, <1>5 DEF Lead, q
  <1>7. \A a \in T : << a.target, q >> \in MeantBy(R, tbl, Targets(list))
    BY <1>4, <1>5 DEF MeantBy
  <1> QED
    BY <1>6, <1>7 DEF T, q

LEMMA AnswerMoves ==
    ASSUME NEW R, NEW tbl, NEW s, NEW x, NEW set, Answers(R, Len(R), tbl, s, x, set), NEW b \in set
    PROVE  /\ b.target \in Numbers(R, tbl, Len(R))
           /\ Agreed(R, Len(R), Meaning(Len(R), tbl, s), x, b.out)
           /\ Meaning(Len(R), tbl, b.target) = Move(R, Meaning(Len(R), tbl, s), x, b.out)
  BY DEF Answers, Move

(* rule_skip_symbol_compose *)
LEMMA RuleEpsilonsLead ==
    ASSUME NEW L, IsPrepared(L), NEW R, AreRules(R), NEW tbl,
           NEW p \in StatePairs(L, R, tbl), NEW set, Answers(R, Len(R), tbl, p[2], Epsilon, set),
           NEW list, list = RuleSkip(set, p[1])
    PROVE  /\ Lead(L, R, tbl, p, list)
           /\ \A o : Agreed(R, Len(R), Meaning(Len(R), tbl, p[2]), Epsilon, o) =>
                << p[1], Move(R, Meaning(Len(R), tbl, p[2]), Epsilon, o) >> \in MeantBy(R, tbl, Targets(list))
  <1> DEFINE q == Meaning(Len(R), tbl, p[2])
  <1>1. /\ IsFiniteSet(set) /\ set \subseteq Transitions
        /\ \A o : Agreed(R, Len(R), q, Epsilon, o) => \E a \in set : a.out = o
    BY DEF Answers
  <1>2. p[1] \in States(L) /\ p[2] \in Numbers(R, tbl, Len(R))
    BY DEF StatePairs
  <1>3. Len(R) \in Nat /\ Len(R) # 0
    BY DEF AreRules
  <1>4. \A b \in set : /\ b.target \in Numbers(R, tbl, Len(R))
                       /\ Agreed(R, Len(R), q, Epsilon, b.out)
                       /\ Meaning(Len(R), tbl, b.target) = Move(R, q, Epsilon, b.out)
    BY AnswerMoves
  <1> HIDE DEF q
  <1>5. list \in Seq(ToSet(list)) /\ \A t : t \in Targets(list) <=> \E a \in set : t = << p[1], a.target >>
    BY <1>1, SkippedListed
  <1>6. /\ \A t \in Targets(list) : \E a \in set : t = << p[1], a.target >>
        /\ \A a \in set : << p[1], a.target >> \in Targets(list)
    BY <1>5
  <1>7. ASSUME NEW a \in set
        PROVE  /\ << p[1], a.target >> \in StatePairs(L, R, tbl)
               /\ Meant(R, tbl, << p[1], a.target >>) = << p[1], Move(R, q, Epsilon, a.out) >>
               /\ << p[1], Move(R, q, Epsilon, a.out) >> \in SuccessorsOf(L, R, p[1], q)
    <2>1. << p[1], a.target >> \in StatePairs(L, R, tbl)
      BY <1>2, <1>4 DEF StatePairs
    <2>2. Meant(R, tbl, << p[1], a.target >>) = << p[1], Move(R, q, Epsilon, a.out) >>
      BY <1>4 DEF Meant
    <2>3. << p[1], Move(R, q, Epsilon, a.out) >> \in SuccessorsOf(L, R, p[1], q)
      BY <1>3, <1>4, SuccessorsAre DEF IsSuccessor
    <2> QED
      BY <2>1, <2>2, <2>3
  <1>8. Lead(L, R, tbl, p, list)
    BY <1>5, <1>6, <1>7 DEF Lead, q
  <1>9. \A a \in set : << p[1], Move(R, q, Epsilon, a.out) >> \in MeantBy(R, tbl, Targets(list))
    BY <1>6, <1>7 DEF MeantBy
  <1>10. \A o : Agreed(R, Len(R), q, Epsilon, o) =>
           << p[1], Move(R, q, Epsilon, o) >> \in MeantBy(R, tbl, Targets(list))
    BY <1>1, <1>9
  <1> QED
    BY <1>8, <1>10 DEF q

(* compose *)
LEMMA ComposedLeads ==
    ASSUME NEW L, IsPrepared(L), NEW R, AreRules(R), NEW tbl,
           NEW p \in StatePairs(L, R, tbl), NEW x, ~ Passes(R, x),
           NEW set, Answers(R, Len(R), tbl, p[2], x, set),
           NEW list, list = Compose(With(L, p, x), set)
    PROVE  /\ Lead(L, R, tbl, p, list)
           /\ \A a \in With(L, p, x) : \A o :
                Agreed(R, Len(R), Meaning(Len(R), tbl, p[2]), x, o) =>
                  << a.target, Move(R, Meaning(Len(R), tbl, p[2]), x, o) >> \in MeantBy(R, tbl, Targets(list))
  <1> DEFINE T == With(L, p, x)
             q == Meaning(Len(R), tbl, p[2])
  <1>1. /\ IsFiniteSet(set) /\ set \subseteq Transitions
        /\ \A o : Agreed(R, Len(R), q, x, o) => \E a \in set : a.out = o
    BY DEF Answers
  <1>2. p[1] \in States(L) /\ p[2] \in Numbers(R, tbl, Len(R))
    BY DEF StatePairs
  <1>3. Len(R) \in Nat /\ Len(R) # 0
    BY DEF AreRules
  <1>4. \A b \in set : /\ b.target \in Numbers(R, tbl, Len(R))
                       /\ Agreed(R, Len(R), q, x, b.out)
                       /\ Meaning(Len(R), tbl, b.target) = Move(R, q, x, b.out)
    BY AnswerMoves
  <1>5. /\ IsFiniteSet(T) /\ T \subseteq Transitions
        /\ \A a \in T : a \in L.arcs[p[1]] /\ a.out = x /\ a.target \in States(L)
    BY WithIs
  <1> HIDE DEF q, T
  <1>6. /\ list \in Seq(ToSet(list))
        /\ \A t : t \in Targets(list) <=> \E a \in T, b \in set : t = << a.target, b.target >>
    <2>1. list = Compose(T, set)
      BY DEF T
    <2> QED
      BY <1>1, <1>5, <2>1, ComposeListed
  <1>7. /\ \A t \in Targets(list) : \E a \in T, b \in set : t = << a.target, b.target >>
        /\ \A a \in T, b \in set : << a.target, b.target >> \in Targets(list)
    BY <1>6
  <1>8. ASSUME NEW a \in T, NEW b \in set
        PROVE  /\ << a.target, b.target >> \in StatePairs(L, R, tbl)
               /\ Meant(R, tbl, << a.target, b.target >>) = << a.target, Move(R, q, x, b.out) >>
               /\ << a.target, Move(R, q, x, b.out) >> \in SuccessorsOf(L, R, p[1], q)
    <2>1. << a.target, b.target >> \in StatePairs(L, R, tbl)
      BY <1>4, <1>5 DEF StatePairs
    <2>2. Meant(R, tbl, << a.target, b.target >>) = << a.target, Move(R, q, x, b.out) >>
      BY <1>4 DEF Meant
    <2>3. /\ a \in L.arcs[p[1]] /\ ~ Passes(R, a.out) /\ Agreed(R, Len(R), q, a.out, b.out)
          /\ << a.target, Move(R, q, x, b.out) >> = << a.target, Move(R, q, a.out, b.out) >>
      BY <1>4, <1>5
    <2>4. << a.target, Move(R, q, x, b.out) >> \in SuccessorsOf(L, R, p[1], q)
      BY <1>3, <2>3, SuccessorsAre DEF IsSuccessor
    <2> QED
      BY <2>1, <2>2, <2>4
  <1>9. Lead(L, R, tbl, p, list)
    <2>1. list \in Seq(ToSet(list))
      BY <1>6
    <2>2. ASSUME NEW t \in Targets(list)
          PROVE  /\ t \in StatePairs(L, R, tbl)
                 /\ Meant(R, tbl, t) \in SuccessorsOf(L, R, p[1], q)
      <3>1. PICK a \in T, b \in set : t = << a.target, b.target >>
        BY <1>7
      <3>2. Meant(R, tbl, t) = << a.target, Move(R, q, x, b.out) >>
        BY <1>8, <3>1
      <3> QED
        BY <1>8, <3>1, <3>2
    <2> QED
      BY <2>1, <2>2 DEF Lead, q
  <1>10. \A a \in T, b \in set : << a.target, Move(R, q, x, b.out) >> \in MeantBy(R, tbl, Targets(list))
    BY <1>7, <1>8 DEF MeantBy
  <1>11. \A a \in T : \A o : Agreed(R, Len(R), q, x, o) =>
           << a.target, Move(R, q, x, o) >> \in MeantBy(R, tbl, Targets(list))
    BY <1>1, <1>10
  <1> QED
    BY <1>9, <1>11 DEF q, T

-----------------------------------------------------------------------------
(* The invariant. *)

\* What the rule pairs have computed is right.
Computations(R, tbl) ==
    \A k \in 2 .. Len(R) :
      /\ DOMAIN tbl[k].transitions \subseteq Numbers(R, tbl, k) \X Symbols
      /\ \A s \in Numbers(R, tbl, k), x \in Symbols :
           << s, x >> \in DOMAIN tbl[k].transitions =>
             Answers(R, k, tbl, s, x, tbl[k].transitions[<< s, x >>])

TablesRight(R, tbl) == DOMAIN tbl = 2 .. Len(R) /\ AreTables(R, tbl) /\ Computations(R, tbl)

PairsNumbered(L, R, tbl, list) ==
    /\ list \in Seq(StatePairs(L, R, tbl)) /\ NoneTwice(list)
    /\ list # << >> /\ list[1] = << 0, 0 >>

\* The states are computed in the order of their numbers.
AgendaInOrder(list, ag, non) ==
    /\ ag \in Seq(Nat) /\ Len(ag) <= Len(list)
    /\ \A i \in 1 .. Len(ag) : ag[i] = Len(list) - Len(ag) + i - 1
    /\ non = 0 .. Len(list) - 1

Computing == pc \in {"symbols", "ask", "answer", "last"}

Basics ==
    /\ call \in Cases
    /\ pc \in {"call", "agenda", "symbols", "ask", "answer", "last", "done"}
    /\ pc = "call" => pair_vector = << >> /\ agenda = << >> /\ lexicon_non_epsilon_states = {}
    /\ pc # "call" =>
         /\ lexicon = PreparedLexicon(call) /\ rules = PreparedRules(call)
         /\ TablesRight(rules, tables)
         /\ PairsNumbered(lexicon, rules, tables, pair_vector)
         /\ AgendaInOrder(pair_vector, agenda, lexicon_non_epsilon_states)
    /\ Computing => origin \in Nat /\ origin = Len(pair_vector) - Len(agenda) - 1

PendingLeads ==
    /\ pending # << >> => pc \in {"symbols", "last"}
    /\ Computing => Lead(lexicon, rules, tables, Current, pending)

\* The states found so far or to be added.
Known == MeantBy(rules, tables, ToSet(pair_vector) \cup Targets(pending))

\* The output symbols still to be composed.
Due == ToSet(keys) \cup {x \in {symbol} : pc \in {"ask", "answer"} /\ x # Epsilon}

\* The successors of m by all other symbols are known.
Covered(L, R, m, due, known) ==
    \A a \in L.arcs[m[1]] : a.out \notin due =>
      /\ Passes(R, a.out) => << a.target, m[2] >> \in known
      /\ ~ Passes(R, a.out) =>
           \A o : Agreed(R, Len(R), m[2], a.out, o) => << a.target, Move(R, m[2], a.out, o) >> \in known

EpsilonsCovered(R, m, known) ==
    \A o : Agreed(R, Len(R), m[2], Epsilon, o) => << m[1], Move(R, m[2], Epsilon, o) >> \in known

Progress ==
    Computing =>
      /\ keys \in Seq(Symbols)
      /\ Covered(lexicon, rules, Meant(rules, tables, Current), Due, Known)
      /\ pc = "last" => keys = << >> /\ EpsilonsCovered(rules, Meant(rules, tables, Current), Known)

\* Every level asks the next one for the rest of its state.
FramesRight(R, tbl, fr, s) ==
    /\ fr \in Seq(Nat) /\ Len(fr) \in 1 .. Len(R) /\ fr[1] = s
    /\ \A i \in 1 .. Len(fr) : fr[i] \in Numbers(R, tbl, Len(R) + 1 - i)
    /\ \A i \in 1 .. Len(fr) - 1 : fr[i + 1] = tbl[Len(R) + 1 - i].pairs[fr[i] + 1].rest

Asking ==
    pc \in {"ask", "answer"} =>
      /\ symbol \in Symbols /\ (symbol = Epsilon => keys = << >>) /\ (symbol # Epsilon => ~ Passes(rules, symbol))
      /\ FramesRight(rules, tables, frames, Current[2])
      /\ pc = "answer" => Answers(rules, Len(rules) + 1 - Len(frames), tables, frames[Len(frames)], symbol, answer)

ComposeInv == Basics /\ PendingLeads /\ Progress /\ Asking

LEMMA RunFacts ==
    ASSUME Basics, pc # "call"
    PROVE  /\ IsPrepared(lexicon) /\ AreRules(rules)
           /\ Len(rules) \in Nat /\ Len(rules) # 0 /\ Len(rules) \in 1 .. Len(rules) /\ Top = Len(rules)
           /\ TablesRight(rules, tables) /\ AreTables(rules, tables)
           /\ PairsNumbered(lexicon, rules, tables, pair_vector)
           /\ AgendaInOrder(pair_vector, agenda, lexicon_non_epsilon_states)
  <1>1. /\ call \in Cases /\ lexicon = PreparedLexicon(call) /\ rules = PreparedRules(call)
        /\ TablesRight(rules, tables)
        /\ PairsNumbered(lexicon, rules, tables, pair_vector)
        /\ AgendaInOrder(pair_vector, agenda, lexicon_non_epsilon_states)
    BY DEF Basics
  <1>2. IsPrepared(lexicon) /\ AreRules(rules)
    BY <1>1, CallPrepared
  <1>3. Len(rules) \in Nat /\ Len(rules) # 0 /\ Top = Len(rules)
    BY <1>2 DEF AreRules, Top
  <1>4. Len(rules) \in 1 .. Len(rules)
    BY <1>3
  <1> QED
    BY <1>1, <1>2, <1>3, <1>4 DEF TablesRight

LEMMA CurrentFacts ==
    ASSUME Basics, Computing
    PROVE  /\ pc # "call" /\ origin \in 0 .. Len(pair_vector) - 1 /\ origin + 1 \in DOMAIN pair_vector
           /\ Current = pair_vector[origin + 1] /\ Current \in ToSet(pair_vector)
           /\ Current \in StatePairs(lexicon, rules, tables)
           /\ Current[1] \in States(lexicon) /\ Current[2] \in Numbers(rules, tables, Len(rules))
           /\ origin \in lexicon_non_epsilon_states
  <1>1. pc # "call"
    BY DEF Computing
  <1>2. /\ PairsNumbered(lexicon, rules, tables, pair_vector)
        /\ AgendaInOrder(pair_vector, agenda, lexicon_non_epsilon_states)
    BY <1>1, RunFacts
  <1>3. origin \in Nat /\ origin = Len(pair_vector) - Len(agenda) - 1
    BY DEF Basics
  <1>4. pair_vector \in Seq(StatePairs(lexicon, rules, tables)) /\ agenda \in Seq(Nat)
    BY <1>2 DEF PairsNumbered, AgendaInOrder
  <1>5. Len(pair_vector) \in Nat /\ Len(agenda) \in Nat /\ DOMAIN pair_vector = 1 .. Len(pair_vector)
    BY <1>4
  <1>6. origin \in 0 .. Len(pair_vector) - 1 /\ origin + 1 \in DOMAIN pair_vector
    BY <1>3, <1>5
  <1>7. Current = pair_vector[origin + 1]
    BY DEF Current
  <1>8. Current \in ToSet(pair_vector)
    BY <1>6, <1>7 DEF ToSet
  <1>9. Current \in StatePairs(lexicon, rules, tables)
    BY <1>4, <1>6, <1>7
  <1>10. Current[1] \in States(lexicon) /\ Current[2] \in Numbers(rules, tables, Len(rules))
    BY <1>9 DEF StatePairs
  <1>11. origin \in lexicon_non_epsilon_states
    BY <1>2, <1>6 DEF AgendaInOrder
  <1> QED
    BY <1>1, <1>6, <1>7, <1>8, <1>9, <1>10, <1>11

LEMMA HeadAndTail ==
    ASSUME NEW S, NEW s \in Seq(S), s # << >>
    PROVE  /\ Head(s) \in ToSet(s) /\ Head(s) \in S /\ Tail(s) \in Seq(S)
           /\ ToSet(s) = {Head(s)} \cup ToSet(Tail(s))
           /\ Len(Tail(s)) = Len(s) - 1 /\ \A i \in 1 .. Len(s) - 1 : Tail(s)[i] = s[i + 1]
           /\ Tail(s) \in Seq(ToSet(Tail(s)))
  <1>1. Len(s) \in Nat /\ Len(s) # 0 /\ DOMAIN s = 1 .. Len(s) /\ Head(s) = s[1]
    OBVIOUS
  <1>2. 1 \in DOMAIN s
    BY <1>1
  <1>3. Head(s) \in ToSet(s) /\ Head(s) \in S
    BY <1>1, <1>2 DEF ToSet
  <1> DEFINE t == Tail(s)
  <1>4. t \in Seq(S) /\ Len(t) = Len(s) - 1 /\ \A i \in 1 .. Len(s) - 1 : t[i] = s[i + 1]
    BY <1>1
  <1>5. DOMAIN t = 1 .. Len(s) - 1 /\ Len(t) \in Nat
    BY <1>1, <1>4
  <1> HIDE DEF t
  <1>6. \A i \in DOMAIN s : i = 1 \/ (i - 1 \in DOMAIN t /\ t[i - 1] = s[i])
    BY <1>1, <1>4, <1>5
  <1>7. \A i \in DOMAIN t : i + 1 \in DOMAIN s /\ t[i] = s[i + 1]
    BY <1>1, <1>4, <1>5
  <1>8. ToSet(s) \subseteq {Head(s)} \cup ToSet(t)
    BY <1>1, <1>6 DEF ToSet
  <1>9. ToSet(t) \subseteq ToSet(s)
    BY <1>7 DEF ToSet
  <1>10. t \in Seq(ToSet(t))
    <2>1. \A i \in DOMAIN t : t[i] \in ToSet(t)
      BY DEF ToSet
    <2>2. t \in [1 .. Len(t) -> ToSet(t)]
      BY <1>4, <1>5, <2>1
    <2> QED
      BY <1>5, <2>2
  <1> QED
    BY <1>3, <1>4, <1>8, <1>9, <1>10 DEF t

(* Most steps of a computation change neither the rule pairs nor the agenda. *)
LEMMA BasicsStay ==
    ASSUME Basics, Computing, Computing',
           UNCHANGED << inputs, tables, pair_vector, agenda, lexicon_non_epsilon_states, origin >>
    PROVE  Basics' /\ Current' = Current
  <1>1. /\ call' = call /\ lexicon' = lexicon /\ rules' = rules /\ tables' = tables
        /\ pair_vector' = pair_vector /\ agenda' = agenda /\ origin' = origin
        /\ lexicon_non_epsilon_states' = lexicon_non_epsilon_states
    BY DEF inputs
  <1>2. pc # "call" /\ pc' # "call" /\ pc' \in {"symbols", "ask", "answer", "last"}
    BY DEF Computing
  <1>3. Current' = Current
    BY <1>1 DEF Current
  <1> QED
    BY <1>1, <1>2, <1>3 DEF Basics

LEMMA InitInv == ComposeInit => ComposeInv
  <1> SUFFICES ASSUME ComposeInit PROVE ComposeInv
    OBVIOUS
  <1>1. /\ call \in Cases /\ pc = "call" /\ pair_vector = << >> /\ agenda = << >>
        /\ lexicon_non_epsilon_states = {} /\ pending = << >>
    BY DEF ComposeInit
  <1> QED
    BY <1>1 DEF ComposeInv, Basics, PendingLeads, Progress, Asking, Computing

LEMMA NewTables ==
    ASSUME NEW R, AreRules(R), NEW tbl, tbl = [k \in 2 .. Len(R) |-> NewPair]
    PROVE  TablesRight(R, tbl)
  <1>1. Len(R) \in Nat /\ \A k \in 1 .. Len(R) : IsRule(R[k])
    BY DEF AreRules
  <1>2. \A k \in 1 .. Len(R) : 0 \in States(R[k])
    BY <1>1 DEF IsRule
  <1>3. \A k \in 2 .. Len(R) :
          tbl[k].pairs = << [rule |-> 0, rest |-> 0] >> /\ tbl[k].transitions = [j \in {} |-> {}]
    BY DEF NewPair
  <1>4. \A k \in 2 .. Len(R) : Len(tbl[k].pairs) = 1
    BY <1>3
  <1>5. ASSUME NEW k \in 2 .. Len(R)
        PROVE  /\ tbl[k].pairs \in Seq(Pairs(R, tbl, k)) /\ tbl[k].pairs # << >>
               /\ tbl[k].pairs[1] = [rule |-> 0, rest |-> 0] /\ NoneTwice(tbl[k].pairs)
    <2>1. 0 \in Numbers(R, tbl, k - 1)
      <3>1. CASE k - 1 = 1
        <4>1. 0 \in States(R[1])
          BY <1>1, <1>2
        <4> QED
          BY <3>1, <4>1 DEF Numbers
      <3>2. CASE k - 1 # 1
        <4>1. k - 1 \in 2 .. Len(R)
          BY <1>1, <3>2
        <4>2. Len(tbl[k - 1].pairs) = 1
          BY <1>4, <4>1
        <4>3. Numbers(R, tbl, k - 1) = 0 .. Len(tbl[k - 1].pairs) - 1
          BY <3>2 DEF Numbers
        <4> QED
          BY <4>2, <4>3
      <3> QED
        BY <3>1, <3>2
    <2>2. 0 \in States(R[k])
      BY <1>1, <1>2
    <2>3. [rule |-> 0, rest |-> 0] \in Pairs(R, tbl, k)
      BY <2>1, <2>2 DEF Pairs
    <2> DEFINE p == [rule |-> 0, rest |-> 0]
    <2>4. tbl[k].pairs = << p >>
      BY <1>3
    <2> HIDE DEF p
    <2>5. << p >> \in Seq(Pairs(R, tbl, k)) /\ << p >> # << >> /\ << p >>[1] = p /\ NoneTwice(<< p >>)
      BY <2>3 DEF NoneTwice, p
    <2> QED
      BY <2>4, <2>5 DEF p
  <1>6. AreTables(R, tbl)
    BY <1>5 DEF AreTables
  <1>7. \A k \in 2 .. Len(R) : DOMAIN tbl[k].transitions = {}
    BY <1>3
  <1>8. Computations(R, tbl)
    BY <1>7 DEF Computations
  <1> QED
    BY <1>6, <1>8 DEF TablesRight

LEMMA StartInv ==
    ASSUME ComposeInv, ComposeWithRules
    PROVE  ComposeInv'
  <1> DEFINE L == PreparedLexicon(call)
             R == PreparedRules(call)
             T == [k \in 2 .. Len(R) |-> NewPair]
             p == << 0, 0 >>
  <1>1. /\ pc = "call" /\ lexicon' = L /\ rules' = R
        /\ tables' = [k \in 2 .. Len(call.rules) |-> NewPair]
        /\ MapStateAndAddToAgenda(<< 0, 0 >>, TRUE)
        /\ pc' = "agenda" /\ call' = call /\ pending' = pending
    BY DEF ComposeWithRules
  <1>2. /\ call \in Cases /\ pair_vector = << >> /\ agenda = << >> /\ lexicon_non_epsilon_states = {}
        /\ pending = << >>
    BY <1>1 DEF ComposeInv, Basics, PendingLeads
  <1>3. /\ IsPrepared(L) /\ AreRules(R) /\ DOMAIN call.rules = 1 .. Len(call.rules) /\ Len(call.rules) \in Nat
    BY <1>2, CallPrepared
  <1>4. Len(R) = Len(call.rules) /\ Len(R) \in Nat /\ Len(R) # 0
    <2>1. DOMAIN R = 1 .. Len(call.rules)
      BY <1>3 DEF PreparedRules
    <2> HIDE DEF R
    <2>2. Len(R) = Len(call.rules)
      BY <1>3, <2>1
    <2> QED
      BY <1>3, <2>2 DEF AreRules
  <1>5. tables' = T
    BY <1>1, <1>4
  <1> HIDE DEF L, R
  <1>6. TablesRight(R, T)
    BY <1>3, NewTables
  <1> HIDE DEF T
  <1>7. pair_vector' = << p >> /\ agenda' = << 0 >> /\ lexicon_non_epsilon_states' = {0}
    <2>1. Len(<< >>) = 0
      OBVIOUS
    <2>2. /\ pair_vector' = Append(<< >>, p) /\ agenda' = Append(<< >>, 0)
          /\ lexicon_non_epsilon_states' = {} \cup {0}
      BY <1>1, <1>2, <2>1 DEF MapStateAndAddToAgenda
    <2> HIDE DEF p
    <2> QED
      BY <2>2
  <1>8. PairsNumbered(L, R, T, << p >>)
    <2>1. 0 \in States(L)
      BY <1>3 DEF IsPrepared
    <2>2. 0 \in Numbers(R, T, Len(R))
      <3>1. Len(R) \in 1 .. Len(R)
        BY <1>4
      <3> QED
        BY <1>3, <1>6, <3>1, MeaningOfZero DEF TablesRight
    <2>3. p \in StatePairs(L, R, T)
      BY <2>1, <2>2 DEF StatePairs
    <2> HIDE DEF p
    <2>4. << p >> \in Seq(StatePairs(L, R, T)) /\ << p >> # << >> /\ << p >>[1] = p /\ NoneTwice(<< p >>)
      BY <2>3 DEF NoneTwice
    <2> QED
      BY <2>4 DEF PairsNumbered, p
  <1>9. AgendaInOrder(<< p >>, << 0 >>, {0})
    <2> HIDE DEF p
    <2>1. Len(<< p >>) = 1 /\ Len(<< 0 >>) = 1 /\ << 0 >> \in Seq(Nat) /\ << 0 >>[1] = 0
      OBVIOUS
    <2>2. \A i \in 1 .. 1 : i = 1
      OBVIOUS
    <2>3. {0} = 0 .. 0
      OBVIOUS
    <2> QED
      BY <2>1, <2>2, <2>3 DEF AgendaInOrder
  <1> HIDE DEF p
  <1>10. ~ Computing'
    BY <1>1 DEF Computing
  <1>11. Basics'
    BY <1>1, <1>2, <1>5, <1>6, <1>7, <1>8, <1>9, <1>10 DEF Basics, L, R
  <1>12. pending' = << >> /\ pc' \notin {"ask", "answer"}
    BY <1>1, <1>2
  <1> QED
    BY <1>10, <1>11, <1>12 DEF ComposeInv, PendingLeads, Progress, Asking

LEMMA NothingPending ==
    /\ << >> \in Seq(ToSet(<< >>)) /\ ToSet(<< >>) = {} /\ Targets(<< >>) = {}
    /\ \A L, R, tbl, p : Lead(L, R, tbl, p, << >>)
  <1>1. << >> \in Seq(ToSet(<< >>)) /\ ToSet(<< >>) = {}
    BY DEF ToSet
  <1>2. Targets(<< >>) = {}
    BY <1>1 DEF Targets
  <1> QED
    BY <1>1, <1>2 DEF Lead

LEMMA PopInv ==
    ASSUME ComposeInv, PopAgenda
    PROVE  ComposeInv'
  <1>1. /\ pc = "agenda" /\ agenda # << >> /\ agenda' = Tail(agenda) /\ origin' = Head(agenda)
        /\ keys' = SymbolsOf(Head(agenda)) /\ pc' = "symbols"
        /\ call' = call /\ lexicon' = lexicon /\ rules' = rules /\ tables' = tables
        /\ pair_vector' = pair_vector /\ pending' = pending
        /\ lexicon_non_epsilon_states' = lexicon_non_epsilon_states
    BY DEF PopAgenda, inputs
  <1>2. Basics /\ pc # "call" /\ pending = << >>
    BY <1>1 DEF ComposeInv, PendingLeads
  <1>3. /\ IsPrepared(lexicon) /\ AreRules(rules)
        /\ TablesRight(rules, tables)
        /\ PairsNumbered(lexicon, rules, tables, pair_vector)
        /\ AgendaInOrder(pair_vector, agenda, lexicon_non_epsilon_states)
    BY <1>2, RunFacts
  <1> DEFINE n == Len(pair_vector)
             m == Len(agenda)
  <1>4. /\ agenda \in Seq(Nat) /\ m <= n /\ m \in Nat /\ n \in Nat
        /\ \A i \in 1 .. m : agenda[i] = n - m + i - 1
        /\ pair_vector \in Seq(StatePairs(lexicon, rules, tables))
    BY <1>3 DEF AgendaInOrder, PairsNumbered
  <1>5. /\ Tail(agenda) \in Seq(Nat) /\ Len(Tail(agenda)) = m - 1 /\ m # 0
        /\ \A i \in 1 .. m - 1 : Tail(agenda)[i] = agenda[i + 1]
        /\ Head(agenda) = agenda[1]
    BY <1>1, <1>4, HeadAndTail
  <1> HIDE DEF n, m
  <1>6. Head(agenda) = n - m /\ n - m \in Nat /\ n - m \in 0 .. n - 1
    BY <1>4, <1>5
  <1>7. AgendaInOrder(pair_vector, Tail(agenda), lexicon_non_epsilon_states)
    <2>1. \A i \in 1 .. m - 1 : Tail(agenda)[i] = n - (m - 1) + i - 1
      BY <1>4, <1>5
    <2>2. m - 1 <= n
      BY <1>4
    <2> QED
      BY <1>3, <1>5, <2>1, <2>2 DEF AgendaInOrder, n
  <1>8. origin' \in Nat /\ origin' = Len(pair_vector) - Len(Tail(agenda)) - 1
    BY <1>1, <1>4, <1>5, <1>6 DEF n
  <1>9. Basics'
    BY <1>1, <1>2, <1>3, <1>7, <1>8 DEF Basics
  <1>10. PendingLeads'
    <2>1. pending' = << >>
      BY <1>1, <1>2
    <2> QED
      BY <2>1, NothingPending DEF PendingLeads
  <1>11. keys' \in Seq(Symbols) /\ ToSet(keys') = {a.out : a \in lexicon.arcs[Current'[1]]}
    <2> DEFINE p == pair_vector[Head(agenda) + 1]
               S == lexicon.arcs[p[1]]
    <2>1. Current' = p
      BY <1>1 DEF Current
    <2>2. p[1] \in States(lexicon)
      <3>1. Head(agenda) + 1 \in DOMAIN pair_vector
        BY <1>4, <1>6 DEF n
      <3> QED
        BY <1>4, <3>1 DEF StatePairs
    <2>3. IsFiniteSet(S) /\ S \subseteq Transitions
      BY <1>3, <2>2 DEF IsPrepared
    <2> DEFINE outs == {a.out : a \in S}
               order == Ordered(outs, {d \in outs \X outs : Number(d[1]) < Number(d[2])})
    <2>4. keys' = order
      BY <1>1 DEF SymbolsOf
    <2> HIDE DEF p, S
    <2>5. order \in Seq(Symbols) /\ ToSet(order) = outs
      BY <2>3, SymbolsListed
    <2> QED
      BY <1>1, <2>1, <2>4, <2>5 DEF S
  <1>12. Covered(lexicon', rules', Meant(rules', tables', Current'), Due', Known')
    <2>1. \A a \in lexicon.arcs[Current'[1]] : a.out \in ToSet(keys')
      BY <1>11
    <2>2. ToSet(keys') \subseteq Due'
      BY DEF Due
    <2>3. Meant(rules', tables', Current')[1] = Current'[1]
      BY DEF Meant
    <2> QED
      BY <1>1, <2>1, <2>2, <2>3 DEF Covered
  <1>13. Progress' /\ Asking'
    BY <1>1, <1>11, <1>12 DEF Progress, Asking
  <1> QED
    BY <1>9, <1>10, <1>13 DEF ComposeInv

LEMMA SkippedPasses ==
    ASSUME Top = Len(rules), NEW x
    PROVE  Skipped(x) <=> Passes(rules, x)
  BY DEF Skipped, KnownSymbol, Passes

LEMMA KnownGrows ==
    ASSUME NEW R, NEW tbl, NEW P, NEW Q, P \subseteq Q
    PROVE  MeantBy(R, tbl, P) \subseteq MeantBy(R, tbl, Q)
  BY DEF MeantBy

LEMMA SkipInv ==
    ASSUME ComposeInv, SkipSymbol
    PROVE  ComposeInv'
  <1> DEFINE x == Head(keys)
             p == Current
             list == LexiconSkip(With(lexicon, p, x), p[2])
             m == Meant(rules, tables, p)
  <1>1. /\ pc = "symbols" /\ pending = << >> /\ keys # << >> /\ Skipped(x) /\ keys' = Tail(keys)
        /\ pending' = IF x # Epsilon \/ origin \in lexicon_non_epsilon_states
                        THEN LexiconSkip(ArcsWith(x), Current[2]) ELSE << >>
        /\ pc' = pc /\ UNCHANGED << inputs, tables, pair_vector, agenda, lexicon_non_epsilon_states, origin >>
    BY DEF SkipSymbol
  <1>2. /\ lexicon' = lexicon /\ rules' = rules /\ tables' = tables /\ pair_vector' = pair_vector
        /\ pc' = "symbols"
    BY <1>1 DEF inputs
  <1>3. Computing /\ Computing' /\ Basics
    BY <1>1, <1>2 DEF Computing, ComposeInv
  <1>4. Basics' /\ Current' = p
    BY <1>1, <1>3, BasicsStay
  <1>5. /\ IsPrepared(lexicon) /\ AreRules(rules) /\ p \in StatePairs(lexicon, rules, tables)
        /\ origin \in lexicon_non_epsilon_states /\ Top = Len(rules)
    BY <1>3, CurrentFacts, RunFacts
  <1>6. Passes(rules, x)
    BY <1>1, <1>5, SkippedPasses
  <1>7. pending' = list
    BY <1>1, <1>5 DEF ArcsWith, With
  <1>8. /\ keys \in Seq(Symbols) /\ Covered(lexicon, rules, m, Due, Known)
    BY <1>3 DEF ComposeInv, Progress
  <1>9. keys' \in Seq(Symbols) /\ ToSet(keys) = {x} \cup ToSet(keys')
    BY <1>1, <1>8, HeadAndTail
  <1>10. m[1] = p[1] /\ m[2] = Meaning(Len(rules), tables, p[2])
    BY DEF Meant
  <1> HIDE DEF x, p, m
  <1>11. /\ Lead(lexicon, rules, tables, p, list)
         /\ \A a \in With(lexicon, p, x) : << a.target, m[2] >> \in MeantBy(rules, tables, Targets(list))
    BY <1>5, <1>6, <1>10, PassingLeads
  <1> HIDE DEF list
  <1>12. PendingLeads'
    BY <1>2, <1>4, <1>7, <1>11 DEF PendingLeads
  <1>13. Known' = MeantBy(rules, tables, ToSet(pair_vector) \cup Targets(list))
    BY <1>2, <1>7 DEF Known
  <1>14. Known \subseteq Known'
    <2>1. Known = MeantBy(rules, tables, ToSet(pair_vector))
      BY <1>1, NothingPending DEF Known
    <2> QED
      BY <1>13, <2>1, KnownGrows
  <1>15. MeantBy(rules, tables, Targets(list)) \subseteq Known'
    BY <1>13, KnownGrows
  <1>16. Due = ToSet(keys) /\ Due' = ToSet(keys')
    BY <1>1, <1>2 DEF Due
  <1>17. Covered(lexicon, rules, m, Due', Known')
    <2> SUFFICES ASSUME NEW a \in lexicon.arcs[m[1]], a.out \notin Due'
                 PROVE  /\ Passes(rules, a.out) => << a.target, m[2] >> \in Known'
                        /\ ~ Passes(rules, a.out) =>
                             \A o : Agreed(rules, Len(rules), m[2], a.out, o) =>
                                      << a.target, Move(rules, m[2], a.out, o) >> \in Known'
      BY DEF Covered
    <2>1. CASE a.out = x
      <3>1. a \in With(lexicon, p, x)
        BY <1>10, <2>1 DEF With
      <3> QED
        BY <1>6, <1>11, <1>15, <2>1, <3>1
    <2>2. CASE a.out # x
      <3>1. a.out \notin Due
        BY <1>9, <1>16, <2>2
      <3> QED
        BY <1>8, <1>14, <3>1 DEF Covered
    <2> QED
      BY <2>1, <2>2
  <1>18. Progress' /\ Asking'
    BY <1>2, <1>4, <1>9, <1>17 DEF Progress, Asking, m
  <1> QED
    BY <1>4, <1>12, <1>18 DEF ComposeInv

LEMMA AskInv ==
    ASSUME ComposeInv, AskRules
    PROVE  ComposeInv'
  <1> DEFINE p == Current
             m == Meant(rules, tables, p)
  <1>1. /\ pc = "symbols" /\ pending = << >> /\ pending' = pending
        /\ \/ keys # << >> /\ ~ Skipped(Head(keys)) /\ symbol' = Head(keys) /\ keys' = Tail(keys)
           \/ keys = << >> /\ symbol' = Epsilon /\ keys' = keys
        /\ frames' = << p[2] >> /\ pc' = "ask"
        /\ UNCHANGED << inputs, tables, pair_vector, agenda, lexicon_non_epsilon_states, origin >>
    BY DEF AskRules
  <1>2. /\ lexicon' = lexicon /\ rules' = rules /\ tables' = tables /\ pair_vector' = pair_vector
    BY <1>1 DEF inputs
  <1>3. Computing /\ Computing' /\ Basics
    BY <1>1 DEF Computing, ComposeInv
  <1>4. Basics' /\ Current' = p
    BY <1>1, <1>3, BasicsStay
  <1>5. /\ AreRules(rules) /\ Top = Len(rules)
        /\ Len(rules) \in Nat /\ Len(rules) # 0 /\ p[2] \in Numbers(rules, tables, Len(rules))
        /\ AreTables(rules, tables)
    BY <1>3, CurrentFacts, RunFacts
  <1>6. /\ keys \in Seq(Symbols) /\ Covered(lexicon, rules, m, Due, Known)
    BY <1>3 DEF ComposeInv, Progress
  <1>7. Due = ToSet(keys)
    BY <1>1 DEF Due
  <1>8. /\ symbol' \in Symbols /\ keys' \in Seq(Symbols)
        /\ symbol' = Epsilon => keys' = << >>
        /\ symbol' # Epsilon => ~ Passes(rules, symbol')
        /\ Due' = Due
    <2>1. CASE keys # << >> /\ ~ Skipped(Head(keys)) /\ symbol' = Head(keys) /\ keys' = Tail(keys)
      <3>1. /\ Head(keys) \in Symbols /\ Tail(keys) \in Seq(Symbols)
            /\ ToSet(keys) = {Head(keys)} \cup ToSet(Tail(keys))
        BY <1>6, <2>1, HeadAndTail
      <3>2. ~ Passes(rules, symbol') /\ symbol' # Epsilon
        BY <1>5, <2>1, SkippedPasses DEF Passes
      <3>3. Due' = ToSet(keys') \cup {symbol'}
        BY <1>1, <3>2 DEF Due
      <3> QED
        BY <1>7, <2>1, <3>1, <3>2, <3>3
    <2>2. CASE keys = << >> /\ symbol' = Epsilon /\ keys' = keys
      <3>1. Due' = ToSet(keys')
        BY <2>2 DEF Due
      <3>2. Epsilon \in Symbols
        BY ComposeAssumption
      <3> QED
        BY <1>6, <1>7, <2>2, <3>1, <3>2
    <2> QED
      BY <1>1, <2>1, <2>2
  <1>9. Known' = Known
    BY <1>1, <1>2 DEF Known
  <1>10. FramesRight(rules, tables, << p[2] >>, p[2])
    <2> DEFINE s == p[2]
    <2>1. s \in Nat
      <3>1. CASE Len(rules) = 1
        BY <1>5, <3>1 DEF Numbers, AreRules, IsRule
      <3>2. CASE Len(rules) # 1
        <4>1. Len(rules) \in 2 .. Len(rules)
          BY <1>5, <3>2
        <4> QED
          BY <1>5, <4>1, PairOf
      <3> QED
        BY <3>1, <3>2
    <2> HIDE DEF s
    <2>2. << s >> \in Seq(Nat) /\ Len(<< s >>) = 1 /\ << s >>[1] = s
      BY <2>1
    <2>3. 1 \in 1 .. Len(rules) /\ Len(rules) + 1 - 1 = Len(rules)
      BY <1>5
    <2>4. \A i \in 1 .. 1 : i = 1
      OBVIOUS
    <2>5. \A i \in 1 .. 1 - 1 : FALSE
      OBVIOUS
    <2>6. \A i \in 1 .. 1 : << s >>[i] \in Numbers(rules, tables, Len(rules) + 1 - i)
      BY <1>5, <2>2, <2>3, <2>4 DEF s
    <2>7. FramesRight(rules, tables, << s >>, s)
      BY <2>2, <2>3, <2>5, <2>6 DEF FramesRight
    <2> QED
      BY <2>7 DEF s
  <1> HIDE DEF p, m
  <1>11. PendingLeads'
    BY <1>1, NothingPending DEF PendingLeads
  <1>12. Progress'
    BY <1>1, <1>2, <1>4, <1>6, <1>8, <1>9 DEF Progress, m
  <1>13. Asking'
    BY <1>1, <1>2, <1>4, <1>8, <1>10 DEF Asking
  <1> QED
    BY <1>4, <1>11, <1>12, <1>13 DEF ComposeInv

LEMMA AskingStays ==
    ASSUME ComposeInv, pc \in {"ask", "answer"}, pc' \in {"ask", "answer"},
           UNCHANGED << inputs, tables, pair_vector, agenda, lexicon_non_epsilon_states, origin,
                        keys, symbol, pending >>
    PROVE  Basics' /\ PendingLeads' /\ Progress' /\ Current' = Current
  <1>1. /\ lexicon' = lexicon /\ rules' = rules /\ tables' = tables /\ pair_vector' = pair_vector
        /\ keys' = keys /\ symbol' = symbol /\ pending' = pending
    BY DEF inputs
  <1>2. Computing /\ Computing' /\ Basics
    BY DEF Computing, ComposeInv
  <1>3. Basics' /\ Current' = Current
    BY <1>2, BasicsStay
  <1>4. Known' = Known /\ Due' = Due
    <2>1. Known' = Known
      BY <1>1 DEF Known
    <2>2. Due = ToSet(keys) \cup {x \in {symbol} : x # Epsilon}
      BY DEF Due
    <2>3. Due' = ToSet(keys') \cup {x \in {symbol'} : x # Epsilon}
      BY DEF Due
    <2> QED
      BY <1>1, <2>1, <2>2, <2>3
  <1>5. pending = << >>
    BY DEF ComposeInv, PendingLeads
  <1>6. PendingLeads'
    BY <1>1, <1>5, NothingPending DEF PendingLeads
  <1>7. keys \in Seq(Symbols) /\ Covered(lexicon, rules, Meant(rules, tables, Current), Due, Known)
    BY <1>2 DEF ComposeInv, Progress
  <1>8. Progress'
    BY <1>1, <1>3, <1>4, <1>7 DEF Progress
  <1> QED
    BY <1>3, <1>6, <1>8

LEMMA LevelFacts ==
    ASSUME ComposeInv, pc \in {"ask", "answer"}
    PROVE  /\ Basics /\ Computing /\ pc # "call" /\ Len(frames) \in Nat /\ Len(frames) # 0
           /\ FramesRight(rules, tables, frames, Current[2])
           /\ Level = Len(rules) + 1 - Len(frames) /\ Level \in 1 .. Len(rules)
           /\ Last(frames) = frames[Len(frames)] /\ Last(frames) \in Numbers(rules, tables, Level)
           /\ symbol \in Symbols /\ (symbol = Epsilon => keys = << >>)
           /\ (symbol # Epsilon => ~ Passes(rules, symbol))
           /\ pc = "answer" => Answers(rules, Level, tables, Last(frames), symbol, answer)
  <1>1. Basics /\ Computing /\ pc # "call"
    BY DEF ComposeInv, Computing
  <1>2. Len(rules) \in Nat /\ Top = Len(rules)
    BY <1>1, RunFacts
  <1>3. /\ FramesRight(rules, tables, frames, Current[2])
        /\ symbol \in Symbols /\ (symbol = Epsilon => keys = << >>)
        /\ (symbol # Epsilon => ~ Passes(rules, symbol))
        /\ pc = "answer" => Answers(rules, Len(rules) + 1 - Len(frames), tables, frames[Len(frames)], symbol, answer)
    BY DEF ComposeInv, Asking
  <1>4. /\ Len(frames) \in 1 .. Len(rules)
        /\ \A i \in 1 .. Len(frames) : frames[i] \in Numbers(rules, tables, Len(rules) + 1 - i)
    BY <1>3 DEF FramesRight
  <1>5. Level = Len(rules) + 1 - Len(frames) /\ Last(frames) = frames[Len(frames)]
    BY <1>2 DEF Level, Last
  <1>6. Level \in 1 .. Len(rules) /\ Len(frames) \in Nat /\ Len(frames) # 0 /\ Len(frames) \in 1 .. Len(frames)
    BY <1>2, <1>4, <1>5
  <1>7. Last(frames) \in Numbers(rules, tables, Level)
    BY <1>4, <1>5, <1>6
  <1> QED
    BY <1>1, <1>3, <1>5, <1>6, <1>7

LEMMA ReturnInv ==
    ASSUME ComposeInv, Return
    PROVE  ComposeInv'
  <1> DEFINE s == Last(frames)
             k == Level
  <1>1. /\ pc = "ask" /\ pc' = "answer" /\ frames' = frames
        /\ \/ k = 1 /\ answer' = RuleTransitions(rules[1], s, symbol)
           \/ /\ k > 1 /\ << s, symbol >> \in DOMAIN tables[k].transitions
              /\ answer' = tables[k].transitions[<< s, symbol >>]
        /\ UNCHANGED << inputs, tables, pair_vector, agenda, lexicon_non_epsilon_states, origin,
                        keys, symbol, pending >>
    BY DEF Return, Asked
  <1>2. rules' = rules /\ tables' = tables /\ keys' = keys /\ symbol' = symbol
    BY <1>1 DEF inputs
  <1>3. Basics' /\ PendingLeads' /\ Progress' /\ Current' = Current
    BY <1>1, AskingStays
  <1>4. /\ Basics /\ pc # "call" /\ FramesRight(rules, tables, frames, Current[2])
        /\ k = Len(rules) + 1 - Len(frames) /\ k \in 1 .. Len(rules)
        /\ s = frames[Len(frames)] /\ s \in Numbers(rules, tables, k)
        /\ symbol \in Symbols /\ (symbol = Epsilon => keys = << >>)
        /\ (symbol # Epsilon => ~ Passes(rules, symbol))
    BY <1>1, LevelFacts
  <1>5. AreRules(rules) /\ TablesRight(rules, tables) /\ Len(rules) \in Nat
    BY <1>4, RunFacts
  <1> HIDE DEF s, k
  <1>6. Answers(rules, k, tables, s, symbol, answer')
    <2>1. CASE k = 1 /\ answer' = RuleTransitions(rules[1], s, symbol)
      BY <1>4, <1>5, <2>1, FirstAnswers
    <2>2. CASE /\ k > 1 /\ << s, symbol >> \in DOMAIN tables[k].transitions
               /\ answer' = tables[k].transitions[<< s, symbol >>]
      <3>1. k \in 2 .. Len(rules)
        BY <1>4, <1>5, <2>2
      <3> QED
        BY <1>4, <1>5, <2>2, <3>1 DEF TablesRight, Computations
    <2> QED
      BY <1>1, <2>1, <2>2
  <1>7. Asking'
    BY <1>1, <1>2, <1>3, <1>4, <1>6 DEF Asking
  <1> QED
    BY <1>3, <1>7 DEF ComposeInv

LEMMA DescendInv ==
    ASSUME ComposeInv, Descend
    PROVE  ComposeInv'
  <1> DEFINE n == Len(frames)
             s == Last(frames)
             k == Level
             t == tables[k].pairs[s + 1].rest
             fr == Append(frames, t)
  <1>1. /\ pc = "ask" /\ pc' = "ask" /\ k > 1 /\ frames' = fr
        /\ UNCHANGED << inputs, tables, pair_vector, agenda, lexicon_non_epsilon_states, origin,
                        keys, symbol, pending >>
    BY DEF Descend
  <1>2. rules' = rules /\ tables' = tables /\ keys' = keys /\ symbol' = symbol
    BY <1>1 DEF inputs
  <1>3. Basics' /\ PendingLeads' /\ Progress' /\ Current' = Current
    BY <1>1, AskingStays
  <1>4. /\ Basics /\ pc # "call" /\ FramesRight(rules, tables, frames, Current[2])
        /\ n \in Nat /\ n # 0
        /\ k = Len(rules) + 1 - n /\ k \in 1 .. Len(rules)
        /\ s = frames[n] /\ s \in Numbers(rules, tables, k)
        /\ symbol \in Symbols /\ (symbol = Epsilon => keys = << >>)
        /\ (symbol # Epsilon => ~ Passes(rules, symbol))
    BY <1>1, LevelFacts
  <1>5. AreTables(rules, tables) /\ AreRules(rules) /\ Len(rules) \in Nat
    BY <1>4, RunFacts
  <1> HIDE DEF s, k, n
  <1>6. k \in 2 .. Len(rules) /\ k - 1 \in 1 .. Len(rules)
    BY <1>1, <1>4, <1>5
  <1>7. t \in Numbers(rules, tables, k - 1)
    BY <1>4, <1>5, <1>6, PairOf
  <1> HIDE DEF t
  <1>8. t \in Nat
    <2>1. CASE k - 1 = 1
      BY <1>5, <1>6, <1>7, <2>1 DEF Numbers, AreRules, IsRule
    <2>2. CASE k - 1 # 1
      <3>1. k - 1 \in 2 .. Len(rules)
        BY <1>5, <1>6, <2>2
      <3> QED
        BY <1>5, <1>7, <3>1, PairOf
    <2> QED
      BY <2>1, <2>2
  <1>9. /\ frames \in Seq(Nat) /\ frames[1] = Current[2]
        /\ \A i \in 1 .. n : frames[i] \in Numbers(rules, tables, Len(rules) + 1 - i)
        /\ \A i \in 1 .. n - 1 : frames[i + 1] = tables[Len(rules) + 1 - i].pairs[frames[i] + 1].rest
    BY <1>4 DEF FramesRight, n
  <1>10. /\ fr \in Seq(Nat) /\ Len(fr) = n + 1 /\ fr[n + 1] = t
         /\ \A i \in 1 .. n : fr[i] = frames[i]
    BY <1>8, <1>9 DEF n
  <1> HIDE DEF fr
  <1>11. FramesRight(rules, tables, fr, Current[2])
    <2>1. Len(fr) \in 1 .. Len(rules) /\ 1 \in 1 .. n
      BY <1>4, <1>5, <1>6, <1>10
    <2>2. fr[1] = Current[2]
      BY <1>9, <1>10, <2>1
    <2>3. ASSUME NEW i \in 1 .. Len(fr)
          PROVE  fr[i] \in Numbers(rules, tables, Len(rules) + 1 - i)
      <3>1. CASE i = n + 1
        <4>1. Len(rules) + 1 - i = k - 1
          BY <1>4, <1>5, <3>1
        <4> QED
          BY <1>7, <1>10, <3>1, <4>1
      <3>2. CASE i # n + 1
        <4>1. i \in 1 .. n
          BY <1>4, <1>10, <3>2
        <4> QED
          BY <1>9, <1>10, <4>1
      <3> QED
        BY <3>1, <3>2
    <2>4. ASSUME NEW i \in 1 .. Len(fr) - 1
          PROVE  fr[i + 1] = tables[Len(rules) + 1 - i].pairs[fr[i] + 1].rest
      <3>1. i \in 1 .. n /\ fr[i] = frames[i]
        BY <1>4, <1>10
      <3>2. CASE i = n
        <4>1. Len(rules) + 1 - i = k /\ fr[i + 1] = t /\ fr[i] = s
          BY <1>4, <1>5, <1>10, <3>1, <3>2
        <4> QED
          BY <4>1 DEF t
      <3>3. CASE i # n
        <4>1. i \in 1 .. n - 1 /\ i + 1 \in 1 .. n
          BY <1>4, <3>1, <3>3
        <4> QED
          BY <1>9, <1>10, <3>1, <4>1
      <3> QED
        BY <3>2, <3>3
    <2> QED
      BY <1>10, <2>1, <2>2, <2>3, <2>4 DEF FramesRight
  <1>12. Asking'
    BY <1>1, <1>2, <1>3, <1>4, <1>11 DEF Asking
  <1> QED
    BY <1>3, <1>12 DEF ComposeInv

\* The computed set is kept for the next time.
Memoized(R, tbl, new, n, s, x, set) ==
    /\ DOMAIN new = DOMAIN tbl
    /\ \A j \in 2 .. Len(R) : j # n => new[j] = tbl[j]
    /\ new[n].transitions = [d \in DOMAIN tbl[n].transitions \cup {<< s, x >>} |->
                               IF d = << s, x >> THEN set ELSE tbl[n].transitions[d]]

LEMMA ComputedRight ==
    ASSUME NEW R, NEW tbl, NEW new, AreRules(R), TablesRight(R, tbl),
           NEW n \in 2 .. Len(R), NEW s \in Numbers(R, tbl, n), NEW x \in Symbols, NEW rest,
           Answers(R, n - 1, tbl, tbl[n].pairs[s + 1].rest, x, rest),
           NEW set, Computed(R, tbl, new, n, s, x, rest, set), Memoized(R, tbl, new, n, s, x, set)
    PROVE  /\ TablesRight(R, new) /\ AreTables(R, new) /\ Extends(R, new, tbl)
           /\ Answers(R, n, new, s, x, set)
  <1>0. AreTables(R, tbl) /\ Computations(R, tbl) /\ DOMAIN tbl = 2 .. Len(R) /\ Len(R) \in Nat
    BY DEF TablesRight, AreRules
  <1>1. AreTables(R, new) /\ Extends(R, new, tbl) /\ Answers(R, n, new, s, x, set)
    BY <1>0, PairAnswers
  <1>2. /\ DOMAIN new = DOMAIN tbl
        /\ \A j \in 2 .. Len(R) : j # n => new[j] = tbl[j]
        /\ new[n].transitions = [d \in DOMAIN tbl[n].transitions \cup {<< s, x >>} |->
                                   IF d = << s, x >> THEN set ELSE tbl[n].transitions[d]]
    BY DEF Memoized
  <1>3. ASSUME NEW j \in 2 .. Len(R), NEW u \in Numbers(R, tbl, j)
        PROVE  u \in Numbers(R, new, j)
    <2>1. j \in 1 .. Len(R)
      BY <1>0
    <2> QED
      BY <1>0, <1>1, <2>1, MeaningKept
  <1>4. ASSUME NEW j \in 2 .. Len(R), NEW u \in Numbers(R, tbl, j), NEW y \in Symbols,
               << u, y >> \in DOMAIN tbl[j].transitions
        PROVE  Answers(R, j, new, u, y, tbl[j].transitions[<< u, y >>])
    <2>1. j \in 1 .. Len(R)
      BY <1>0
    <2>2. Answers(R, j, tbl, u, y, tbl[j].transitions[<< u, y >>])
      BY <1>0, <1>4 DEF Computations
    <2> QED
      BY <1>0, <1>1, <2>1, <2>2, AnswersKept
  <1>5. ASSUME NEW j \in 2 .. Len(R)
        PROVE  /\ DOMAIN tbl[j].transitions \subseteq Numbers(R, tbl, j) \X Symbols
               /\ DOMAIN tbl[j].transitions \subseteq Numbers(R, new, j) \X Symbols
    <2>1. DOMAIN tbl[j].transitions \subseteq Numbers(R, tbl, j) \X Symbols
      BY <1>0 DEF Computations
    <2>2. Numbers(R, tbl, j) \subseteq Numbers(R, new, j)
      BY <1>3
    <2> QED
      BY <2>1, <2>2
  <1>6. ASSUME NEW j \in 2 .. Len(R)
        PROVE  /\ DOMAIN new[j].transitions \subseteq Numbers(R, new, j) \X Symbols
               /\ \A u \in Numbers(R, new, j), y \in Symbols :
                    << u, y >> \in DOMAIN new[j].transitions =>
                      Answers(R, j, new, u, y, new[j].transitions[<< u, y >>])
    <2>1. CASE j # n
      <3>1. new[j] = tbl[j]
        BY <1>2, <2>1
      <3>2. ASSUME NEW u, NEW y, << u, y >> \in DOMAIN tbl[j].transitions
            PROVE  u \in Numbers(R, tbl, j)
        BY <1>5, <3>2
      <3> QED
        BY <1>4, <1>5, <3>1, <3>2
    <2>2. CASE j = n
      <3> DEFINE old == tbl[n].transitions
                 now == new[n].transitions
                 e == << s, x >>
      <3>1. now = [d \in DOMAIN old \cup {e} |-> IF d = e THEN set ELSE old[d]]
        BY <1>2
      <3>2. e \in Numbers(R, new, n) \X Symbols
        BY <1>3
      <3>3. DOMAIN old \subseteq Numbers(R, new, n) \X Symbols
        BY <1>5
      <3> HIDE DEF now, old, e
      <3>4. /\ DOMAIN now = DOMAIN old \cup {e}
            /\ now[e] = set /\ \A d \in DOMAIN old : d # e => now[d] = old[d]
        BY <3>1
      <3>5. ASSUME NEW u \in Numbers(R, new, n), NEW y \in Symbols, << u, y >> \in DOMAIN now
            PROVE  Answers(R, n, new, u, y, now[<< u, y >>])
        <4>1. CASE << u, y >> = e
          <5>1. u = s /\ y = x
            BY <4>1 DEF e
          <5> QED
            BY <1>1, <3>4, <4>1, <5>1
        <4>2. CASE << u, y >> # e
          <5>1. << u, y >> \in DOMAIN old /\ now[<< u, y >>] = old[<< u, y >>]
            BY <3>4, <3>5, <4>2
          <5>2. u \in Numbers(R, tbl, n)
            BY <1>5, <5>1 DEF old
          <5> QED
            BY <1>4, <5>1, <5>2 DEF old
        <4> QED
          BY <4>1, <4>2
      <3>6. DOMAIN now \subseteq Numbers(R, new, n) \X Symbols
        BY <3>2, <3>3, <3>4
      <3> QED
        BY <2>2, <3>5, <3>6 DEF now
    <2> QED
      BY <2>1, <2>2
  <1>7. Computations(R, new)
    BY <1>6 DEF Computations
  <1> QED
    BY <1>0, <1>1, <1>2, <1>7 DEF TablesRight

LEMMA MeantKept ==
    ASSUME NEW L, NEW R, NEW tbl, NEW new, AreRules(R), AreTables(R, tbl), AreTables(R, new),
           Extends(R, new, tbl), NEW p \in StatePairs(L, R, tbl)
    PROVE  p \in StatePairs(L, R, new) /\ Meant(R, new, p) = Meant(R, tbl, p)
  <1>1. Len(R) \in 1 .. Len(R)
    BY DEF AreRules
  <1>2. p = << p[1], p[2] >> /\ p[1] \in States(L) /\ p[2] \in Numbers(R, tbl, Len(R))
    BY DEF StatePairs
  <1>3. p[2] \in Numbers(R, new, Len(R)) /\ Meaning(Len(R), new, p[2]) = Meaning(Len(R), tbl, p[2])
    BY <1>1, <1>2, MeaningKept
  <1>4. p \in StatePairs(L, R, new)
    BY <1>2, <1>3 DEF StatePairs
  <1> QED
    BY <1>3, <1>4 DEF Meant

LEMMA PairsKept ==
    ASSUME NEW L, NEW R, NEW tbl, NEW new, AreRules(R), AreTables(R, tbl), AreTables(R, new),
           Extends(R, new, tbl), NEW list, PairsNumbered(L, R, tbl, list)
    PROVE  /\ PairsNumbered(L, R, new, list)
           /\ MeantBy(R, new, ToSet(list)) = MeantBy(R, tbl, ToSet(list))
  <1>1. list \in Seq(StatePairs(L, R, tbl))
    BY DEF PairsNumbered
  <1>2. \A p \in StatePairs(L, R, tbl) : p \in StatePairs(L, R, new) /\ Meant(R, new, p) = Meant(R, tbl, p)
    BY MeantKept
  <1>3. list \in Seq(StatePairs(L, R, new))
    BY <1>1, <1>2
  <1>4. ToSet(list) \subseteq StatePairs(L, R, tbl)
    BY <1>1 DEF ToSet
  <1>5. MeantBy(R, new, ToSet(list)) = MeantBy(R, tbl, ToSet(list))
    BY <1>2, <1>4 DEF MeantBy
  <1> QED
    BY <1>3, <1>5 DEF PairsNumbered

LEMMA ComputeFacts ==
    ASSUME ComposeInv, ComputeTransitionSet
    PROVE  LET n == Len(frames)
               k == Len(rules) + 2 - n
               s == frames[n - 1]
           IN  /\ pc = "answer" /\ pc' = "answer" /\ n - 1 \in 1 .. n /\ n \in Nat /\ n > 1
               /\ k \in 2 .. Len(rules) /\ s \in Numbers(rules, tables, k)
               /\ frames' = SubSeq(frames, 1, n - 1)
               /\ TablesRight(rules, tables') /\ AreTables(rules, tables') /\ Extends(rules, tables', tables)
               /\ Answers(rules, k, tables', s, symbol, answer')
               /\ UNCHANGED << inputs, pair_vector, agenda, lexicon_non_epsilon_states, origin,
                               keys, symbol, pending, result >>
  <1> DEFINE n == Len(frames)
             k == Level + 1
             s == frames[n - 1]
             pairs == tables[k].pairs
             own == RuleTransitions(rules[k], pairs[s + 1].rule, symbol)
             met == PairsInOrder(Meet(own, answer))
             target(p) == [rule |-> p[1].target, rest |-> p[2].target]
             numbered == Numbered(pairs, [i \in DOMAIN met |-> target(met[i])])
             set == {[in |-> symbol, out |-> p[1].out, weight |-> p[1].weight + p[2].weight,
                      target |-> PairNumber(numbered, target(p))] : p \in ToSet(met)}
             old == tables[k].transitions
             memo == [d \in DOMAIN old \cup {<< s, symbol >>} |-> IF d = << s, symbol >> THEN set ELSE old[d]]
  <1>1. pc = "answer" /\ Len(frames) > 1
    BY DEF ComputeTransitionSet
  <1>2. /\ Basics /\ Computing /\ pc # "call" /\ n \in Nat
        /\ FramesRight(rules, tables, frames, Current[2])
        /\ Level = Len(rules) + 1 - n /\ Level \in 1 .. Len(rules)
        /\ Last(frames) = frames[n] /\ symbol \in Symbols
        /\ Answers(rules, Level, tables, Last(frames), symbol, answer)
    BY <1>1, LevelFacts
  <1>3. /\ AreRules(rules) /\ TablesRight(rules, tables) /\ Len(rules) \in Nat /\ AreTables(rules, tables)
        /\ DOMAIN tables = 2 .. Len(rules)
    BY <1>2, RunFacts DEF TablesRight
  <1>4. k = Len(rules) + 2 - n /\ Level = k - 1 /\ k \in Int
    BY <1>2, <1>3
  <1>5. /\ pc' = pc /\ frames' = Front(frames) /\ answer' = set
        /\ tables' = [tables EXCEPT ![k] = [pairs |-> numbered, transitions |-> memo]]
        /\ UNCHANGED << inputs, pair_vector, agenda, lexicon_non_epsilon_states, origin,
                        keys, symbol, pending, result >>
    <2> DEFINE Numbering(nn) == \E ss \in {{[in |-> symbol, out |-> p[1].out, weight |-> p[1].weight + p[2].weight,
                                             target |-> PairNumber(nn, target(p))] : p \in ToSet(met)}} :
                                 /\ answer' = ss
                                 /\ tables' = [tables EXCEPT ![k] =
                                                [pairs |-> nn,
                                                 transitions |-> [d \in DOMAIN old \cup {<< s, symbol >>} |->
                                                                   IF d = << s, symbol >> THEN ss ELSE old[d]]]]
    <2>1. \E nn \in {numbered} : Numbering(nn)
      BY DEF ComputeTransitionSet
    <2>2. Numbering(numbered)
      <3> HIDE DEF Numbering, numbered
      <3> QED
        BY <2>1
    <2>3. \E ss \in {set} : /\ answer' = ss
                            /\ tables' = [tables EXCEPT ![k] =
                                           [pairs |-> numbered,
                                            transitions |-> [d \in DOMAIN old \cup {<< s, symbol >>} |->
                                                              IF d = << s, symbol >> THEN ss ELSE old[d]]]]
      <3> HIDE DEF numbered, k
      <3> QED
        BY <2>2
    <2>4. answer' = set /\ tables' = [tables EXCEPT ![k] = [pairs |-> numbered, transitions |-> memo]]
      <3> HIDE DEF numbered, set, k
      <3> QED
        BY <2>3
    <2>5. /\ pc' = pc /\ frames' = Front(frames)
          /\ UNCHANGED << inputs, pair_vector, agenda, lexicon_non_epsilon_states, origin,
                          keys, symbol, pending, result >>
      BY DEF ComputeTransitionSet
    <2> QED
      BY <2>4, <2>5
  <1>6. /\ frames \in Seq(Nat) /\ n \in 1 .. Len(rules)
        /\ \A i \in 1 .. n : frames[i] \in Numbers(rules, tables, Len(rules) + 1 - i)
        /\ \A i \in 1 .. n - 1 : frames[i + 1] = tables[Len(rules) + 1 - i].pairs[frames[i] + 1].rest
    BY <1>2 DEF FramesRight
  <1>7. /\ n - 1 \in 1 .. n /\ n - 1 \in 1 .. n - 1 /\ n > 1 /\ n - 1 + 1 = n
        /\ Len(rules) + 1 - (n - 1) = k /\ k \in 2 .. Len(rules)
    <2> HIDE DEF k
    <2> QED
      BY <1>1, <1>3, <1>4, <1>6
  <1>8. s \in Numbers(rules, tables, k) /\ frames[n] = tables[k].pairs[s + 1].rest
    BY <1>6, <1>7
  <1>9. Front(frames) = SubSeq(frames, 1, n - 1)
    BY DEF Front
  <1> HIDE DEF k, s, n
  <1>10. Answers(rules, k - 1, tables, tables[k].pairs[s + 1].rest, symbol, answer)
    BY <1>2, <1>4, <1>8
  <1>11. /\ DOMAIN tables' = DOMAIN tables
         /\ tables'[k] = [pairs |-> numbered, transitions |-> memo]
         /\ \A j \in 2 .. Len(rules) : j # k => tables'[j] = tables[j]
    <2> HIDE DEF numbered, memo
    <2> QED
      BY <1>3, <1>5, <1>7
  <1>12. tables'[k].pairs = numbered /\ tables'[k].transitions = memo
    <2> HIDE DEF numbered, memo
    <2> QED
      BY <1>11
  <1>13. Computed(rules, tables, tables', k, s, symbol, answer, answer')
    <2>1. \A j \in 2 .. Len(rules) : j # k => tables'[j].pairs = tables[j].pairs
      BY <1>11
    <2> QED
      BY <1>5, <1>12, <2>1 DEF Computed
  <1>14. Memoized(rules, tables, tables', k, s, symbol, answer')
    <2> HIDE DEF set
    <2> QED
      BY <1>5, <1>11, <1>12 DEF Memoized
  <1> HIDE DEF numbered, memo, set
  <1>15. /\ TablesRight(rules, tables') /\ AreTables(rules, tables') /\ Extends(rules, tables', tables)
         /\ Answers(rules, k, tables', s, symbol, answer')
    BY <1>2, <1>3, <1>7, <1>8, <1>10, <1>13, <1>14, ComputedRight
  <1>16. pc' = "answer" /\ n \in Nat
    BY <1>1, <1>2, <1>5
  <1> QED
    BY <1>1, <1>4, <1>5, <1>7, <1>8, <1>9, <1>15, <1>16 DEF s, n

LEMMA PrefixFacts ==
    ASSUME NEW S, NEW s \in Seq(S), NEW k \in Nat, k <= Len(s)
    PROVE  /\ SubSeq(s, 1, k) \in Seq(S) /\ Len(SubSeq(s, 1, k)) = k
           /\ \A i \in 1 .. k : SubSeq(s, 1, k)[i] = s[i]
  <1>1. Len(s) \in Nat /\ \A i \in 1 .. k : i \in 1 .. Len(s)
    OBVIOUS
  <1> QED
    BY <1>1

LEMMA ComputeInv ==
    ASSUME ComposeInv, ComputeTransitionSet
    PROVE  ComposeInv'
  <1> DEFINE n == Len(frames)
             k == Len(rules) + 2 - n
             s == frames[n - 1]
             fr == SubSeq(frames, 1, n - 1)
             p == Current
             new == tables'
  <1>1. /\ pc = "answer" /\ pc' = "answer" /\ n - 1 \in 1 .. n /\ n \in Nat /\ n > 1
        /\ k \in 2 .. Len(rules) /\ s \in Numbers(rules, tables, k)
        /\ frames' = fr
        /\ TablesRight(rules, new) /\ AreTables(rules, new) /\ Extends(rules, new, tables)
        /\ Answers(rules, k, new, s, symbol, answer')
    BY ComputeFacts
  <1>2. UNCHANGED << inputs, pair_vector, agenda, lexicon_non_epsilon_states, origin,
                     keys, symbol, pending, result >>
    BY ComputeFacts
  <1>3. /\ lexicon' = lexicon /\ rules' = rules /\ call' = call /\ pair_vector' = pair_vector
        /\ agenda' = agenda /\ origin' = origin /\ lexicon_non_epsilon_states' = lexicon_non_epsilon_states
        /\ keys' = keys /\ symbol' = symbol /\ pending' = pending
    BY <1>2 DEF inputs
  <1>4. /\ Basics /\ Computing /\ Computing' /\ pc # "call"
        /\ FramesRight(rules, tables, frames, p[2])
        /\ symbol \in Symbols /\ (symbol = Epsilon => keys = << >>)
        /\ (symbol # Epsilon => ~ Passes(rules, symbol))
    BY <1>1, LevelFacts DEF Computing
  <1>5. /\ AreRules(rules) /\ AreTables(rules, tables) /\ Len(rules) \in Nat
        /\ PairsNumbered(lexicon, rules, tables, pair_vector)
        /\ AgendaInOrder(pair_vector, agenda, lexicon_non_epsilon_states)
        /\ p \in StatePairs(lexicon, rules, tables)
    BY <1>4, RunFacts, CurrentFacts
  <1>6. Current' = p
    BY <1>3 DEF Current
  <1> HIDE DEF p
  <1>7. /\ PairsNumbered(lexicon, rules, new, pair_vector)
        /\ MeantBy(rules, new, ToSet(pair_vector)) = MeantBy(rules, tables, ToSet(pair_vector))
    BY <1>1, <1>5, PairsKept
  <1>8. Meant(rules, new, p) = Meant(rules, tables, p)
    BY <1>1, <1>5, MeantKept
  <1>9. Basics'
    BY <1>1, <1>3, <1>4, <1>5, <1>7 DEF Basics
  <1>10. pending = << >>
    BY <1>1 DEF ComposeInv, PendingLeads
  <1>11. PendingLeads'
    BY <1>3, <1>10, NothingPending DEF PendingLeads
  <1>12. Progress'
    <2>1. Due' = Due
      <3>1. Due = ToSet(keys) \cup {x \in {symbol} : x # Epsilon}
        BY <1>1 DEF Due
      <3>2. Due' = ToSet(keys') \cup {x \in {symbol'} : x # Epsilon}
        BY <1>1 DEF Due
      <3> QED
        BY <1>3, <3>1, <3>2
    <2>2. Known' = Known
      <3>1. Known = MeantBy(rules, tables, ToSet(pair_vector))
        BY <1>10, NothingPending DEF Known
      <3>2. Known' = MeantBy(rules, new, ToSet(pair_vector))
        BY <1>3, <1>10, NothingPending DEF Known
      <3> QED
        BY <1>7, <3>1, <3>2
    <2>3. keys \in Seq(Symbols) /\ Covered(lexicon, rules, Meant(rules, tables, p), Due, Known)
      BY <1>4 DEF ComposeInv, Progress, p
    <2> QED
      BY <1>1, <1>3, <1>6, <1>8, <2>1, <2>2, <2>3 DEF Progress
  <1>13. /\ frames \in Seq(Nat) /\ frames[1] = p[2] /\ n \in 1 .. Len(rules)
         /\ \A i \in 1 .. n : frames[i] \in Numbers(rules, tables, Len(rules) + 1 - i)
         /\ \A i \in 1 .. n - 1 : frames[i + 1] = tables[Len(rules) + 1 - i].pairs[frames[i] + 1].rest
    BY <1>4 DEF FramesRight
  <1>14. fr \in Seq(Nat) /\ Len(fr) = n - 1 /\ \A i \in 1 .. n - 1 : fr[i] = frames[i]
    <2>1. n - 1 \in Nat /\ n - 1 <= Len(frames)
      BY <1>1
    <2> QED
      BY <1>13, <2>1, PrefixFacts
  <1> HIDE DEF fr, new
  <1>15. FramesRight(rules, new, fr, p[2])
    <2>1. Len(fr) \in 1 .. Len(rules) /\ 1 \in 1 .. n - 1
      BY <1>1, <1>5, <1>13, <1>14
    <2>2. ASSUME NEW i \in 1 .. n - 1
          PROVE  fr[i] \in Numbers(rules, new, Len(rules) + 1 - i)
      <3>1. i \in 1 .. n /\ Len(rules) + 1 - i \in 1 .. Len(rules)
        BY <1>5, <1>13
      <3> QED
        BY <1>1, <1>5, <1>13, <1>14, <3>1, MeaningKept
    <2>3. ASSUME NEW i \in 1 .. (n - 1) - 1
          PROVE  fr[i + 1] = new[Len(rules) + 1 - i].pairs[fr[i] + 1].rest
      <3> DEFINE j == Len(rules) + 1 - i
                 t == frames[i]
      <3>1. /\ i \in 1 .. n /\ i \in 1 .. n - 1 /\ i + 1 \in 1 .. n - 1 /\ j \in 2 .. Len(rules)
        BY <1>5, <1>13
      <3>2. t \in Numbers(rules, tables, j)
        BY <1>13, <3>1
      <3>3. frames[i + 1] = tables[j].pairs[t + 1].rest
        BY <1>13, <3>1
      <3> HIDE DEF j, t
      <3>4. t + 1 \in DOMAIN tables[j].pairs
        BY <1>5, <3>1, <3>2, PairOf
      <3>5. t + 1 \in 1 .. Len(tables[j].pairs)
        <4>1. tables[j].pairs \in Seq(Pairs(rules, tables, j))
          BY <1>5, <3>1 DEF AreTables
        <4> QED
          BY <3>4, <4>1
      <3>6. new[j].pairs[t + 1] = tables[j].pairs[t + 1]
        BY <1>1, <3>1, <3>5 DEF Extends
      <3> QED
        BY <1>14, <3>1, <3>3, <3>6 DEF j, t
    <2> QED
      BY <1>13, <1>14, <2>1, <2>2, <2>3 DEF FramesRight
  <1>16. Asking'
    <2>1. Len(rules) + 1 - Len(fr) = k /\ fr[Len(fr)] = s
      BY <1>1, <1>5, <1>14
    <2>2. Answers(rules, Len(rules) + 1 - Len(fr), new, fr[Len(fr)], symbol, answer')
      BY <1>1, <2>1
    <2> QED
      BY <1>1, <1>3, <1>4, <1>6, <1>15, <2>2 DEF Asking, new
  <1> QED
    BY <1>9, <1>11, <1>12, <1>16 DEF ComposeInv

LEMMA CoveredGrows ==
    ASSUME NEW L, NEW R, NEW m, NEW due, NEW more, due \subseteq more,
           NEW known, NEW now, known \subseteq now, Covered(L, R, m, due, known)
    PROVE  Covered(L, R, m, more, now)
  BY DEF Covered

LEMMA AnswerInv ==
    ASSUME ComposeInv, ComposeAnswer
    PROVE  ComposeInv'
  <1> DEFINE p == Current
             m == Meant(rules, tables, p)
             n == Len(rules)
             left == RuleSkip(answer, p[1])
             both == Compose(With(lexicon, p, symbol), answer)
  <1>1. /\ pc = "answer" /\ Len(frames) = 1
        /\ symbol = Epsilon => pending' = left /\ pc' = "last"
        /\ symbol # Epsilon => pending' = both /\ pc' = "symbols"
        /\ UNCHANGED << inputs, tables, pair_vector, agenda, lexicon_non_epsilon_states, origin, keys, symbol >>
    BY DEF ComposeAnswer, ArcsWith, With
  <1>2. /\ lexicon' = lexicon /\ rules' = rules /\ tables' = tables /\ pair_vector' = pair_vector
        /\ keys' = keys /\ symbol' = symbol
    BY <1>1 DEF inputs
  <1>3. /\ Basics /\ Computing /\ FramesRight(rules, tables, frames, p[2])
        /\ Level = n + 1 - Len(frames) /\ Last(frames) = frames[Len(frames)]
        /\ symbol \in Symbols /\ (symbol = Epsilon => keys = << >>)
        /\ (symbol # Epsilon => ~ Passes(rules, symbol))
        /\ Answers(rules, Level, tables, Last(frames), symbol, answer)
    BY <1>1, LevelFacts
  <1>4. Computing'
    BY <1>1 DEF Computing
  <1>5. Basics' /\ Current' = p
    BY <1>1, <1>3, <1>4, BasicsStay
  <1>6. /\ IsPrepared(lexicon) /\ AreRules(rules) /\ p \in StatePairs(lexicon, rules, tables) /\ n \in Nat
    BY <1>3, RunFacts, CurrentFacts
  <1>7. Answers(rules, n, tables, p[2], symbol, answer)
    <2>1. Level = n /\ Last(frames) = p[2]
      BY <1>1, <1>3, <1>6 DEF FramesRight
    <2> QED
      BY <1>3, <2>1
  <1>8. /\ keys \in Seq(Symbols) /\ Covered(lexicon, rules, m, Due, Known)
    BY <1>3 DEF ComposeInv, Progress
  <1>9. pending = << >> /\ Known = MeantBy(rules, tables, ToSet(pair_vector))
    <2>1. pending = << >>
      BY <1>1 DEF ComposeInv, PendingLeads
    <2> QED
      BY <2>1, NothingPending DEF Known
  <1>10. Known' = MeantBy(rules, tables, ToSet(pair_vector) \cup Targets(pending'))
    BY <1>2 DEF Known
  <1>11. Known \subseteq Known' /\ MeantBy(rules, tables, Targets(pending')) \subseteq Known'
    BY <1>9, <1>10, KnownGrows
  <1>12. Due' = ToSet(keys)
    BY <1>1, <1>2 DEF Due
  <1>13. m[1] = p[1] /\ m[2] = Meaning(n, tables, p[2])
    BY DEF Meant
  <1> HIDE DEF p, m
  <1>14. CASE symbol = Epsilon
    <2>1. /\ Lead(lexicon, rules, tables, p, pending')
          /\ \A o : Agreed(rules, n, m[2], Epsilon, o) =>
               << p[1], Move(rules, m[2], Epsilon, o) >> \in MeantBy(rules, tables, Targets(pending'))
      BY <1>1, <1>6, <1>7, <1>13, <1>14, RuleEpsilonsLead
    <2> HIDE DEF left, both
    <2>2. pc' = "last"
      BY <1>1, <1>14
    <2>3. PendingLeads'
      BY <1>2, <1>5, <2>1, <2>2 DEF PendingLeads
    <2>4. Due = ToSet(keys) /\ keys = << >>
      BY <1>3, <1>14 DEF Due
    <2>5. Covered(lexicon, rules, m, Due', Known')
      BY <1>8, <1>11, <1>12, <2>4, CoveredGrows
    <2>6. EpsilonsCovered(rules, m, Known')
      BY <1>11, <1>13, <2>1 DEF EpsilonsCovered
    <2>7. Progress'
      BY <1>2, <1>5, <1>8, <2>4, <2>5, <2>6 DEF Progress, m
    <2>8. Asking'
      BY <2>2 DEF Asking
    <2> QED
      BY <1>5, <2>3, <2>7, <2>8 DEF ComposeInv
  <1>15. CASE symbol # Epsilon
    <2>1. /\ Lead(lexicon, rules, tables, p, pending')
          /\ \A a \in With(lexicon, p, symbol) : \A o : Agreed(rules, n, m[2], symbol, o) =>
               << a.target, Move(rules, m[2], symbol, o) >> \in MeantBy(rules, tables, Targets(pending'))
      BY <1>1, <1>3, <1>6, <1>7, <1>13, <1>15, ComposedLeads
    <2> HIDE DEF left, both
    <2>2. pc' = "symbols"
      BY <1>1, <1>15
    <2>3. PendingLeads'
      BY <1>2, <1>5, <2>1, <2>2 DEF PendingLeads
    <2>4. Due = ToSet(keys) \cup {symbol}
      BY <1>1, <1>15 DEF Due
    <2>5. Covered(lexicon, rules, m, Due', Known')
      <3> SUFFICES ASSUME NEW a \in lexicon.arcs[m[1]], a.out \notin Due'
                   PROVE  /\ Passes(rules, a.out) => << a.target, m[2] >> \in Known'
                          /\ ~ Passes(rules, a.out) =>
                               \A o : Agreed(rules, n, m[2], a.out, o) =>
                                        << a.target, Move(rules, m[2], a.out, o) >> \in Known'
        BY DEF Covered
      <3>1. CASE a.out = symbol
        <4>1. a \in With(lexicon, p, symbol)
          BY <1>13, <3>1 DEF With
        <4> QED
          BY <1>3, <1>11, <1>15, <2>1, <3>1, <4>1
      <3>2. CASE a.out # symbol
        <4>1. a.out \notin Due
          BY <1>12, <2>4, <3>2
        <4> QED
          BY <1>8, <1>11, <4>1 DEF Covered
      <3> QED
        BY <3>1, <3>2
    <2>6. Progress'
      BY <1>2, <1>5, <1>8, <2>2, <2>5 DEF Progress, m
    <2>7. Asking'
      BY <2>2 DEF Asking
    <2> QED
      BY <1>5, <2>3, <2>6, <2>7 DEF ComposeInv
  <1> QED
    BY <1>14, <1>15

(* Adding a transition turns a known target into a numbered one. *)
LEMMA AddFacts ==
    ASSUME ComposeInv, AddTransition
    PROVE  LET t == Head(pending).to
           IN  /\ Basics /\ Computing /\ Computing' /\ pc \in {"symbols", "last"} /\ pc' = pc
               /\ UNCHANGED << inputs, tables, origin, keys, asking >>
               /\ pending # << >> /\ pending' = Tail(pending)
               /\ Targets(pending) = {t} \cup Targets(pending')
               /\ t \in StatePairs(lexicon, rules, tables)
               /\ Lead(lexicon, rules, tables, Current, pending) /\ Lead(lexicon, rules, tables, Current, pending')
               /\ Meant(rules, tables, t) \in
                    SuccessorsOf(lexicon, rules, Current[1], Meaning(Len(rules), tables, Current[2]))
               /\ \/ /\ t \in ToSet(pair_vector)
                     /\ UNCHANGED << pair_vector, agenda, lexicon_non_epsilon_states >>
                  \/ /\ t \notin ToSet(pair_vector)
                     /\ pair_vector' = Append(pair_vector, t)
                     /\ agenda' = Append(agenda, Len(pair_vector))
                     /\ lexicon_non_epsilon_states' = lexicon_non_epsilon_states \cup {Len(pair_vector)}
  <1> DEFINE t == Head(pending).to
  <1>1. /\ pc \in {"symbols", "last"} /\ pending # << >> /\ pending' = Tail(pending) /\ pc' = pc
        /\ UNCHANGED << inputs, tables, origin, keys, asking >>
        /\ \/ /\ t \in ToSet(pair_vector)
              /\ UNCHANGED << pair_vector, agenda, lexicon_non_epsilon_states >>
           \/ /\ t \notin ToSet(pair_vector)
              /\ pair_vector' = Append(pair_vector, t)
              /\ agenda' = Append(agenda, Len(pair_vector))
              /\ lexicon_non_epsilon_states' = lexicon_non_epsilon_states \cup {Len(pair_vector)}
    BY DEF AddTransition, MapStateAndAddToAgenda
  <1>2. Basics /\ Computing /\ Computing' /\ Lead(lexicon, rules, tables, Current, pending)
    BY <1>1 DEF Computing, ComposeInv, PendingLeads
  <1>3. /\ pending \in Seq(ToSet(pending))
        /\ \A u \in Targets(pending) :
             /\ u \in StatePairs(lexicon, rules, tables)
             /\ Meant(rules, tables, u) \in
                  SuccessorsOf(lexicon, rules, Current[1], Meaning(Len(rules), tables, Current[2]))
    BY <1>2 DEF Lead
  <1>4. /\ ToSet(pending) = {Head(pending)} \cup ToSet(Tail(pending))
        /\ Tail(pending) \in Seq(ToSet(Tail(pending)))
    BY <1>1, <1>3, HeadAndTail
  <1>5. Targets(pending) = {t} \cup Targets(pending')
    <2>1. \A u : u \in Targets(pending) <=> \E a \in ToSet(pending) : u = a.to
      BY DEF Targets
    <2>2. \A u : u \in Targets(pending') <=> \E a \in ToSet(Tail(pending)) : u = a.to
      BY <1>1 DEF Targets
    <2> QED
      BY <1>4, <2>1, <2>2
  <1> HIDE DEF t
  <1>6. Lead(lexicon, rules, tables, Current, pending')
    BY <1>1, <1>3, <1>4, <1>5 DEF Lead
  <1>7. t \in Targets(pending)
    BY <1>5
  <1>8. /\ t \in StatePairs(lexicon, rules, tables)
        /\ Meant(rules, tables, t) \in
             SuccessorsOf(lexicon, rules, Current[1], Meaning(Len(rules), tables, Current[2]))
    BY <1>3, <1>7
  <1> QED
    BY <1>1, <1>2, <1>5, <1>6, <1>8 DEF t

\* A new pair t at the end of the list and of the agenda, by name.
NumberedAtEnd(list, ag, non, t, now, then, both) ==
    /\ t \notin ToSet(list)
    /\ now = Append(list, t)
    /\ then = Append(ag, Len(list))
    /\ both = non \cup {Len(list)}

LEMMA NumberedAppend ==
    ASSUME NEW L, NEW R, NEW tbl, NEW list, PairsNumbered(L, R, tbl, list),
           NEW t \in StatePairs(L, R, tbl), NEW ag, NEW non, AgendaInOrder(list, ag, non),
           NEW now, NEW then, NEW both, NumberedAtEnd(list, ag, non, t, now, then, both)
    PROVE  /\ PairsNumbered(L, R, tbl, now) /\ AgendaInOrder(now, then, both)
           /\ ToSet(now) = ToSet(list) \cup {t}
           /\ Len(now) = Len(list) + 1 /\ Len(then) = Len(ag) + 1
           /\ \A i \in 1 .. Len(list) : now[i] = list[i]
  <1> DEFINE n == Len(list)
             m == Len(ag)
             P == StatePairs(L, R, tbl)
  <1>0. t \notin ToSet(list) /\ now = Append(list, t) /\ then = Append(ag, n) /\ both = non \cup {n}
    BY DEF NumberedAtEnd
  <1>1. /\ list \in Seq(P) /\ NoneTwice(list) /\ list # << >> /\ list[1] = << 0, 0 >>
        /\ n \in Nat /\ n # 0
    BY DEF PairsNumbered
  <1>2. /\ ag \in Seq(Nat) /\ m <= n /\ m \in Nat /\ non = 0 .. n - 1
        /\ \A i \in 1 .. m : ag[i] = n - m + i - 1
    BY DEF AgendaInOrder
  <1>3. Continues(list, list, P, {})
    BY <1>1 DEF Continues
  <1>4. Continues(now, list, P, {} \cup {t})
    BY <1>0, <1>1, <1>3, ContinuesAppend
  <1>5. /\ now \in Seq(P) /\ NoneTwice(now) /\ ToSet(now) = ToSet(list) \cup {t}
        /\ \A i \in 1 .. n : now[i] = list[i]
    BY <1>4 DEF Continues
  <1>6. Len(now) = n + 1
    BY <1>0, <1>1
  <1>7. then \in Seq(Nat) /\ Len(then) = m + 1 /\ then[m + 1] = n /\ \A i \in 1 .. m : then[i] = ag[i]
    BY <1>0, <1>1, <1>2
  <1> HIDE DEF n, m
  <1>8. now # << >> /\ now[1] = << 0, 0 >>
    <2>1. 1 \in 1 .. n /\ Len(<< >>) = 0
      BY <1>1
    <2> QED
      BY <1>1, <1>5, <1>6, <2>1
  <1>9. PairsNumbered(L, R, tbl, now)
    BY <1>5, <1>8 DEF PairsNumbered
  <1>10. \A i \in 1 .. m + 1 : then[i] = (n + 1) - (m + 1) + i - 1
    <2> SUFFICES ASSUME NEW i \in 1 .. m + 1 PROVE then[i] = (n + 1) - (m + 1) + i - 1
      OBVIOUS
    <2>1. CASE i = m + 1
      BY <1>1, <1>2, <1>7, <2>1
    <2>2. CASE i # m + 1
      <3>1. i \in 1 .. m
        BY <1>2, <2>2
      <3> QED
        BY <1>1, <1>2, <1>7, <3>1
    <2> QED
      BY <2>1, <2>2
  <1>11. both = 0 .. (n + 1) - 1
    BY <1>0, <1>1, <1>2
  <1>12. AgendaInOrder(now, then, both)
    BY <1>1, <1>2, <1>6, <1>7, <1>10, <1>11 DEF AgendaInOrder
  <1> QED
    BY <1>5, <1>6, <1>7, <1>9, <1>12 DEF n, m

LEMMA AddInv ==
    ASSUME ComposeInv, AddTransition
    PROVE  /\ ComposeInv' /\ Current' = Current /\ ToSet(pair_vector') = ToSet(pair_vector) \cup {Head(pending).to}
           /\ Len(pair_vector') - Len(agenda') = Len(pair_vector) - Len(agenda)
           /\ Len(pair_vector') >= Len(pair_vector)
           /\ \A i \in 1 .. Len(pair_vector) : pair_vector'[i] = pair_vector[i]
  <1> DEFINE t == Head(pending).to
             p == Current
             m == Meant(rules, tables, p)
  <1>1. /\ Basics /\ Computing /\ Computing' /\ pc \in {"symbols", "last"} /\ pc' = pc
        /\ UNCHANGED << inputs, tables, origin, keys, asking >>
        /\ Targets(pending) = {t} \cup Targets(pending')
        /\ t \in StatePairs(lexicon, rules, tables)
        /\ Lead(lexicon, rules, tables, p, pending')
        /\ \/ /\ t \in ToSet(pair_vector)
              /\ UNCHANGED << pair_vector, agenda, lexicon_non_epsilon_states >>
           \/ /\ t \notin ToSet(pair_vector)
              /\ pair_vector' = Append(pair_vector, t)
              /\ agenda' = Append(agenda, Len(pair_vector))
              /\ lexicon_non_epsilon_states' = lexicon_non_epsilon_states \cup {Len(pair_vector)}
    BY AddFacts
  <1>2. /\ call' = call /\ lexicon' = lexicon /\ rules' = rules /\ tables' = tables /\ origin' = origin /\ keys' = keys
    BY <1>1 DEF inputs
  <1>3. /\ PairsNumbered(lexicon, rules, tables, pair_vector) /\ pc # "call"
        /\ AgendaInOrder(pair_vector, agenda, lexicon_non_epsilon_states)
        /\ origin \in 0 .. Len(pair_vector) - 1 /\ p = pair_vector[origin + 1]
    BY <1>1, RunFacts, CurrentFacts
  <1> HIDE DEF t, p
  <1>4. Len(pair_vector) \in Nat /\ Len(agenda) \in Nat
    BY <1>3 DEF PairsNumbered, AgendaInOrder
  <1>5. /\ PairsNumbered(lexicon, rules, tables, pair_vector')
        /\ AgendaInOrder(pair_vector', agenda', lexicon_non_epsilon_states')
        /\ ToSet(pair_vector') = ToSet(pair_vector) \cup {t}
        /\ Len(pair_vector') - Len(agenda') = Len(pair_vector) - Len(agenda)
        /\ Len(pair_vector') >= Len(pair_vector)
        /\ \A i \in 1 .. Len(pair_vector) : pair_vector'[i] = pair_vector[i]
    <2>1. CASE /\ t \in ToSet(pair_vector)
               /\ UNCHANGED << pair_vector, agenda, lexicon_non_epsilon_states >>
      BY <1>3, <1>4, <2>1
    <2>2. CASE /\ t \notin ToSet(pair_vector)
               /\ pair_vector' = Append(pair_vector, t)
               /\ agenda' = Append(agenda, Len(pair_vector))
               /\ lexicon_non_epsilon_states' = lexicon_non_epsilon_states \cup {Len(pair_vector)}
      <3>1. /\ PairsNumbered(lexicon, rules, tables, pair_vector')
            /\ AgendaInOrder(pair_vector', agenda', lexicon_non_epsilon_states')
            /\ ToSet(pair_vector') = ToSet(pair_vector) \cup {t}
            /\ Len(pair_vector') = Len(pair_vector) + 1 /\ Len(agenda') = Len(agenda) + 1
            /\ \A i \in 1 .. Len(pair_vector) : pair_vector'[i] = pair_vector[i]
        <4>1. /\ PairsNumbered(lexicon, rules, tables, pair_vector)
              /\ t \in StatePairs(lexicon, rules, tables)
              /\ AgendaInOrder(pair_vector, agenda, lexicon_non_epsilon_states)
              /\ NumberedAtEnd(pair_vector, agenda, lexicon_non_epsilon_states, t,
                               pair_vector', agenda', lexicon_non_epsilon_states')
          BY <1>1, <1>3, <2>2 DEF NumberedAtEnd
        <4> QED
          BY <4>1, NumberedAppend
      <3> QED
        BY <1>4, <3>1
    <2> QED
      BY <1>1, <2>1, <2>2
  <1>6. Current' = p
    <2>1. origin + 1 \in 1 .. Len(pair_vector)
      BY <1>3, <1>4
    <2> QED
      BY <1>2, <1>3, <1>5, <2>1 DEF Current
  <1>7. Basics'
    <2>1. origin \in Nat /\ origin = Len(pair_vector) - Len(agenda) - 1
      BY <1>1 DEF Basics
    <2>2. origin = Len(pair_vector') - Len(agenda') - 1
      BY <1>4, <1>5, <2>1
    <2>3. /\ call \in Cases /\ lexicon = PreparedLexicon(call) /\ rules = PreparedRules(call)
          /\ TablesRight(rules, tables)
      BY <1>1, <1>3 DEF Basics
    <2> QED
      BY <1>1, <1>2, <1>5, <2>1, <2>2, <2>3 DEF Basics
  <1>8. PendingLeads'
    BY <1>1, <1>2, <1>6 DEF PendingLeads
  <1>9. Known' = Known
    <2>1. ToSet(pair_vector') \cup Targets(pending') = ToSet(pair_vector) \cup Targets(pending)
      BY <1>1, <1>5
    <2> QED
      BY <1>2, <2>1 DEF Known
  <1>10. Due' = Due
    <2>1. Due = ToSet(keys) /\ Due' = ToSet(keys')
      BY <1>1 DEF Due
    <2> QED
      BY <1>2, <2>1
  <1>11. Progress'
    <2>1. /\ keys \in Seq(Symbols) /\ Covered(lexicon, rules, m, Due, Known)
          /\ pc = "last" => keys = << >> /\ EpsilonsCovered(rules, m, Known)
      BY <1>1 DEF ComposeInv, Progress, p
    <2> HIDE DEF m
    <2> QED
      BY <1>1, <1>2, <1>6, <1>9, <1>10, <2>1 DEF Progress, m
  <1>12. Asking'
    BY <1>1 DEF Asking
  <1> QED
    BY <1>5, <1>6, <1>7, <1>8, <1>11, <1>12 DEF ComposeInv, t, p

LEMMA EndInv ==
    ASSUME ComposeInv, StateComputed \/ SetFinalStateWeights
    PROVE  ComposeInv'
  <1>1. /\ pc \in {"last", "agenda"} /\ pc' \in {"agenda", "done"}
        /\ pending = << >> /\ pending' = pending
        /\ UNCHANGED << inputs, tables, pair_vector, agenda, lexicon_non_epsilon_states, origin >>
    <2>1. CASE StateComputed
      BY <2>1 DEF StateComputed
    <2>2. CASE SetFinalStateWeights
      BY <2>2 DEF SetFinalStateWeights, ComposeInv, PendingLeads
    <2> QED
      BY <2>1, <2>2
  <1>2. /\ call' = call /\ lexicon' = lexicon /\ rules' = rules /\ tables' = tables
        /\ pair_vector' = pair_vector /\ agenda' = agenda
        /\ lexicon_non_epsilon_states' = lexicon_non_epsilon_states
    BY <1>1 DEF inputs
  <1>3. ~ Computing' /\ Basics /\ pc # "call" /\ pc' # "call"
    BY <1>1 DEF Computing, ComposeInv
  <1>4. Basics'
    BY <1>1, <1>2, <1>3 DEF Basics
  <1> QED
    BY <1>1, <1>3, <1>4 DEF ComposeInv, PendingLeads, Progress, Asking, Computing

LEMMA InvStep ==
    ASSUME ComposeInv, [ComposeNext]_composeVars
    PROVE  ComposeInv'
  <1>1. CASE UNCHANGED composeVars
    BY <1>1 DEF ComposeInv, Basics, PendingLeads, Progress, Asking, Computing, Current, Known, Due,
                composeVars, inputs, asking
  <1>2. CASE ComposeNext
    <2>1. CASE ComposeWithRules
      BY <2>1, StartInv
    <2>2. CASE PopAgenda
      BY <2>2, PopInv
    <2>3. CASE SkipSymbol
      BY <2>3, SkipInv
    <2>4. CASE AskRules
      BY <2>4, AskInv
    <2>5. CASE Return
      BY <2>5, ReturnInv
    <2>6. CASE Descend
      BY <2>6, DescendInv
    <2>7. CASE ComputeTransitionSet
      BY <2>7, ComputeInv
    <2>8. CASE ComposeAnswer
      BY <2>8, AnswerInv
    <2>9. CASE AddTransition
      BY <2>9, AddInv
    <2>10. CASE StateComputed \/ SetFinalStateWeights
      BY <2>10, EndInv
    <2>11. CASE ComposeEnded
      BY <1>1, <2>11 DEF ComposeEnded
    <2> QED
      BY <1>2, <2>1, <2>2, <2>3, <2>4, <2>5, <2>6, <2>7, <2>8, <2>9, <2>10, <2>11 DEF ComposeNext
  <1> QED
    BY <1>1, <1>2

LEMMA ComposeInvariant == ComposeSpec => []ComposeInv
  BY InitInv, InvStep, PTL DEF ComposeSpec

-----------------------------------------------------------------------------
(* The states found and finished, read through the invariant. *)

DoneBefore(R, tbl, list, n) == {Meant(R, tbl, list[s + 1]) : s \in 0 .. n - 1}

\* The first state that is not finished; the states are taken in order.
FirstOpen == IF Computing THEN origin ELSE Len(pair_vector) - Len(agenda)

LEMMA OpenFacts ==
    ASSUME Basics, pc # "call"
    PROVE  /\ Len(pair_vector) \in Nat /\ Len(agenda) \in Nat /\ FirstOpen \in 0 .. Len(pair_vector)
           /\ Unfinished = FirstOpen .. Len(pair_vector) - 1
           /\ Computing => FirstOpen = origin /\ origin = Len(pair_vector) - Len(agenda) - 1
           /\ ~ Computing => FirstOpen = Len(pair_vector) - Len(agenda)
  <1> DEFINE n == Len(pair_vector)
             m == Len(agenda)
  <1>1. /\ PairsNumbered(lexicon, rules, tables, pair_vector)
        /\ AgendaInOrder(pair_vector, agenda, lexicon_non_epsilon_states)
    BY RunFacts
  <1>2. n \in Nat /\ m \in Nat /\ m <= n /\ DOMAIN agenda = 1 .. m /\ \A i \in 1 .. m : agenda[i] = n - m + i - 1
    BY <1>1 DEF PairsNumbered, AgendaInOrder
  <1>3. ToSet(agenda) = {agenda[i] : i \in 1 .. m}
    BY <1>2 DEF ToSet
  <1>4. Computing => origin \in Nat /\ origin = n - m - 1
    BY DEF Basics
  <1>5. Unfinished = ToSet(agenda) \cup (IF Computing THEN {origin} ELSE {})
    BY DEF Unfinished, Computing
  <1>6. FirstOpen = IF Computing THEN origin ELSE n - m
    BY DEF FirstOpen
  <1> HIDE DEF n, m
  <1>7. ToSet(agenda) = n - m .. n - 1
    <2>1. \A i \in 1 .. m : agenda[i] \in n - m .. n - 1
      BY <1>2
    <2>2. \A k \in n - m .. n - 1 : k - n + m + 1 \in 1 .. m /\ agenda[k - n + m + 1] = k
      BY <1>2
    <2> QED
      BY <1>3, <2>1, <2>2
  <1>8. FirstOpen \in 0 .. n
    BY <1>2, <1>4, <1>6
  <1>9. Unfinished = FirstOpen .. n - 1
    <2>1. CASE Computing
      BY <1>2, <1>4, <1>5, <1>6, <1>7, <2>1
    <2>2. CASE ~ Computing
      BY <1>2, <1>5, <1>6, <1>7, <2>2
    <2> QED
      BY <2>1, <2>2
  <1> QED
    BY <1>2, <1>4, <1>6, <1>8, <1>9 DEF n, m

LEMMA FoundIs ==
    ASSUME Basics, pc # "call"
    PROVE  /\ Found = MeantBy(rules, tables, ToSet(pair_vector))
           /\ Finished = DoneBefore(rules, tables, pair_vector, FirstOpen)
  <1>1. Top \in Nat /\ Top # 0 /\ Top = Len(rules)
    BY RunFacts
  <1>2. ASSUME NEW p PROVE PairMeaning(p) = Meant(rules, tables, p)
    BY <1>1, RuleStatesAre DEF PairMeaning, Meant
  <1>3. Found = MeantBy(rules, tables, ToSet(pair_vector))
    BY <1>2 DEF Found, MeantBy
  <1>4. (0 .. Len(pair_vector) - 1) \ Unfinished = 0 .. FirstOpen - 1
    BY OpenFacts
  <1>5. Finished = {PairMeaning(pair_vector[s + 1]) : s \in 0 .. FirstOpen - 1}
    BY <1>4 DEF Finished
  <1> QED
    BY <1>2, <1>3, <1>5 DEF DoneBefore

\* The state being computed is found and not finished.
LEMMA CurrentIsOpen ==
    ASSUME Basics, Computing
    PROVE  /\ Meant(rules, tables, Current) \in Found \ Finished
           /\ Found = MeantBy(rules, tables, ToSet(pair_vector))
           /\ Finished = DoneBefore(rules, tables, pair_vector, origin)
           /\ origin \in Nat /\ origin < Len(pair_vector)
  <1> DEFINE p == Current
             n == Len(rules)
  <1>1. /\ pc # "call" /\ origin \in 0 .. Len(pair_vector) - 1 /\ p = pair_vector[origin + 1]
        /\ p \in ToSet(pair_vector) /\ p[2] \in Numbers(rules, tables, n) /\ p \in StatePairs(lexicon, rules, tables)
    BY CurrentFacts
  <1>2. /\ AreRules(rules) /\ AreTables(rules, tables) /\ n \in 1 .. Len(rules)
        /\ PairsNumbered(lexicon, rules, tables, pair_vector)
    BY <1>1, RunFacts
  <1>3. /\ Found = MeantBy(rules, tables, ToSet(pair_vector))
        /\ Finished = DoneBefore(rules, tables, pair_vector, origin)
    BY <1>1, FoundIs, OpenFacts
  <1>4. /\ pair_vector \in Seq(StatePairs(lexicon, rules, tables)) /\ NoneTwice(pair_vector)
        /\ Len(pair_vector) \in Nat /\ DOMAIN pair_vector = 1 .. Len(pair_vector)
    BY <1>2 DEF PairsNumbered
  <1> HIDE DEF p, n
  <1>5. Meant(rules, tables, p) \in MeantBy(rules, tables, ToSet(pair_vector))
    BY <1>1 DEF MeantBy
  <1>6. ASSUME NEW s \in 0 .. origin - 1
        PROVE  Meant(rules, tables, pair_vector[s + 1]) # Meant(rules, tables, p)
    <2> DEFINE t == pair_vector[s + 1]
    <2>1. s + 1 \in DOMAIN pair_vector /\ origin + 1 \in DOMAIN pair_vector /\ s + 1 # origin + 1
      BY <1>1, <1>4
    <2>2. t \in StatePairs(lexicon, rules, tables) /\ t # p
      BY <1>1, <1>4, <2>1 DEF NoneTwice
    <2> HIDE DEF t
    <2>3. /\ t = << t[1], t[2] >> /\ p = << p[1], p[2] >> /\ t[2] \in Numbers(rules, tables, n)
      BY <1>1, <2>2 DEF StatePairs, n
    <2>4. t[1] = p[1] => t[2] # p[2]
      BY <2>2, <2>3
    <2>5. t[2] # p[2] => Meaning(n, tables, t[2]) # Meaning(n, tables, p[2])
      BY <1>1, <1>2, <2>3, MeaningInjective
    <2> QED
      BY <2>4, <2>5 DEF Meant, n, t
  <1>7. Meant(rules, tables, p) \notin DoneBefore(rules, tables, pair_vector, origin)
    BY <1>6 DEF DoneBefore
  <1> QED
    BY <1>1, <1>3, <1>4, <1>5, <1>7 DEF p

\* The edges of the product that leave what p means.
LEMMA ProductSuccessors ==
    ASSUME Basics, pc # "call", NEW p \in StatePairs(lexicon, rules, tables), NEW v
    PROVE  v \in Explore!Successors(Meant(rules, tables, p)) <=>
             v \in SuccessorsOf(lexicon, rules, p[1], Meaning(Len(rules), tables, p[2]))
  <1> DEFINE q == Meaning(Len(rules), tables, p[2])
  <1>1. /\ call \in Cases /\ lexicon = PreparedLexicon(call) /\ rules = PreparedRules(call)
    BY DEF Basics
  <1>2. AreRules(rules) /\ AreTables(rules, tables) /\ Len(rules) \in 1 .. Len(rules) /\ Len(rules) \in Nat
    BY RunFacts
  <1>3. p[1] \in States(lexicon) /\ p[2] \in Numbers(rules, tables, Len(rules))
    BY DEF StatePairs
  <1>4. q \in StateLists(rules)
    <2>1. \A k \in 1 .. Len(rules) : q[k] \in States(rules[k])
      BY <1>2, <1>3, MeaningType
    <2>2. q = [k \in 1 .. Len(rules) |-> q[k]]
      BY DEF Meaning
    <2> HIDE DEF q
    <2>3. \A k \in 1 .. Len(rules) : q[k] \in UNION {States(rules[i]) : i \in 1 .. Len(rules)}
      BY <2>1
    <2>4. q \in [1 .. Len(rules) -> UNION {States(rules[i]) : i \in 1 .. Len(rules)}]
      BY <2>2, <2>3
    <2> QED
      BY <2>1, <2>4 DEF StateLists
  <1> HIDE DEF q
  <1>5. \A e : e \in Product <=>
          \E l \in States(lexicon), r \in StateLists(rules) :
            \E u \in SuccessorsOf(lexicon, rules, l, r) : e = << << l, r >>, u >>
    BY <1>1, ProductOfCall, ProductIs
  <1>6. << << p[1], q >>, v >> \in Product <=> v \in SuccessorsOf(lexicon, rules, p[1], q)
    <2>1. ASSUME << << p[1], q >>, v >> \in Product
          PROVE  v \in SuccessorsOf(lexicon, rules, p[1], q)
      <3>1. PICK l \in States(lexicon), r \in StateLists(rules) :
              \E u \in SuccessorsOf(lexicon, rules, l, r) : << << p[1], q >>, v >> = << << l, r >>, u >>
        BY <1>5, <2>1
      <3> QED
        BY <3>1
    <2> QED
      BY <1>3, <1>4, <1>5, <2>1
  <1>7. \A e \in Product : e = << e[1], e[2] >>
    BY <1>5
  <1>8. v \in Explore!Successors(Meant(rules, tables, p)) <=> << << p[1], q >>, v >> \in Product
    BY <1>7 DEF Explore!Successors, Meant, q
  <1> QED
    BY <1>6, <1>8 DEF q

LEMMA FoundNext ==
    Basics' /\ pc' # "call" =>
      /\ Found' = MeantBy(rules', tables', ToSet(pair_vector'))
      /\ Finished' = DoneBefore(rules', tables', pair_vector', FirstOpen')
      /\ Computing' => FirstOpen' = origin' /\ origin' = Len(pair_vector') - Len(agenda') - 1
      /\ ~ Computing' => FirstOpen' = Len(pair_vector') - Len(agenda')
  <1> DEFINE A == Basics /\ pc # "call"
             B == /\ Found = MeantBy(rules, tables, ToSet(pair_vector))
                  /\ Finished = DoneBefore(rules, tables, pair_vector, FirstOpen)
                  /\ Computing => FirstOpen = origin /\ origin = Len(pair_vector) - Len(agenda) - 1
                  /\ ~ Computing => FirstOpen = Len(pair_vector) - Len(agenda)
  <1>1. A => B
    BY FoundIs, OpenFacts
  <1> HIDE DEF A, B
  <1>2. A' => B'
    BY <1>1, PTL
  <1> QED
    BY <1>2 DEF A, B

\* The root and the edges are those of the call.
LEMMA SameProduct ==
    ASSUME Basics, [ComposeNext]_composeVars
    PROVE  call' = call /\ StartNode' = StartNode /\ Product' = Product
  <1>1. call' = call
    <2>1. CASE ComposeWithRules
      BY <2>1 DEF ComposeWithRules
    <2>2. CASE PopAgenda \/ SkipSymbol \/ AskRules \/ Return \/ Descend
      BY <2>2 DEF PopAgenda, SkipSymbol, AskRules, Return, Descend, inputs
    <2>3. CASE ComputeTransitionSet \/ ComposeAnswer \/ AddTransition \/ StateComputed
      BY <2>3 DEF ComputeTransitionSet, ComposeAnswer, AddTransition, StateComputed, inputs
    <2>4. CASE SetFinalStateWeights
      BY <2>4 DEF SetFinalStateWeights, inputs
    <2>5. CASE ComposeEnded \/ UNCHANGED composeVars
      BY <2>5 DEF ComposeEnded, composeVars, inputs
    <2> QED
      BY <2>1, <2>2, <2>3, <2>4, <2>5 DEF ComposeNext
  <1> QED
    BY <1>1 DEF StartNode, Product, Products

LEMMA StartExplores ==
    ASSUME ComposeInv, ComposeInv', ComposeWithRules
    PROVE  Found' = Found /\ Finished' = Finished
  <1> DEFINE R == PreparedRules(call)
             T == tables'
             p == << 0, 0 >>
             n == Len(R)
  <1>1. /\ pc = "call" /\ rules' = R /\ pc' = "agenda" /\ MapStateAndAddToAgenda(<< 0, 0 >>, TRUE)
    BY DEF ComposeWithRules
  <1>2. /\ call \in Cases /\ pair_vector = << >> /\ agenda = << >>
        /\ Basics' /\ pc' # "call" /\ TablesRight(rules', tables')
    BY <1>1 DEF ComposeInv, Basics
  <1>3. pair_vector' = << p >> /\ Len(pair_vector') = 1 /\ Len(agenda') = 1
    BY <1>1, <1>2 DEF MapStateAndAddToAgenda
  <1>4. ToSet(pair_vector') = {p}
    BY <1>3 DEF ToSet
  <1>5. AreRules(R) /\ AreTables(R, T) /\ n \in 1 .. n /\ n \in Nat
    <2>1. AreRules(R)
      BY <1>2, CallPrepared
    <2>2. AreTables(R, T)
      BY <1>1, <1>2 DEF TablesRight
    <2> QED
      BY <2>1, <2>2 DEF AreRules
  <1>6. Meaning(n, T, 0) = [k \in 1 .. n |-> 0]
    BY <1>5, MeaningOfZero
  <1>7. StartNode = << 0, [k \in 1 .. n |-> 0] >>
    <2>1. DOMAIN call.rules = 1 .. Len(call.rules) /\ Len(call.rules) \in Nat
      BY <1>2, CallPrepared
    <2>2. Len(R) = Len(call.rules)
      BY <2>1 DEF PreparedRules
    <2> QED
      BY <2>1, <2>2 DEF StartNode
  <1>8. Meant(R, T, p) = StartNode
    BY <1>6, <1>7 DEF Meant
  <1> HIDE DEF R, T, n, p
  <1>9. Found' = {StartNode}
    <2>1. Found' = MeantBy(R, T, {p})
      BY <1>1, <1>2, <1>4, FoundNext DEF T
    <2> QED
      BY <1>8, <2>1 DEF MeantBy
  <1>10. Finished' = {}
    <2>1. ~ Computing'
      BY <1>1 DEF Computing
    <2>2. FirstOpen' = 0
      BY <1>2, <1>3, <2>1, FoundNext
    <2> QED
      BY <1>2, <2>2, FoundNext DEF DoneBefore
  <1> QED
    BY <1>1, <1>9, <1>10 DEF Found, Finished

\* The steps that neither find nor finish a state.
LEMMA StillExplores ==
    ASSUME ComposeInv, ComposeInv',
           PopAgenda \/ SkipSymbol \/ AskRules \/ Return \/ Descend \/ ComposeAnswer \/ SetFinalStateWeights
    PROVE  Found' = Found /\ Finished' = Finished
  <1>1. Basics /\ Basics' /\ pc # "call" /\ pc' # "call"
    BY DEF ComposeInv, PopAgenda, SkipSymbol, AskRules, Return, Descend, ComposeAnswer, SetFinalStateWeights
  <1>2. rules' = rules /\ tables' = tables /\ pair_vector' = pair_vector
    BY DEF PopAgenda, SkipSymbol, AskRules, Return, Descend, ComposeAnswer, SetFinalStateWeights, inputs
  <1>3. FirstOpen' = FirstOpen
    <2>1. CASE PopAgenda
      <3>1. ~ Computing /\ Computing' /\ agenda # << >> /\ agenda' = Tail(agenda)
        BY <2>1 DEF PopAgenda, Computing
      <3>2. agenda \in Seq(Nat)
        BY <1>1, RunFacts DEF AgendaInOrder
      <3>3. Len(agenda') = Len(agenda) - 1
        BY <3>1, <3>2
      <3>4. /\ Len(pair_vector) \in Nat /\ Len(agenda) \in Nat /\ FirstOpen = Len(pair_vector) - Len(agenda)
            /\ FirstOpen' = Len(pair_vector') - Len(agenda') - 1
        BY <1>1, <3>1, OpenFacts, FoundNext
      <3> QED
        BY <1>2, <3>3, <3>4
    <2>2. CASE SkipSymbol \/ AskRules \/ Return \/ Descend \/ ComposeAnswer
      <3>1. Computing /\ Computing' /\ origin' = origin
        BY <2>2 DEF SkipSymbol, AskRules, Return, Descend, ComposeAnswer, Computing
      <3> QED
        BY <3>1 DEF FirstOpen
    <2>3. CASE SetFinalStateWeights
      <3>1. ~ Computing /\ ~ Computing' /\ agenda' = agenda
        BY <2>3 DEF SetFinalStateWeights, Computing
      <3> QED
        BY <1>2, <3>1 DEF FirstOpen
    <2> QED
      BY <2>1, <2>2, <2>3
  <1> QED
    BY <1>1, <1>2, <1>3, FoundIs, FoundNext

\* New numbers change no meaning.
LEMMA ComputeExplores ==
    ASSUME ComposeInv, ComposeInv', ComputeTransitionSet
    PROVE  Found' = Found /\ Finished' = Finished
  <1> DEFINE new == tables'
  <1>1. /\ pc = "answer" /\ pc' = "answer" /\ AreTables(rules, new) /\ Extends(rules, new, tables)
        /\ rules' = rules /\ pair_vector' = pair_vector /\ origin' = origin
    BY ComputeFacts DEF inputs
  <1> HIDE DEF new
  <1>2. Basics /\ Basics' /\ pc # "call" /\ pc' # "call" /\ Computing /\ Computing'
    BY <1>1 DEF ComposeInv, Computing
  <1>3. AreRules(rules) /\ AreTables(rules, tables) /\ PairsNumbered(lexicon, rules, tables, pair_vector)
    BY <1>2, RunFacts
  <1>4. MeantBy(rules, new, ToSet(pair_vector)) = MeantBy(rules, tables, ToSet(pair_vector))
    BY <1>1, <1>3, PairsKept
  <1>5. \A p \in StatePairs(lexicon, rules, tables) : Meant(rules, new, p) = Meant(rules, tables, p)
    BY <1>1, <1>3, MeantKept
  <1>6. FirstOpen' = origin /\ FirstOpen = origin /\ origin \in Nat /\ origin < Len(pair_vector)
    BY <1>1, <1>2, CurrentIsOpen, OpenFacts, FoundNext
  <1>7. ASSUME NEW s \in 0 .. origin - 1
        PROVE  Meant(rules, new, pair_vector[s + 1]) = Meant(rules, tables, pair_vector[s + 1])
    <2>1. pair_vector \in Seq(StatePairs(lexicon, rules, tables)) /\ Len(pair_vector) \in Nat
      BY <1>3 DEF PairsNumbered
    <2>2. s + 1 \in 1 .. Len(pair_vector)
      BY <1>6, <2>1
    <2> QED
      BY <1>5, <2>1, <2>2
  <1>8. DoneBefore(rules, new, pair_vector, origin) = DoneBefore(rules, tables, pair_vector, origin)
    BY <1>7 DEF DoneBefore
  <1> QED
    BY <1>1, <1>2, <1>4, <1>6, <1>8, FoundIs, FoundNext DEF new

\* A transition finds a successor of the state being computed, or nothing.
LEMMA AddExplores ==
    ASSUME ComposeInv, ComposeInv', AddTransition
    PROVE  \E s \in Found \ Finished : \E v \in Explore!Successors(s) :
             Found' = Found \cup {v} /\ Finished' = Finished
  <1> DEFINE t == Head(pending).to
             v == Meant(rules, tables, t)
             s == Meant(rules, tables, Current)
  <1>1. /\ Basics /\ Computing /\ Computing'
        /\ rules' = rules /\ tables' = tables /\ origin' = origin
        /\ v \in SuccessorsOf(lexicon, rules, Current[1], Meaning(Len(rules), tables, Current[2]))
    BY AddFacts DEF inputs
  <1>2. /\ ToSet(pair_vector') = ToSet(pair_vector) \cup {t}
        /\ \A i \in 1 .. Len(pair_vector) : pair_vector'[i] = pair_vector[i]
    BY AddInv
  <1>3. pc # "call" /\ pc' # "call" /\ Basics' /\ Current \in StatePairs(lexicon, rules, tables)
    BY <1>1, CurrentFacts DEF ComposeInv, Computing
  <1>4. v \in Explore!Successors(s)
    BY <1>1, <1>3, ProductSuccessors
  <1>5. /\ s \in Found \ Finished /\ Found = MeantBy(rules, tables, ToSet(pair_vector))
        /\ Finished = DoneBefore(rules, tables, pair_vector, origin)
        /\ origin \in Nat /\ origin < Len(pair_vector)
    BY <1>1, CurrentIsOpen
  <1> HIDE DEF t, s
  <1>6. Found' = Found \cup {v}
    <2>1. Found' = MeantBy(rules, tables, ToSet(pair_vector) \cup {t})
      BY <1>1, <1>2, <1>3, FoundNext
    <2> QED
      BY <1>5, <2>1 DEF MeantBy
  <1>7. Finished' = Finished
    <2>1. Finished' = DoneBefore(rules, tables, pair_vector', origin)
      BY <1>1, <1>3, FoundNext
    <2>2. Len(pair_vector) \in Nat
      BY <1>1, <1>3, OpenFacts
    <2>3. \A k \in 0 .. origin - 1 : pair_vector'[k + 1] = pair_vector[k + 1]
      BY <1>2, <1>5, <2>2
    <2> QED
      BY <1>5, <2>1, <2>3 DEF DoneBefore
  <1> QED
    BY <1>4, <1>5, <1>6, <1>7

\* When a state is done with, all its successors are found.
LEMMA EndExplores ==
    ASSUME ComposeInv, ComposeInv', StateComputed
    PROVE  \E s \in Found \ Finished :
             /\ Explore!Successors(s) \subseteq Found
             /\ Found' = Found /\ Finished' = Finished \cup {s}
  <1> DEFINE q == Meaning(Len(rules), tables, Current[2])
             s == Meant(rules, tables, Current)
  <1>1. /\ pc = "last" /\ pending = << >> /\ pc' = "agenda"
        /\ rules' = rules /\ tables' = tables /\ pair_vector' = pair_vector /\ agenda' = agenda
    BY DEF StateComputed, inputs
  <1>2. Basics /\ Basics' /\ Computing /\ ~ Computing' /\ pc # "call" /\ pc' # "call"
    BY <1>1 DEF ComposeInv, Computing
  <1>3. Current \in StatePairs(lexicon, rules, tables)
    BY <1>2, CurrentFacts
  <1>4. /\ s \in Found \ Finished /\ Found = MeantBy(rules, tables, ToSet(pair_vector))
        /\ Finished = DoneBefore(rules, tables, pair_vector, origin)
        /\ origin \in Nat /\ origin < Len(pair_vector)
    BY <1>2, CurrentIsOpen
  <1>5. Known = Found
    <2>1. Targets(pending) = {}
      BY <1>1 DEF Targets, ToSet
    <2> QED
      BY <1>4, <2>1 DEF Known
  <1>6. /\ Covered(lexicon, rules, s, {}, Found)
        /\ EpsilonsCovered(rules, s, Found)
    <2>1. keys = << >> /\ Covered(lexicon, rules, s, Due, Known) /\ EpsilonsCovered(rules, s, Known)
      BY <1>1, <1>2 DEF ComposeInv, Progress
    <2>2. Due = {}
      <3>1. ToSet(keys) = {}
        BY <2>1 DEF ToSet
      <3> QED
        BY <1>1, <3>1 DEF Due
    <2> QED
      BY <1>5, <2>1, <2>2
  <1>7. s[1] = Current[1] /\ s[2] = q
    BY DEF Meant
  <1>8. Len(rules) \in Nat /\ Len(rules) # 0
    BY <1>2, RunFacts
  <1>9. ASSUME NEW v \in Explore!Successors(s) PROVE v \in Found
    <2>1. v \in SuccessorsOf(lexicon, rules, Current[1], q)
      BY <1>2, <1>3, <1>9, ProductSuccessors
    <2> HIDE DEF q, s
    <2>2. IsSuccessor(lexicon, rules, Current[1], q, v)
      BY <1>8, <2>1, SuccessorsAre
    <2>3. CASE \E a \in lexicon.arcs[Current[1]] : Passes(rules, a.out) /\ v = << a.target, q >>
      BY <1>6, <1>7, <2>3 DEF Covered
    <2>4. CASE \E a \in lexicon.arcs[Current[1]] : \E o :
                 /\ ~ Passes(rules, a.out) /\ Agreed(rules, Len(rules), q, a.out, o)
                 /\ v = << a.target, Move(rules, q, a.out, o) >>
      BY <1>6, <1>7, <2>4 DEF Covered
    <2>5. CASE \E o : Agreed(rules, Len(rules), q, Epsilon, o) /\ v = << Current[1], Move(rules, q, Epsilon, o) >>
      BY <1>6, <1>7, <2>5 DEF EpsilonsCovered
    <2> QED
      BY <2>2, <2>3, <2>4, <2>5 DEF IsSuccessor
  <1> HIDE DEF q
  <1>10. Found' = Found
    BY <1>1, <1>2, <1>4, FoundNext
  <1>11. Finished' = Finished \cup {s}
    <2>1. Len(pair_vector) \in Nat /\ Len(agenda) \in Nat /\ origin = Len(pair_vector) - Len(agenda) - 1
      BY <1>2, OpenFacts
    <2>2. FirstOpen' = origin + 1
      BY <1>1, <1>2, <2>1, FoundNext
    <2>3. Finished' = DoneBefore(rules, tables, pair_vector, origin + 1)
      BY <1>1, <1>2, <2>2, FoundNext
    <2>4. Current = pair_vector[origin + 1]
      BY DEF Current
    <2>5. \A k : k \in 0 .. (origin + 1) - 1 <=> k \in 0 .. origin - 1 \/ k = origin
      BY <1>4
    <2> QED
      BY <1>4, <2>3, <2>4, <2>5 DEF DoneBefore
  <1> QED
    BY <1>4, <1>9, <1>10, <1>11

LEMMA ExploreInit == ComposeInit => Explore!Init
  BY DEF ComposeInit, Explore!Init, Found, Finished

LEMMA ExploreStep ==
    ASSUME ComposeInv, ComposeInv', [ComposeNext]_composeVars
    PROVE  [Explore!Next]_(Explore!vars)
  <1>1. StartNode' = StartNode /\ Product' = Product
    BY SameProduct DEF ComposeInv
  <1>2. CASE Found' = Found /\ Finished' = Finished
    BY <1>1, <1>2 DEF Explore!vars
  <1>3. CASE AddTransition
    <2>0. PICK s \in Found \ Finished : \E u \in Explore!Successors(s) :
            Found' = Found \cup {u} /\ Finished' = Finished
      BY <1>3, AddExplores
    <2>1. PICK v \in Explore!Successors(s) : Found' = Found \cup {v} /\ Finished' = Finished
      BY <2>0
    <2>2. {v} \in SUBSET Explore!Successors(s)
      OBVIOUS
    <2>3. Explore!Find(s)
      BY <1>1, <2>1, <2>2 DEF Explore!Find
    <2> QED
      BY <2>3 DEF Explore!Next
  <1>4. CASE StateComputed
    <2>1. PICK s \in Found \ Finished :
            /\ Explore!Successors(s) \subseteq Found
            /\ Found' = Found /\ Finished' = Finished \cup {s}
      BY <1>4, EndExplores
    <2>2. Found' = Found \cup Explore!Successors(s)
      BY <2>1
    <2>3. Explore!Finish(s)
      BY <1>1, <2>1, <2>2 DEF Explore!Finish
    <2> QED
      BY <2>3 DEF Explore!Next
  <1>5. CASE ComposeWithRules
    BY <1>2, <1>5, StartExplores
  <1>6. CASE PopAgenda \/ SkipSymbol \/ AskRules \/ Return \/ Descend \/ ComposeAnswer \/ SetFinalStateWeights
    BY <1>2, <1>6, StillExplores
  <1>7. CASE ComputeTransitionSet
    BY <1>2, <1>7, ComputeExplores
  <1>8. CASE ComposeEnded \/ UNCHANGED composeVars
    <2>1. UNCHANGED composeVars
      BY <1>8 DEF ComposeEnded
    <2>2. UNCHANGED << pc, call, rules, tables, pair_vector, agenda, origin >>
      BY <2>1 DEF composeVars, inputs
    <2>3. StartNode' = StartNode
      BY <1>1
    <2>4. CASE pc = "call"
      <3>1. Found = {StartNode} /\ Found' = {StartNode'} /\ Finished = {} /\ Finished' = {}
        BY <2>2, <2>4 DEF Found, Finished
      <3> QED
        BY <1>2, <2>3, <3>1
    <2>5. CASE pc # "call"
      <3>1. Basics /\ Basics' /\ pc' # "call" /\ FirstOpen' = FirstOpen
        BY <2>2, <2>5 DEF ComposeInv, FirstOpen, Computing
      <3> QED
        BY <1>2, <2>2, <2>5, <3>1, FoundIs, FoundNext
    <2> QED
      BY <1>2, <2>2, <2>4, <2>5
  <1> QED
    BY <1>3, <1>4, <1>5, <1>6, <1>7, <1>8 DEF ComposeNext

(* ExploresProduct: the agenda of ComposeIntersectLexicon, with the state    *)
(* pairs read as states of the lexicon and of all rules, is an exploration   *)
(* of their product.  Only successors in the product are found, a state is   *)
(* done with only when all of them are found, and the numbers that the rule  *)
(* pairs give later change the meaning of none that they gave before.        *)
THEOREM ExploresProductHolds == ComposeSpec => ExploresProduct
  <1>1. ComposeInit => Explore!Init
    BY ExploreInit
  <1>2. ComposeInv /\ ComposeInv' /\ [ComposeNext]_composeVars => [Explore!Next]_(Explore!vars)
    BY ExploreStep
  <1> QED
    BY <1>1, <1>2, ComposeInvariant, PTL DEF ComposeSpec, ExploresProduct, Explore!Exploring

=============================================================================

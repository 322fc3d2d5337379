--------------------------- MODULE ProcLookupProofs ---------------------------
(***************************************************************************)
(* Proofs about ProcLookup: the paths of a lookup are exactly the ways     *)
(* through the transducer that read the symbols so far.  First what the    *)
(* search reads in the two tables at the address of a state, then facts    *)
(* about ways, then the invariant that relates the paths to the ways.      *)
(***************************************************************************)
EXTENDS ProcLookup, OlConvertProofs

-----------------------------------------------------------------------------
(* Sequences.                                                               *)

IsList(s) == s \in Seq(ToSet(s))

LEMMA ListOf ==
    ASSUME NEW T, NEW s \in Seq(T)
    PROVE  IsList(s) /\ ToSet(s) \subseteq T /\ DOMAIN s = 1 .. Len(s) /\ Len(s) \in Nat
  <1>1. DOMAIN s = 1 .. Len(s) /\ Len(s) \in Nat /\ \A k \in 1 .. Len(s) : s[k] \in T
    OBVIOUS
  <1>2. \A k \in 1 .. Len(s) : s[k] \in ToSet(s)
    BY <1>1 DEF ToSet
  <1>3. ToSet(s) \subseteq T
    BY <1>1 DEF ToSet
  <1>4. s = [k \in 1 .. Len(s) |-> s[k]]
    BY <1>1
  <1>5. s \in [1 .. Len(s) -> ToSet(s)]
    BY <1>2, <1>4
  <1>6. s \in Seq(ToSet(s))
    BY <1>1, <1>5
  <1> QED
    BY <1>1, <1>3, <1>6 DEF IsList

LEMMA ListConcatenated ==
    ASSUME NEW u, NEW v, IsList(u), IsList(v)
    PROVE  /\ IsList(u \o v) /\ ToSet(u \o v) = ToSet(u) \cup ToSet(v)
           /\ Len(u \o v) = Len(u) + Len(v) /\ Len(u) \in Nat /\ Len(v) \in Nat
           /\ \A k \in 1 .. Len(u) : (u \o v)[k] = u[k]
  <1> DEFINE S == ToSet(u) \cup ToSet(v)
             w == u \o v
  <1>1. u \in Seq(S) /\ v \in Seq(S)
    <2>1. \A A, B : A \subseteq B => Seq(A) \subseteq Seq(B)
      OBVIOUS
    <2>2. u \in Seq(ToSet(u)) /\ v \in Seq(ToSet(v))
      BY DEF IsList
    <2>3. ToSet(u) \subseteq S /\ ToSet(v) \subseteq S
      OBVIOUS
    <2> HIDE DEF S
    <2> QED
      BY <2>1, <2>2, <2>3
  <1> HIDE DEF S
  <1>2. /\ w \in Seq(S)
        /\ DOMAIN u = 1 .. Len(u) /\ DOMAIN v = 1 .. Len(v) /\ DOMAIN w = 1 .. Len(u) + Len(v)
        /\ Len(u) \in Nat /\ Len(v) \in Nat /\ Len(w) = Len(u) + Len(v)
        /\ \A i0 \in 1 .. Len(u) : w[i0] = u[i0]
        /\ \A i0 \in 1 .. Len(v) : w[Len(u) + i0] = v[i0]
    BY <1>1
  <1> HIDE DEF w
  <1>3. IsList(w)
    BY <1>2, ListOf
  <1>4. \A i0 \in 1 .. Len(u) + Len(v) :
          i0 \in 1 .. Len(u) \/ (i0 - Len(u) \in 1 .. Len(v) /\ Len(u) + (i0 - Len(u)) = i0)
    BY <1>2
  <1>5. ASSUME NEW z \in ToSet(w) PROVE z \in ToSet(u) \cup ToSet(v)
    <2>1. PICK k \in 1 .. Len(u) + Len(v) : z = w[k]
      BY <1>2, <1>5 DEF ToSet
    <2>2. CASE k \in 1 .. Len(u)
      BY <1>2, <2>1, <2>2 DEF ToSet
    <2>3. CASE k - Len(u) \in 1 .. Len(v) /\ Len(u) + (k - Len(u)) = k
      <3>1. z = v[k - Len(u)]
        BY <1>2, <2>1, <2>3
      <3> QED
        BY <1>2, <2>3, <3>1 DEF ToSet
    <2> QED
      BY <1>4, <2>2, <2>3
  <1>6. ASSUME NEW z \in ToSet(u) \cup ToSet(v) PROVE z \in ToSet(w)
    <2>1. CASE z \in ToSet(u)
      <3>1. PICK k \in 1 .. Len(u) : z = u[k]
        BY <1>2, <2>1 DEF ToSet
      <3>2. k \in DOMAIN w /\ z = w[k]
        BY <1>2, <3>1
      <3> QED
        BY <3>2 DEF ToSet
    <2>2. CASE z \in ToSet(v)
      <3>1. PICK k \in 1 .. Len(v) : z = v[k]
        BY <1>2, <2>2 DEF ToSet
      <3>2. Len(u) + k \in DOMAIN w /\ z = w[Len(u) + k]
        BY <1>2, <3>1
      <3> QED
        BY <3>2 DEF ToSet
    <2> QED
      BY <2>1, <2>2, <1>6
  <1> QED
    BY <1>2, <1>3, <1>5, <1>6 DEF w

(* What is in a list of lists that are written one after another. *)
LEMMA FlattenedList ==
    ASSUME NEW ss, IsList(ss), \A k \in DOMAIN ss : IsList(ss[k])
    PROVE  /\ IsList(FlattenSeq(ss))
           /\ ToSet(FlattenSeq(ss)) = UNION {ToSet(ss[k]) : k \in DOMAIN ss}
  <1> DEFINE N == Len(ss)
             G(f) == [k \in 1 .. N |-> IF k = 1 THEN ss[k] ELSE f[k - 1] \o ss[k]]
             Sets(n) == UNION {ToSet(ss[k]) : k \in 1 .. n}
             S == Sets(N)
  <1>1. N \in Nat /\ DOMAIN ss = 1 .. N
    BY DEF IsList
  <1>2. CASE N = 0
    <2>1. FlattenSeq(ss) = ss
      BY <1>2 DEF FlattenSeq
    <2>2. DOMAIN ss = {}
      BY <1>1, <1>2
    <2> QED
      BY <2>1, <2>2 DEF ToSet
  <1>3. CASE N # 0
    <2> DEFINE step == [n \in 1 .. N - 1 |-> [v \in Seq(S) |-> v \o ss[n + 1]]]
    <2>1. N - 1 \in Nat /\ N \in 1 .. N /\ 1 \in 1 .. N
      BY <1>1, <1>3
    <2>2. \A k \in 1 .. N : ss[k] \in Seq(S)
      <3> SUFFICES ASSUME NEW k \in 1 .. N PROVE ss[k] \in Seq(S)
        OBVIOUS
      <3>1. ss[k] \in Seq(ToSet(ss[k]))
        BY <1>1 DEF IsList
      <3>2. ToSet(ss[k]) \subseteq S
        OBVIOUS
      <3>3. \A A, B : A \subseteq B => Seq(A) \subseteq Seq(B)
        OBVIOUS
      <3> HIDE DEF S
      <3> QED
        BY <3>1, <3>2, <3>3
    <2> HIDE DEF S
    <2>3. step \in [1 .. N - 1 -> [Seq(S) -> Seq(S)]]
      <3>1. \A n \in 1 .. N - 1 : n + 1 \in 1 .. N
        BY <1>1
      <3> HIDE DEF N
      <3> QED
        BY <2>2, <3>1
    <2>4. \A n \in 1 .. N - 1 : \A v \in Seq(S) : step[n][v] = v \o ss[n + 1]
      OBVIOUS
    <2> HIDE DEF step
    <2>5. PICK g \in [0 .. N - 1 -> Seq(S)] :
            g[0] = ss[1] /\ \A n \in 1 .. N - 1 : g[n] = step[n][g[n - 1]]
      <3> DEFINE M == N - 1
                 V == Seq(S)
                 v0 == ss[1]
      <3>1. M \in Nat /\ Steps(M, V, step) /\ v0 \in V
        BY <2>1, <2>2, <2>3 DEF Steps
      <3> HIDE DEF M, V, v0
      <3>2. Solution(M, V, v0, step)
        BY <3>1, Recursion
      <3> QED
        BY <3>2 DEF M, V, v0, Solution
    <2> DEFINE f == [k \in 1 .. N |-> g[k - 1]]
    <2>6. f = G(f)
      <3>1. ASSUME NEW k \in 1 .. N
            PROVE  g[k - 1] = IF k = 1 THEN ss[k] ELSE f[k - 1] \o ss[k]
        <4>1. CASE k = 1
          BY <2>5, <4>1
        <4>2. CASE k # 1
          <5>1. k - 1 \in 1 .. N - 1 /\ k - 1 \in 1 .. N /\ (k - 1) - 1 \in 0 .. N - 1 /\ (k - 1) + 1 = k
            BY <1>1, <4>2
          <5>2. g[k - 1] = step[k - 1][g[(k - 1) - 1]] /\ g[(k - 1) - 1] \in Seq(S)
            BY <2>5, <5>1
          <5>3. step[k - 1][g[(k - 1) - 1]] = g[(k - 1) - 1] \o ss[k]
            <6> DEFINE v == g[(k - 1) - 1]
            <6>1. v \in Seq(S)
              BY <5>2
            <6> HIDE DEF v
            <6>2. step[k - 1][v] = v \o ss[(k - 1) + 1]
              BY <2>4, <5>1, <6>1
            <6> QED
              BY <5>1, <6>2 DEF v
          <5>4. f[k - 1] = g[(k - 1) - 1]
            BY <5>1
          <5> HIDE DEF f
          <5> QED
            BY <4>2, <5>2, <5>3, <5>4
        <4> QED
          BY <4>1, <4>2
      <3> QED
        BY <3>1
    <2> DEFINE F == CHOOSE h : h = G(h)
    <2>7. FlattenSeq(ss) = F[N]
      BY <1>3 DEF FlattenSeq
    <2>8. F = G(F)
      <3> HIDE DEF G, f
      <3> QED
        BY <2>6
    <2> HIDE DEF F
    <2>9. F[1] = ss[1] /\ \A k \in 2 .. N : F[k] = F[k - 1] \o ss[k]
      <3>1. \A k \in 1 .. N : F[k] = IF k = 1 THEN ss[k] ELSE F[k - 1] \o ss[k]
        BY <2>8
      <3>2. \A k \in 2 .. N : k \in 1 .. N /\ k # 1
        BY <1>1
      <3> QED
        BY <2>1, <3>1, <3>2
    <2> DEFINE good(n) == IsList(F[n]) /\ ToSet(F[n]) = Sets(n)
               bad == {n \in 1 .. N : ~ good(n)}
    <2>10. good(1)
      <3>1. Sets(1) = ToSet(ss[1])
        OBVIOUS
      <3> HIDE DEF Sets
      <3> QED
        BY <1>1, <2>1, <2>9, <3>1
    <2>11. bad = {}
      <3> HIDE DEF good
      <3>1. SUFFICES ASSUME bad # {} PROVE FALSE
        OBVIOUS
      <3>2. PICK n \in bad : \A m \in bad : n <= m
        <4>1. bad \subseteq Nat
          OBVIOUS
        <4> HIDE DEF bad
        <4> QED
          BY <3>1, <4>1, LeastNumber
      <3>3. n \in 1 .. N /\ ~ good(n) /\ n # 1
        BY <2>10, <3>2
      <3>4. n \in 2 .. N /\ n - 1 \in 1 .. N
        BY <1>1, <3>3
      <3>5. good(n - 1)
        <4>1. n - 1 \notin bad
          BY <3>2, <3>3
        <4> QED
          BY <3>4, <4>1
      <3>6. IsList(F[n - 1]) /\ ToSet(F[n - 1]) = Sets(n - 1) /\ F[n] = F[n - 1] \o ss[n] /\ IsList(ss[n])
        BY <1>1, <2>9, <3>3, <3>4, <3>5 DEF good
      <3>7. IsList(F[n]) /\ ToSet(F[n]) = Sets(n - 1) \cup ToSet(ss[n])
        <4> HIDE DEF Sets
        <4> QED
          BY <3>6, ListConcatenated
      <3>8. Sets(n - 1) \cup ToSet(ss[n]) = Sets(n)
        <4>1. \A k \in 1 .. n : k \in 1 .. n - 1 \/ k = n
          BY <3>4
        <4>2. n \in 1 .. n /\ \A k \in 1 .. n - 1 : k \in 1 .. n
          BY <3>4
        <4> QED
          BY <4>1, <4>2
      <3> QED
        BY <3>3, <3>7, <3>8 DEF good
    <2>12. good(N)
      <3> HIDE DEF good
      <3> QED
        BY <2>1, <2>11
    <2> QED
      BY <1>1, <2>7, <2>12
  <1>4. N = 0 \/ N # 0
    OBVIOUS
  <1> QED
    BY <1>2, <1>3, <1>4

-----------------------------------------------------------------------------
(* Which transitions read no input.                                         *)

\* How the number of a transition's input symbol and its name go together.
NameOfInput(s, k) ==
    LET y == placeholders[s][k].input
    IN  /\ y \in 0 .. Len(symbol_table) - 1
        /\ symbol_table[y + 1] = graph.arcs[s][k].in
        /\ graph.arcs[s][k].in \in InputsUsed \cup {Epsilon}

LEMMA InputNumbered ==
    ASSUME WrittenInv, pc = "done", NEW s \in States(graph), NEW k \in DOMAIN placeholders[s]
    PROVE  NameOfInput(s, k) /\ k \in DOMAIN graph.arcs[s]
           /\ placeholders[s][k].target = graph.arcs[s][k].target
  <1> DEFINE inputs == InputsUsed
             outputs == OutputsUsed
             table == symbol_table
             a == Len(InOrder(inputs \ FlagNames))
             name == graph.arcs[s][k].in
  <1>1. /\ TypeOK /\ table = CollectSymbols(inputs, outputs)
        /\ placeholders = NumberedArcs(graph, table)
    BY DEF WrittenInv, TableInv, IndexInv, NumberingKept
  <1>2. /\ placeholders[s] = [j \in 1 .. Len(graph.arcs[s]) |->
            [input  |-> SymbolNumberOf(table, graph.arcs[s][j].in),
             output |-> SymbolNumberOf(table, graph.arcs[s][j].out),
             target |-> graph.arcs[s][j].target,
             weight |-> graph.arcs[s][j].weight]]
    BY <1>1 DEF NumberedArcs
  <1>3. k \in 1 .. Len(graph.arcs[s])
    BY <1>2
  <1>4. graph.arcs[s] \in Seq(Arc)
    BY <1>1, GraphsAssumption DEF TypeOK
  <1>5. k \in DOMAIN graph.arcs[s]
    BY <1>3, <1>4
  <1>6. placeholders[s][k].input = SymbolNumberOf(table, name)
        /\ placeholders[s][k].target = graph.arcs[s][k].target
    BY <1>2, <1>3
  <1>7. /\ inputs \cup outputs \subseteq AllNames \cup {Epsilon}
        /\ name \in inputs \cup {Epsilon}
    BY <1>1, <1>5, NamesUsed
  <1> HIDE DEF inputs, outputs, name
  <1>8. /\ table \in Seq(STRING) /\ Len(table) >= 1 /\ IsInjective(table)
        /\ \A x \in inputs : \E p \in 1 .. Len(table) : table[p] = x
    <2>1. a = Len(InOrder(inputs \ FlagNames))
      OBVIOUS
    <2> HIDE DEF a, table
    <2>2. NumbersNames(table, a, inputs, outputs)
      BY <1>1, <1>7, <2>1, NumberedNames
    <2> QED
      BY <2>2 DEF NumbersNames
  <1>9. table[1] = Epsilon
    BY <1>1, SymbolTable
  <1>10. DOMAIN table = 1 .. Len(table) /\ Len(table) \in Nat
    BY <1>8
  <1> HIDE DEF table
  <1>11. PICK p \in 1 .. Len(table) : table[p] = name
    <2>1. 1 \in 1 .. Len(table)
      BY <1>8, <1>10
    <2> QED
      BY <1>7, <1>8, <1>9, <2>1
  <1>12. SymbolNumberOf(table, name) = p - 1
    <2>1. \A q \in 1 .. Len(table) : table[q] = name => q = p
      BY <1>8, <1>10, <1>11 DEF IsInjective
    <2> QED
      BY <1>11, <2>1 DEF SymbolNumberOf
  <1>13. p - 1 \in 0 .. Len(table) - 1 /\ (p - 1) + 1 = p
    BY <1>10
  <1> QED
    BY <1>5, <1>6, <1>7, <1>11, <1>12, <1>13 DEF NameOfInput, table, inputs, name

LEMMA SilentInputs ==
    ASSUME WrittenInv, pc = "done"
    PROVE  /\ 0 \notin FlagSymbols /\ NO_SYMBOL_NUMBER \notin {0} \cup FlagSymbols
           /\ flag_symbols \subseteq FlagSymbols
           /\ \A s \in States(graph) : \A k \in DOMAIN placeholders[s] :
                /\ Silent(placeholders[s][k].input) => placeholders[s][k].input \in {0} \cup flag_symbols
                /\ Silent(placeholders[s][k].input) => graph.arcs[s][k].in \in FlagNames \cup {Epsilon}
                /\ placeholders[s][k].input \in Nat
                /\ placeholders[s][k].input # NO_SYMBOL_NUMBER
  <1>1. /\ Len(symbol_table) \in Nat /\ Len(symbol_table) <= NO_SYMBOL_NUMBER
        /\ seen_input_symbols \in 1 .. Len(symbol_table) /\ IsInjective(symbol_table)
        /\ DOMAIN symbol_table = 1 .. Len(symbol_table)
        /\ symbol_table[1] = Epsilon /\ NO_SYMBOL_NUMBER \in Nat
    BY AtTheEnd, ConstantsAssumption DEF NumbersBounded, SymbolsInOrder
  <1>2. \A y : y \in FlagSymbols <=> \E j \in 1 .. Len(symbol_table) : y = j - 1 /\ symbol_table[j] \in FlagNames
    BY DEF FlagSymbols, NumbersOf
  <1>3. flag_symbols = NumbersOf(symbol_table, InputsUsed \cap FlagNames)
    BY DEF WrittenInv, NumberingKept
  <1>4. \A j \in 1 .. Len(symbol_table) :
          symbol_table[j] \in InputsUsed \cap FlagNames => j - 1 \in flag_symbols
    BY <1>3 DEF NumbersOf
  <1>5. 0 \notin FlagSymbols
    <2>1. \A j \in 1 .. Len(symbol_table) : j - 1 = 0 => j = 1
      OBVIOUS
    <2> QED
      BY <1>1, <1>2, <2>1, ConstantsAssumption
  <1>6. NO_SYMBOL_NUMBER \notin {0} \cup FlagSymbols
    BY <1>1, <1>2
  <1>7. flag_symbols \subseteq FlagSymbols
    BY <1>3 DEF FlagSymbols, NumbersOf
  <1>8. ASSUME NEW s \in States(graph), NEW k \in DOMAIN placeholders[s]
        PROVE  /\ Silent(placeholders[s][k].input) => placeholders[s][k].input \in {0} \cup flag_symbols
               /\ Silent(placeholders[s][k].input) => graph.arcs[s][k].in \in FlagNames \cup {Epsilon}
               /\ placeholders[s][k].input \in Nat
               /\ placeholders[s][k].input # NO_SYMBOL_NUMBER
    <2> DEFINE y == placeholders[s][k].input
               name == graph.arcs[s][k].in
    <2>1. y \in 0 .. Len(symbol_table) - 1 /\ symbol_table[y + 1] = name /\ name \in InputsUsed \cup {Epsilon}
      BY <1>8, InputNumbered DEF NameOfInput
    <2> HIDE DEF y, name
    <2>2. y + 1 \in 1 .. Len(symbol_table) /\ (y + 1) - 1 = y /\ y \in Nat /\ y # NO_SYMBOL_NUMBER
      BY <1>1, <2>1
    <2>3. ASSUME y \in FlagSymbols PROVE name \in FlagNames /\ y \in flag_symbols
      <3>1. PICK j \in 1 .. Len(symbol_table) : y = j - 1 /\ symbol_table[j] \in FlagNames
        BY <1>2, <2>3
      <3>2. y + 1 = j
        BY <3>1
      <3>3. name \in FlagNames /\ name # Epsilon
        BY <2>1, <3>1, <3>2, ConstantsAssumption
      <3> QED
        BY <1>4, <2>1, <2>2, <3>3
    <2>4. y = 0 => name = Epsilon
      BY <1>1, <2>1
    <2> QED
      BY <2>2, <2>3, <2>4 DEF Silent, y, name
  <1> QED
    BY <1>5, <1>6, <1>7, <1>8

-----------------------------------------------------------------------------
(* What the search reads at a state.                                        *)

\* r holds the entries of the transitions of s with symbols in S.
Reading(r, s, S) ==
    /\ r \in Seq(NumberedArc)
    /\ ToSet(r) = {TransitionEntry(placeholders[s][k]) : k \in WithSymbols(s, S)}

LEMMA BlockReading ==
    ASSUME NEW s, NEW r, NEW S, NEW c, Block(s, r, WithSymbols(s, S), c)
    PROVE  Reading(r, s, S)
  <1> DEFINE B == WithSymbols(s, S)
             order == WriteOrder(placeholders[s])
             E == {TransitionEntry(placeholders[s][k]) : k \in B}
  <1>1. /\ r \in Seq(NumberedArc)
        /\ \A j \in 1 .. Len(r) :
             order[c + j] \in B /\ r[j] = TransitionEntry(placeholders[s][order[c + j]])
        /\ \A k \in B : \E j \in 1 .. Len(r) : order[c + j] = k
    BY DEF Block
  <1>2. DOMAIN r = 1 .. Len(r)
    BY <1>1
  <1> HIDE DEF B, order
  <1>3. ToSet(r) \subseteq E
    BY <1>1, <1>2 DEF ToSet
  <1>4. E \subseteq ToSet(r)
    <2> SUFFICES ASSUME NEW k \in B PROVE TransitionEntry(placeholders[s][k]) \in ToSet(r)
      OBVIOUS
    <2>1. PICK j \in 1 .. Len(r) : order[c + j] = k
      BY <1>1
    <2>2. r[j] = TransitionEntry(placeholders[s][k])
      BY <1>1, <2>1
    <2> QED
      BY <1>2, <2>2 DEF ToSet
  <1> QED
    BY <1>1, <1>3, <1>4 DEF Reading, B

\* The first entry of a block is one of its transitions.
LEMMA FirstOfBlock ==
    ASSUME WrittenInv, pc = "done", NEW s \in States(graph), NEW S,
           NEW r, NEW c, Block(s, r, WithSymbols(s, S), c), WithSymbols(s, S) # {},
           NEW a, TableAddress(a) = First[s] + c
    PROVE  At(wtransition_table, a).input \in S
  <1> DEFINE B == WithSymbols(s, S)
             O == WriteOrder(placeholders[s])
  <1>1. PICK x \in B : TRUE
    OBVIOUS
  <1>2. /\ c \in Nat /\ r \in Seq(NumberedArc) /\ c + Len(r) <= Len(placeholders[s])
        /\ \A m \in 1 .. Len(r) : O[c + m] \in B
        /\ \E j \in 1 .. Len(r) : O[c + j] = x
    BY <1>1 DEF Block
  <1>3. Len(placeholders[s]) \in Nat /\ Len(r) \in Nat /\ First[s] \in Nat
    BY <1>2, FirstFacts
  <1>4. 1 \in 1 .. Len(r) /\ c + 1 \in 1 .. Len(placeholders[s])
    <2> HIDE DEF B, O
    <2> QED
      BY <1>2, <1>3
  <1>5. O[c + 1] \in B
    BY <1>2, <1>4
  <1>6. wtransition_table[First[s] + (c + 1)] = TransitionEntry(placeholders[s][O[c + 1]])
    BY <1>4, TransitionTableFacts, EntriesType
  <1>7. At(wtransition_table, a) = wtransition_table[First[s] + (c + 1)]
    <2>1. c \in Nat /\ First[s] \in Nat
      BY <1>2, <1>3
    <2>2. (First[s] + c) + 1 = First[s] + (c + 1)
      BY <2>1
    <2> QED
      BY <2>2 DEF At
  <1>8. TransitionEntry(placeholders[s][O[c + 1]]).input \in S
    BY <1>5 DEF WithSymbols, TransitionEntry, Transition
  <1> QED
    BY <1>6, <1>7, <1>8

LEMMA SymbolRun ==
    ASSUME WrittenInv, pc = "done", Addressable, NEW s \in States(graph),
           NEW y \in Nat, y \notin {0} \cup flag_symbols, y # NO_SYMBOL_NUMBER,
           NEW a, \/ SimpleState(s) /\ TableAddress(a) = First[s]
                  \/ TableAddress(a) = First[s] + SymbolOffset(y, placeholders[s], flag_symbols)
    PROVE  /\ Reading(Run(wtransition_table, a, {y}), s, {y})
           /\ ~ SimpleState(s) /\ WithSymbols(s, {y}) # {} => At(wtransition_table, a).input = y
  <1> DEFINE S == {y}
             B == WithSymbols(s, S)
             D == DOMAIN placeholders[s]
  <1>1. SymbolsUnder(y) = S /\ y \notin flag_symbols /\ NO_SYMBOL_NUMBER \notin S
    BY DEF SymbolsUnder
  <1>2. First[s] \in Nat
    BY FirstFacts
  <1>3. CASE SimpleState(s) /\ TableAddress(a) = First[s]
    <2> DEFINE C == {}
    <2>1. /\ y \in StateOffsets(s) <=> B # {}
          /\ y \in StateOffsets(s) => B = D
      BY <1>1, <1>3, UnderOffset
    <2>2. B = {} \/ B = D
      BY <2>1
    <2>3. B \subseteq D
      BY DEF WithSymbols
    <2>4. Closed(s, C) /\ Closed(s, C \cup B)
      BY <2>2 DEF Closed
    <2>5. C \in SUBSET D /\ C \cap B = {}
      OBVIOUS
    <2>6. TableAddress(a) = First[s] + Cardinality(C)
      <3>1. Cardinality({}) = 0
        BY FS_EmptySet
      <3> QED
        BY <1>2, <1>3, <3>1
    <2> HIDE DEF C, S
    <2>7. Block(s, Run(wtransition_table, a, S), B, Cardinality(C))
      BY <1>1, <2>4, <2>5, <2>6, BlockRead
    <2> QED
      BY <1>3, <2>7, BlockReading DEF S
  <1>4. CASE TableAddress(a) = First[s] + SymbolOffset(y, placeholders[s], flag_symbols)
    <2>1. PICK C \in SUBSET D :
             /\ Closed(s, C) /\ Closed(s, C \cup B) /\ C \cap B = {}
             /\ Cardinality(C) = SymbolOffset(y, placeholders[s], flag_symbols)
      BY <1>1, UnderBlock
    <2>2. TableAddress(a) = First[s] + Cardinality(C)
      BY <1>4, <2>1
    <2> HIDE DEF S
    <2>3. Block(s, Run(wtransition_table, a, S), B, Cardinality(C))
      BY <1>1, <2>1, <2>2, BlockRead
    <2>4. B # {} => At(wtransition_table, a).input \in S
      BY <2>2, <2>3, FirstOfBlock
    <2> QED
      BY <2>3, <2>4, BlockReading DEF S
  <1> QED
    BY <1>3, <1>4

LEMMA SilentRun ==
    ASSUME WrittenInv, pc = "done", Addressable, NEW s \in States(graph),
           NEW a, TableAddress(a) = First[s]
    PROVE  Reading(Run(wtransition_table, a, {0} \cup FlagSymbols), s, {0} \cup FlagSymbols)
  <1> DEFINE S == {0} \cup FlagSymbols
             B == WithSymbols(s, S)
             C == {}
  <1>1. NO_SYMBOL_NUMBER \notin S
    BY SilentInputs
  <1>2. B = WithSymbols(s, {0} \cup flag_symbols)
    <2>1. flag_symbols \subseteq FlagSymbols
      BY SilentInputs
    <2>2. \A k \in DOMAIN placeholders[s] :
            placeholders[s][k].input \in S => placeholders[s][k].input \in {0} \cup flag_symbols
      BY SilentInputs DEF Silent
    <2> QED
      BY <2>1, <2>2 DEF WithSymbols
  <1>3. Closed(s, C) /\ Closed(s, C \cup B) /\ C \cap B = {} /\ C \in SUBSET DOMAIN placeholders[s]
    <2>1. Closed(s, {}) /\ Closed(s, B)
      BY <1>2, SymbolBlocks
    <2>2. {} \cup B = B
      OBVIOUS
    <2> HIDE DEF B
    <2> QED
      BY <2>1, <2>2
  <1>4. TableAddress(a) = First[s] + Cardinality(C)
    <2>1. Cardinality({}) = 0 /\ First[s] \in Nat
      BY FS_EmptySet, FirstFacts
    <2> QED
      BY <2>1
  <1> HIDE DEF C, S
  <1>5. Block(s, Run(wtransition_table, a, S), B, Cardinality(C))
    BY <1>1, <1>3, <1>4, BlockRead
  <1> QED
    BY <1>5, BlockReading DEF S

(* The index entry for y at a state: it is the state's own when the state has *)
(* a transition under y, and no entry for y otherwise.                        *)
LEMMA EntryAt ==
    ASSUME WrittenInv, pc = "done", Addressable, NEW s \in States(graph), ~ SimpleState(s),
           NEW y \in Nat, y # NO_SYMBOL_NUMBER,
           NEW p, p = StateAddress(s) + y + 1, p < Len(windex_table)
    PROVE  /\ Matches(At(windex_table, p), y) <=> y \in StateOffsets(s)
           /\ y \in StateOffsets(s) =>
                At(windex_table, p).target =
                  First[s] + SymbolOffset(y, placeholders[s], flag_symbols) + TRANSITION_TARGET_TABLE_START
  <1> DEFINE off == SymbolOffset(y, placeholders[s], flag_symbols)
             T == TRANSITION_TARGET_TABLE_START
  <1>1. s \in DOMAIN start_index /\ StateAddress(s) = start_index[s] /\ start_index[s] \in Nat
    BY AddressType
  <1>2. T \in Nat /\ Len(windex_table) \in Nat /\ Len(windex_table) <= T
    BY IndexTableFacts, ConstantsAssumption DEF Addressable
  <1>3. At(windex_table, p) = IndexTableEntry(p)
    <2>1. p \in Nat /\ p < T /\ p \in 0 .. Len(windex_table) - 1
      BY <1>1, <1>2
    <2>2. TableAddress(p) = p
      BY <2>1, AddressArithmetic
    <2> QED
      BY <2>1, <2>2, IndexTableFacts DEF At
  <1>4. IndexOwnership
    BY AtTheEnd DEF IndexInv
  <1>5. ASSUME y \in StateOffsets(s)
        PROVE  At(windex_table, p).input = y /\ At(windex_table, p).target = First[s] + off + T
    <2>1. p \in DOMAIN used_indices /\ used_indices[p] = << s, y >>
      <3>1. start_index[s] + y + 1 = p
        BY <1>1
      <3> QED
        BY <1>1, <1>4, <1>5, <3>1 DEF IndexOwnership
    <2> QED
      BY <1>3, <2>1 DEF IndexTableEntry, IndexEntry, First
  <1>6. ASSUME Matches(At(windex_table, p), y) PROVE y \in StateOffsets(s)
    <2>1. p \in DOMAIN used_indices
      BY <1>3, <1>6 DEF IndexTableEntry, BlankIndex, IndexEntry, Matches
    <2> DEFINE z == used_indices[p][1]
               o == used_indices[p][2]
    <2>2. o # NO_SYMBOL_NUMBER
      BY <1>3, <1>6, <2>1 DEF IndexTableEntry, BlankIndex, FinalIndex, IndexEntry, Matches
    <2>3. At(windex_table, p).input = o
      BY <1>3, <2>1, <2>2 DEF IndexTableEntry, IndexEntry
    <2>4. o = y
      BY <1>6, <2>3 DEF Matches
    <2>5. z \in DOMAIN start_index /\ o \in StateOffsets(z) /\ p = start_index[z] + o + 1
      BY <1>4, <2>1, <2>2 DEF IndexOwnership
    <2>6. start_index[z] \in Nat /\ used_indices[start_index[z]] = << z, NO_SYMBOL_NUMBER >>
          /\ used_indices[start_index[s]] = << s, NO_SYMBOL_NUMBER >>
      BY <1>1, <1>4, <2>5, IndexTableFacts DEF IndexOwnership
    <2> HIDE DEF z, o
    <2>7. start_index[z] = start_index[s]
      BY <1>1, <2>4, <2>5, <2>6
    <2>8. z = s
      BY <2>6, <2>7
    <2> QED
      BY <2>4, <2>5, <2>8
  <1> QED
    BY <1>5, <1>6 DEF Matches

\* An input symbol that is followed on a state's transitions.
LEMMA SymbolOffsets ==
    ASSUME WrittenInv, pc = "done", NEW s \in States(graph),
           NEW y, y \notin {0} \cup flag_symbols, y \notin StateOffsets(s)
    PROVE  WithSymbols(s, {y}) = {}
  BY UnderOffset DEF SymbolsUnder

-----------------------------------------------------------------------------
(* What a path is followed along.                                           *)

IsPath(p) == {"index", "out", "weight", "flags"} \subseteq DOMAIN p

\* The same path after following the transitions of s with symbols in S.
Followed(p, s, S) ==
    UNION {ToSet(FollowTransition(p, TransitionEntry(placeholders[s][k]))) : k \in WithSymbols(s, S)}

LEMMA FollowType ==
    ASSUME NEW p, NEW t
    PROVE  IsList(FollowTransition(p, t)) /\ \A q \in ToSet(FollowTransition(p, t)) : IsPath(q)
  <1> DEFINE q == [index |-> t.target,
                   out |-> IF Silent(t.output) THEN p.out ELSE Append(p.out, t.output),
                   weight |-> p.weight + t.weight,
                   final_weight |-> FinalWeightOf(t.target),
                   flags |-> IF t.input \in FlagSymbols THEN Apply(p.flags, OperationOf(t.input))
                                                        ELSE p.flags]
  <1>1. FollowTransition(p, t) = << >> \/ FollowTransition(p, t) = << q >>
    BY DEF FollowTransition
  <1>2. IsPath(q)
    BY DEF IsPath
  <1> HIDE DEF q
  <1>3. << >> \in Seq({q}) /\ << q >> \in Seq({q})
    OBVIOUS
  <1>4. FollowTransition(p, t) \in Seq({q})
    BY <1>1, <1>3
  <1>5. IsList(FollowTransition(p, t)) /\ ToSet(FollowTransition(p, t)) \subseteq {q}
    BY <1>4, ListOf
  <1> QED
    BY <1>2, <1>5

LEMMA FollowReading ==
    ASSUME NEW p, NEW r, NEW s, NEW S, Reading(r, s, S)
    PROVE  IsList(FollowAll(p, r)) /\ ToSet(FollowAll(p, r)) = Followed(p, s, S)
  <1> DEFINE ss == [k \in DOMAIN r |-> FollowTransition(p, r[k])]
             T == {FollowTransition(p, r[k]) : k \in DOMAIN r}
  <1>1. r \in Seq(NumberedArc) /\ DOMAIN r = 1 .. Len(r) /\ Len(r) \in Nat
    BY DEF Reading
  <1>2. IsList(ss) /\ DOMAIN ss = DOMAIN r
    <2>1. ss \in [1 .. Len(r) -> T]
      BY <1>1
    <2>2. ss \in Seq(T)
      BY <1>1, <2>1
    <2> HIDE DEF T
    <2> QED
      BY <2>2, ListOf
  <1>3. \A k \in DOMAIN ss : ss[k] = FollowTransition(p, r[k]) /\ IsList(ss[k])
    BY <1>2, FollowType
  <1>4. FollowAll(p, r) = FlattenSeq(ss)
    BY DEF FollowAll
  <1> HIDE DEF ss
  <1>5. IsList(FlattenSeq(ss)) /\ ToSet(FlattenSeq(ss)) = UNION {ToSet(ss[k]) : k \in DOMAIN ss}
    BY <1>2, <1>3, FlattenedList
  <1>6. UNION {ToSet(ss[k]) : k \in DOMAIN ss} = UNION {ToSet(FollowTransition(p, t)) : t \in ToSet(r)}
    BY <1>2, <1>3 DEF ToSet
  <1>7. ToSet(r) = {TransitionEntry(placeholders[s][k]) : k \in WithSymbols(s, S)}
    BY DEF Reading
  <1>8. UNION {ToSet(FollowTransition(p, t)) : t \in ToSet(r)} = Followed(p, s, S)
    BY <1>7 DEF Followed
  <1> QED
    BY <1>4, <1>5, <1>6, <1>8

\* Following an index entry leaves everything but the address as it was.
LEMMA FollowIndexSame ==
    ASSUME NEW p, IsPath(p), NEW e
    PROVE  LET q == FollowIndex(p, e)
           IN  /\ IsPath(q) /\ q.index = e.target
               /\ q.out = p.out /\ q.weight = p.weight /\ q.flags = p.flags
  <1> DEFINE q == FollowIndex(p, e)
             f == FinalWeightOf(e.target)
             g == [p EXCEPT !.index = e.target]
  <1>1. q = [g EXCEPT !.final_weight = f]
    BY DEF FollowIndex
  <1>2. DOMAIN g = DOMAIN p /\ g.index = e.target
        /\ g.out = p.out /\ g.weight = p.weight /\ g.flags = p.flags
    BY DEF IsPath
  <1> HIDE DEF f, g, q
  <1>3. DOMAIN q = DOMAIN g /\ q.index = g.index
        /\ q.out = g.out /\ q.weight = g.weight /\ q.flags = g.flags
    BY <1>1, <1>2 DEF IsPath
  <1>4. /\ IsPath(q) /\ q.index = e.target
        /\ q.out = p.out /\ q.weight = p.weight /\ q.flags = p.flags
    BY <1>2, <1>3 DEF IsPath
  <1> QED
    BY <1>4 DEF q

LEMMA FollowedSame ==
    ASSUME NEW p, NEW q, q.out = p.out, q.weight = p.weight, q.flags = p.flags, NEW s, NEW S
    PROVE  Followed(q, s, S) = Followed(p, s, S)
  <1>1. \A t : FollowTransition(q, t) = FollowTransition(p, t)
    BY DEF FollowTransition
  <1> QED
    BY <1>1 DEF Followed

\* Where the transitions of s are, for a path that is already past its marker.
EpsilonAddress(s) == First[s] + TRANSITION_TARGET_TABLE_START

LEMMA EpsilonAddressFacts ==
    ASSUME WrittenInv, pc = "done", Addressable, NEW s \in States(graph)
    PROVE  /\ IndexesTransitionTable(EpsilonAddress(s))
           /\ TableAddress(EpsilonAddress(s)) = First[s]
           /\ 0 \in StateOffsets(s) =>
                At(wtransition_table, EpsilonAddress(s)).input \in {0} \cup flag_symbols
  <1> DEFINE a == EpsilonAddress(s)
  <1>1. First[s] \in Nat /\ TRANSITION_TARGET_TABLE_START \in Nat
    BY FirstFacts, ConstantsAssumption
  <1>2. IndexesTransitionTable(a) /\ TableAddress(a) = First[s]
    BY <1>1, AddressArithmetic DEF EpsilonAddress, IndexesTransitionTable
  <1>3. ASSUME 0 \in StateOffsets(s)
        PROVE  At(wtransition_table, a).input \in {0} \cup flag_symbols
    <2> DEFINE B == WithSymbols(s, {0} \cup flag_symbols)
               C == {}
               S == {0} \cup flag_symbols
               r == Run(wtransition_table, a, S)
    <2>1. 0 \notin flag_symbols /\ NO_SYMBOL_NUMBER \notin S
      BY SilentInputs
    <2>2. B # {}
      BY <1>3, <2>1, UnderOffset DEF SymbolsUnder
    <2>3. Closed(s, {}) /\ Closed(s, B)
      BY SymbolBlocks
    <2>5. Closed(s, C) /\ Closed(s, C \cup B) /\ C \cap B = {} /\ C \in SUBSET DOMAIN placeholders[s]
      <3>1. {} \cup B = B
        OBVIOUS
      <3> HIDE DEF B
      <3> QED
        BY <2>3, <3>1
    <2>6. TableAddress(a) = First[s] + Cardinality(C)
      <3>1. Cardinality({}) = 0
        BY FS_EmptySet
      <3> QED
        BY <1>1, <1>2, <3>1
    <2>7. Cardinality(C) = 0
      BY FS_EmptySet
    <2> HIDE DEF C, a, S
    <2>8. Block(s, r, B, 0)
      <3>1. B = WithSymbols(s, S)
        BY DEF S
      <3> HIDE DEF B
      <3>2. Block(s, r, B, Cardinality(C))
        BY <2>1, <2>5, <2>6, <3>1, BlockRead
      <3> QED
        BY <2>7, <3>2
    <2>9. B = WithSymbols(s, S)
      BY DEF S
    <2>10. TableAddress(a) = First[s] + 0
      BY <2>6, <2>7
    <2> HIDE DEF B, r
    <2>11. At(wtransition_table, a).input \in S
      BY <2>2, <2>8, <2>9, <2>10, FirstOfBlock
    <2> QED
      BY <2>11 DEF S, a
  <1> QED
    BY <1>2, <1>3

-----------------------------------------------------------------------------
(* Paths and the ways they stand for.                                       *)

\* Path p carries what way w carries ...
Same(p, w) == IsPath(p) /\ p.out = w.out /\ p.weight = w.weight /\ p.flags = w.flags

\* ... and is at the address of its state, or, past the state's index entry for
\* epsilon, at the state's transitions.
AtState(p, w) == Same(p, w) /\ p.index = StateAddress(w.s)

AtEpsilons(p, w) ==
    /\ Same(p, w)
    /\ ~ SimpleState(w.s) /\ 0 \in StateOffsets(w.s)
    /\ p.index = EpsilonAddress(w.s)

MayFollow(w, arc) == arc.input \in FlagSymbols => Allowed(w.flags, OperationOf(arc.input))

(* Following the entry of a transition is extending the way by it. *)
LEMMA FollowExtends ==
    ASSUME NEW p, NEW w, Same(p, w), NEW arc
    PROVE  LET followed == ToSet(FollowTransition(p, TransitionEntry(arc)))
           IN  /\ \A q \in followed : MayFollow(w, arc) /\ AtState(q, Extended(w, arc))
               /\ MayFollow(w, arc) => \E q \in followed : AtState(q, Extended(w, arc))
  <1> DEFINE t == TransitionEntry(arc)
             q == [index |-> t.target,
                   out |-> IF Silent(t.output) THEN p.out ELSE Append(p.out, t.output),
                   weight |-> p.weight + t.weight,
                   final_weight |-> FinalWeightOf(t.target),
                   flags |-> IF t.input \in FlagSymbols THEN Apply(p.flags, OperationOf(t.input))
                                                        ELSE p.flags]
             followed == ToSet(FollowTransition(p, t))
  <1>1. /\ t.input = arc.input /\ t.output = arc.output
        /\ t.target = StateAddress(arc.target) /\ t.weight = arc.weight
    BY DEF TransitionEntry, Transition
  <1>2. FollowTransition(p, t) =
          IF t.input \in FlagSymbols /\ ~ Allowed(p.flags, OperationOf(t.input)) THEN << >> ELSE << q >>
    BY DEF FollowTransition
  <1>3. AtState(q, Extended(w, arc))
    <2> DEFINE e == Extended(w, arc)
    <2>1. /\ e.s = arc.target /\ e.weight = w.weight + arc.weight
          /\ e.out = (IF Silent(arc.output) THEN w.out ELSE Append(w.out, arc.output))
          /\ e.flags = (IF arc.input \in FlagSymbols THEN Apply(w.flags, OperationOf(arc.input)) ELSE w.flags)
      BY DEF Extended
    <2> HIDE DEF e, t
    <2>2. /\ q.index = StateAddress(e.s) /\ q.out = e.out /\ q.weight = e.weight /\ q.flags = e.flags
          /\ IsPath(q)
      BY <1>1, <2>1 DEF Same, IsPath
    <2> HIDE DEF q
    <2> QED
      BY <2>2 DEF AtState, Same, e
  <1>4. p.flags = w.flags
    BY DEF Same
  <1> HIDE DEF q, t
  <1>5. CASE MayFollow(w, arc)
    <2>1. FollowTransition(p, t) = << q >>
      BY <1>1, <1>2, <1>4, <1>5 DEF MayFollow
    <2>2. followed = {q}
      BY <2>1 DEF ToSet
    <2> QED
      BY <1>3, <1>5, <2>2 DEF t
  <1>6. CASE ~ MayFollow(w, arc)
    <2>1. FollowTransition(p, t) = << >>
      BY <1>1, <1>2, <1>4, <1>6 DEF MayFollow
    <2>2. followed = {}
      BY <2>1 DEF ToSet
    <2> QED
      BY <1>6, <2>2 DEF t
  <1> QED
    BY <1>5, <1>6

LEMMA SimpleMarker ==
    ASSUME WrittenInv, pc = "done", NEW s \in States(graph), SimpleState(s),
           NEW p, p.index = StateAddress(s)
    PROVE  /\ IndexesTransitionTable(p.index)
           /\ At(wtransition_table, p.index).input = NO_SYMBOL_NUMBER
           /\ TableAddress(FirstEntry(p)) = First[s]
  <1> DEFINE a == StateAddress(s)
  <1>1. s # 0 /\ a = First[s] + TRANSITION_TARGET_TABLE_START - 1 /\ First[s] \in Nat /\ First[s] >= 1
    BY AddressType, FirstFacts
  <1>2. IndexesTransitionTable(a) /\ TableAddress(a) + 1 = First[s] /\ TableAddress(a + 1) = First[s]
    BY <1>1, AddressArithmetic
  <1>3. At(wtransition_table, a) = StateMarker(s)[1]
    BY <1>1, <1>2, TransitionTableFacts DEF At
  <1>4. StateMarker(s)[1].input = NO_SYMBOL_NUMBER
    BY <1>1 DEF StateMarker, FinalityMarker, Transition
  <1> HIDE DEF a
  <1>5. p.index = a /\ At(wtransition_table, p.index).input = NO_SYMBOL_NUMBER
    BY <1>3, <1>4 DEF a
  <1>6. FirstEntry(p) = a + 1
    BY <1>5 DEF FirstEntry
  <1> QED
    BY <1>2, <1>5, <1>6

LEMMA IndexAddress ==
    ASSUME WrittenInv, pc = "done", Addressable, NEW s \in States(graph), ~ SimpleState(s)
    PROVE  /\ ~ IndexesTransitionTable(StateAddress(s))
           /\ StateAddress(s) \in Nat
           /\ StateAddress(s) + 1 < Len(windex_table)
  <1>1. s \in DOMAIN start_index /\ StateAddress(s) = start_index[s] /\ StateAddress(s) \in Nat
    BY AddressType
  <1>2. StateAddress(s) + seen_input_symbols < Len(windex_table) /\ Len(windex_table) \in Nat
        /\ Len(windex_table) <= TRANSITION_TARGET_TABLE_START /\ TRANSITION_TARGET_TABLE_START \in Nat
    BY <1>1, IndexTableFacts, ConstantsAssumption DEF Addressable
  <1>3. seen_input_symbols \in 1 .. Len(symbol_table) /\ Len(symbol_table) \in Nat
    BY AtTheEnd DEF NumbersBounded
  <1>4. StateAddress(s) + 1 < Len(windex_table) /\ StateAddress(s) < TRANSITION_TARGET_TABLE_START
    BY <1>1, <1>2, <1>3
  <1> QED
    BY <1>1, <1>4, AddressArithmetic

Silents == {0} \cup FlagSymbols

(* What try_epsilons appends for a path. *)
LEMMA EpsilonsRead ==
    ASSUME WrittenInv, pc = "done", Addressable, NEW p, NEW w, w.s \in States(graph), Same(p, w)
    PROVE  /\ (AtState(p, w) /\ SimpleState(w.s)) \/ AtEpsilons(p, w) =>
                /\ IsList(EpsilonPaths(p))
                /\ ToSet(EpsilonPaths(p)) = Followed(p, w.s, Silents)
           /\ AtState(p, w) /\ ~ SimpleState(w.s) /\ 0 \in StateOffsets(w.s) =>
                \E q : EpsilonPaths(p) = << q >> /\ AtEpsilons(q, w)
           /\ AtState(p, w) /\ ~ SimpleState(w.s) /\ 0 \notin StateOffsets(w.s) =>
                EpsilonPaths(p) = << >>
  <1> DEFINE s == w.s
             r == Run(wtransition_table, FirstEntry(p), Silents)
  <1>1. NO_SYMBOL_NUMBER \notin {0} \cup flag_symbols
    BY SilentInputs
  <1>2. ASSUME IndexesTransitionTable(p.index), TableAddress(FirstEntry(p)) = First[s]
        PROVE  IsList(EpsilonPaths(p)) /\ ToSet(EpsilonPaths(p)) = Followed(p, s, Silents)
    <2>1. EpsilonPaths(p) = FollowAll(p, r)
      BY <1>2 DEF EpsilonPaths, Silents
    <2>2. Reading(r, s, Silents)
      BY <1>2, SilentRun DEF Silents
    <2> HIDE DEF r
    <2> QED
      BY <2>1, <2>2, FollowReading
  <1>3. CASE AtState(p, w) /\ SimpleState(s)
    <2>1. IndexesTransitionTable(p.index) /\ TableAddress(FirstEntry(p)) = First[s]
      BY <1>3, SimpleMarker DEF AtState
    <2> QED
      BY <1>2, <1>3, <2>1 DEF AtEpsilons
  <1>4. CASE AtEpsilons(p, w)
    <2>1. p.index = EpsilonAddress(s) /\ 0 \in StateOffsets(s)
      BY <1>4 DEF AtEpsilons
    <2>2. IndexesTransitionTable(p.index) /\ TableAddress(p.index) = First[s]
          /\ At(wtransition_table, p.index).input # NO_SYMBOL_NUMBER
      BY <1>1, <2>1, EpsilonAddressFacts
    <2>3. FirstEntry(p) = p.index
      BY <2>2 DEF FirstEntry
    <2>4. ~ AtState(p, w) \/ SimpleState(s)
      <3>1. SUFFICES ASSUME AtState(p, w), ~ SimpleState(s) PROVE FALSE
        OBVIOUS
      <3>2. ~ IndexesTransitionTable(p.index)
        BY <3>1, IndexAddress DEF AtState
      <3> QED
        BY <2>2, <3>2
    <2> QED
      BY <1>2, <2>2, <2>3, <2>4
  <1>5. CASE AtState(p, w) /\ ~ SimpleState(s)
    <2> DEFINE e == At(windex_table, p.index + 1)
               a == StateAddress(s)
    <2>1. ~ IndexesTransitionTable(a) /\ a \in Nat /\ a + 1 < Len(windex_table) /\ p.index = a
      BY <1>5, IndexAddress DEF AtState
    <2>2. ~ AtEpsilons(p, w)
      BY <2>1, EpsilonAddressFacts DEF AtEpsilons
    <2>3. EpsilonPaths(p) = IF Matches(e, 0) THEN << FollowIndex(p, e) >> ELSE << >>
      BY <2>1 DEF EpsilonPaths
    <2> HIDE DEF a
    <2>4. NO_SYMBOL_NUMBER # 0 /\ 0 \notin flag_symbols /\ a + 1 = a + 0 + 1
      BY <2>1, SilentInputs
    <2>5. /\ Matches(e, 0) <=> 0 \in StateOffsets(s)
          /\ 0 \in StateOffsets(s) =>
               e.target = First[s] + SymbolOffset(0, placeholders[s], flag_symbols) + TRANSITION_TARGET_TABLE_START
      BY <1>5, <2>1, <2>4, EntryAt DEF a
    <2>6. SymbolOffset(0, placeholders[s], flag_symbols) = 0
      BY DEF SymbolOffset
    <2>7. First[s] + 0 + TRANSITION_TARGET_TABLE_START = EpsilonAddress(s)
      BY FirstFacts, ConstantsAssumption DEF EpsilonAddress
    <2> HIDE DEF e
    <2>8. CASE 0 \in StateOffsets(s)
      <3>1. EpsilonPaths(p) = << FollowIndex(p, e) >> /\ e.target = EpsilonAddress(s)
        BY <2>3, <2>5, <2>6, <2>7, <2>8
      <3>2. AtEpsilons(FollowIndex(p, e), w)
        <4> DEFINE q == FollowIndex(p, e)
        <4>1. IsPath(q) /\ q.index = e.target /\ q.out = p.out /\ q.weight = p.weight /\ q.flags = p.flags
          BY FollowIndexSame DEF Same
        <4> HIDE DEF q
        <4>2. Same(q, w)
          BY <4>1 DEF Same
        <4>3. AtEpsilons(q, w)
          BY <1>5, <2>8, <3>1, <4>1, <4>2 DEF AtEpsilons
        <4> QED
          BY <4>3 DEF q
      <3> QED
        BY <1>5, <2>2, <2>8, <3>1, <3>2
    <2>9. CASE 0 \notin StateOffsets(s)
      <3>1. EpsilonPaths(p) = << >>
        BY <2>3, <2>5, <2>9
      <3> QED
        BY <1>5, <2>2, <2>9, <3>1
    <2> QED
      BY <2>8, <2>9
  <1> QED
    BY <1>3, <1>4, <1>5

LEMMA EmptyFollowed ==
    ASSUME NEW p, NEW s, NEW S, WithSymbols(s, S) = {}
    PROVE  IsList(<< >>) /\ ToSet(<< >>) = Followed(p, s, S)
  <1>1. << >> \in Seq({}) /\ ToSet(<< >>) = {}
    BY DEF ToSet
  <1>2. Followed(p, s, S) = {}
    BY DEF Followed
  <1> QED
    BY <1>1, <1>2, ListOf

(* What apply_input finds for a path and a symbol. *)
LEMMA SymbolRead ==
    ASSUME WrittenInv, pc = "done", Addressable, NEW p, NEW w, w.s \in States(graph), Same(p, w),
           NEW y \in Nat, y \notin Silents, y # NO_SYMBOL_NUMBER
    PROVE  /\ AtState(p, w) /\ ~ OutsideTable(p, y) =>
                /\ IsList(TryInput(p, y))
                /\ ToSet(TryInput(p, y)) = Followed(p, w.s, {y})
           /\ AtEpsilons(p, w) => IsList(TryInput(p, y)) /\ ToSet(TryInput(p, y)) = {}
  <1> DEFINE s == w.s
  <1>1. /\ y \notin {0} \cup flag_symbols /\ y # 0
        /\ NO_SYMBOL_NUMBER \notin {0} \cup flag_symbols
    BY SilentInputs DEF Silents
  <1>2. CASE AtState(p, w) /\ SimpleState(s)
    <2> DEFINE r == Run(wtransition_table, FirstEntry(p), {y})
    <2>1. IndexesTransitionTable(p.index) /\ TableAddress(FirstEntry(p)) = First[s]
      BY <1>2, SimpleMarker DEF AtState
    <2>2. TryInput(p, y) = FollowAll(p, r)
      BY <2>1 DEF TryInput, TryTransitions
    <2>3. Reading(r, s, {y})
      BY <1>1, <1>2, <2>1, SymbolRun
    <2> HIDE DEF r
    <2>4. IsList(TryInput(p, y)) /\ ToSet(TryInput(p, y)) = Followed(p, s, {y})
      BY <2>2, <2>3, FollowReading
    <2> QED
      BY <1>2, <2>4 DEF AtEpsilons
  <1>3. CASE AtState(p, w) /\ ~ SimpleState(s) /\ ~ OutsideTable(p, y)
    <2> DEFINE a == StateAddress(s)
               e == At(windex_table, a + y + 1)
               q == FollowIndex(p, e)
               r == Run(wtransition_table, FirstEntry(q), {y})
               off == SymbolOffset(y, placeholders[s], flag_symbols)
    <2>1. ~ IndexesTransitionTable(a) /\ a \in Nat /\ p.index = a
      BY <1>3, IndexAddress DEF AtState
    <2>2. ~ AtEpsilons(p, w)
      BY <2>1, EpsilonAddressFacts DEF AtEpsilons
    <2>3. a + y + 1 < Len(windex_table)
      <3>1. Len(windex_table) \in Nat
        BY IndexTableFacts
      <3>2. ~ (a + y + 1 >= Len(windex_table))
        BY <1>3, <2>1 DEF OutsideTable
      <3> HIDE DEF a
      <3> QED
        BY <2>1, <3>1, <3>2
    <2>4. /\ Matches(e, y) <=> y \in StateOffsets(s)
          /\ y \in StateOffsets(s) => e.target = First[s] + off + TRANSITION_TARGET_TABLE_START
      BY <1>3, <2>3, EntryAt
    <2>5. TryInput(p, y) = IF Matches(e, y) THEN TryTransitions(q, y) ELSE << >>
      BY <2>1 DEF TryInput, TryIndex
    <2>6. IsPath(q) /\ q.index = e.target /\ q.out = p.out /\ q.weight = p.weight /\ q.flags = p.flags
      BY FollowIndexSame DEF Same
    <2>7. CASE y \in StateOffsets(s)
      <3>1. e.target = First[s] + off + TRANSITION_TARGET_TABLE_START /\ TryInput(p, y) = FollowAll(q, r)
        BY <2>4, <2>5, <2>7 DEF TryTransitions
      <3> HIDE DEF e, q
      <3>2. TableAddress(q.index) = First[s] + off
        <4>1. First[s] \in Nat /\ off \in Nat
          <5>1. IsFiniteSet(DOMAIN placeholders[s])
            <6>1. DOMAIN placeholders[s] = 1 .. Len(placeholders[s]) /\ Len(placeholders[s]) \in Nat
              BY AtTheEnd
            <6> QED
              BY <6>1, IntervalSize
          <5> DEFINE K == {k \in DOMAIN placeholders[s] : \/ placeholders[s][k].input = 0
                                                          \/ placeholders[s][k].input \in flag_symbols
                                                          \/ placeholders[s][k].input < y}
          <5>2. IsFiniteSet(K)
            BY <5>1, FS_Subset
          <5>3. Cardinality(K) \in Nat
            BY <5>2, FS_CardinalityType
          <5>4. off = Cardinality(K)
            BY <1>1 DEF SymbolOffset
          <5> QED
            BY <5>3, <5>4, FirstFacts
        <4> HIDE DEF off
        <4>2. First[s] + off \in Nat
          BY <4>1
        <4> QED
          BY <2>6, <3>1, <4>2, AddressArithmetic
      <3>3. /\ Reading(Run(wtransition_table, q.index, {y}), s, {y})
            /\ WithSymbols(s, {y}) # {} => At(wtransition_table, q.index).input = y
        BY <1>1, <1>3, <3>2, SymbolRun
      <3>4. WithSymbols(s, {y}) # {}
        BY <1>1, <2>7, UnderOffset DEF SymbolsUnder
      <3>5. FirstEntry(q) = q.index
        BY <3>3, <3>4 DEF FirstEntry
      <3>6. Reading(r, s, {y})
        BY <3>3, <3>5
      <3> HIDE DEF r
      <3>7. IsList(TryInput(p, y)) /\ ToSet(TryInput(p, y)) = Followed(q, s, {y})
        BY <3>1, <3>6, FollowReading
      <3>8. Followed(q, s, {y}) = Followed(p, s, {y})
        BY <2>6, FollowedSame
      <3> QED
        BY <2>2, <3>7, <3>8
    <2>8. CASE y \notin StateOffsets(s)
      <3>1. TryInput(p, y) = << >>
        BY <2>4, <2>5, <2>8
      <3>2. WithSymbols(s, {y}) = {}
        BY <1>1, <2>8, SymbolOffsets
      <3> QED
        BY <2>2, <3>1, <3>2, EmptyFollowed
    <2> QED
      BY <2>7, <2>8
  <1>4. CASE AtEpsilons(p, w)
    <2> DEFINE r == Run(wtransition_table, FirstEntry(p), {y})
               tt == wtransition_table
    <2>1. p.index = EpsilonAddress(s) /\ 0 \in StateOffsets(s)
      BY <1>4 DEF AtEpsilons
    <2>2. IndexesTransitionTable(p.index) /\ TableAddress(p.index) = First[s]
          /\ At(tt, p.index).input \in {0} \cup flag_symbols
      BY <2>1, EpsilonAddressFacts
    <2>3. FirstEntry(p) = p.index
      BY <1>1, <2>2 DEF FirstEntry
    <2>4. TryInput(p, y) = FollowAll(p, r)
      BY <2>2 DEF TryInput, TryTransitions
    <2>5. Extract(Run(tt, p.index, {y}), tt, First[s], 0, NumberedArc)
      <3> DEFINE S == {y}
      <3>1. /\ tt \in Seq(NumberedArc) /\ Len(tt) <= TRANSITION_TARGET_TABLE_START
            /\ First[s] \in Nat /\ First[s] + 0 < Len(tt)
        <4>1. /\ First[s] + Len(placeholders[s]) < Len(tt) /\ tt \in Seq(NumberedArc)
              /\ First[s] \in Nat /\ Len(placeholders[s]) \in Nat
          BY TransitionTableFacts, FirstFacts
        <4>2. Len(tt) \in Nat
          BY <4>1
        <4>3. First[s] + 0 < Len(tt)
          BY <4>1, <4>2
        <4> QED
          BY <4>1, <4>3 DEF Addressable
      <3>2. RunIs(tt, First[s], 0, S)
        <4>1. tt[First[s] + 0 + 1] = At(tt, p.index)
          BY <2>2, <3>1 DEF At
        <4> QED
          BY <1>1, <2>2, <4>1 DEF RunIs
      <3> HIDE DEF S, tt
      <3>3. Extract(Run(tt, p.index, S), tt, First[s], 0, NumberedArc)
        BY <2>2, <3>1, <3>2, RunRead
      <3> QED
        BY <3>3 DEF S
    <2>6. r \in Seq(NumberedArc) /\ Len(r) = 0
      BY <2>3, <2>5 DEF Extract
    <2>7. DOMAIN r = 1 .. 0
      BY <2>6
    <2>8. IsList(TryInput(p, y)) /\ ToSet(TryInput(p, y)) = {}
      <3> DEFINE ss == [k \in DOMAIN r |-> FollowTransition(p, r[k])]
      <3>1. ss \in Seq({}) /\ DOMAIN ss = {} /\ Len(ss) = 0
        <4>1. ss \in [1 .. 0 -> {}]
          BY <2>7
        <4> HIDE DEF ss
        <4> QED
          BY <4>1
      <3> HIDE DEF ss
      <3>2. FlattenSeq(ss) = ss
        BY <3>1 DEF FlattenSeq
      <3>3. TryInput(p, y) = ss
        BY <2>4, <3>2 DEF FollowAll, ss
      <3>4. ToSet(ss) = {}
        BY <3>1 DEF ToSet
      <3> QED
        BY <3>1, <3>3, <3>4, ListOf
    <2>9. AtState(p, w) => SimpleState(s)
      <3>1. SUFFICES ASSUME AtState(p, w), ~ SimpleState(s) PROVE FALSE
        OBVIOUS
      <3>2. ~ IndexesTransitionTable(p.index)
        BY <3>1, IndexAddress DEF AtState
      <3> QED
        BY <2>2, <3>2
    <2> QED
      BY <1>4, <2>8, <2>9 DEF AtEpsilons
  <1> QED
    BY <1>2, <1>3, <1>4
-----------------------------------------------------------------------------
(* Ways.                                                                    *)

LEMMA UpTo ==
    ASSUME NEW n \in Nat, NEW K, 0 \in K, \A j \in 1 .. n : j - 1 \in K => j \in K
    PROVE  \A j \in 0 .. n : j \in K
  <1> DEFINE bad == {j \in 0 .. n : j \notin K}
  <1>1. SUFFICES ASSUME bad # {} PROVE FALSE
    OBVIOUS
  <1>2. PICK m \in bad : \A j \in bad : m <= j
    <2>1. bad \subseteq Nat
      OBVIOUS
    <2> HIDE DEF bad
    <2> QED
      BY <1>1, <2>1, LeastNumber
  <1>3. m \in 0 .. n /\ m \notin K /\ m # 0
    BY <1>2
  <1>4. m \in 1 .. n /\ m - 1 \in 0 .. n /\ ~ (m <= m - 1)
    BY <1>3
  <1>5. m - 1 \in K
    BY <1>2, <1>4
  <1> QED
    BY <1>3, <1>4, <1>5

\* Reads, for any input c.
ReadsIn(c, w, arc) ==
    IF Silent(arc.input)
      THEN arc.input = 0 \/ Allowed(w.flags, OperationOf(arc.input))
      ELSE w.pos < Len(c) /\ arc.input \in {c[w.pos + 1], AltInput(c[w.pos + 1])}

\* A transition leads from way v to way w.
Goes(c, v, w) ==
    \E k \in DOMAIN placeholders[v.s] :
      ReadsIn(c, v, placeholders[v.s][k]) /\ w = Extended(v, placeholders[v.s][k])

\* The ways that the transitions of a way lead through, from the start.
Trail(c, n, f) == f[0] = FirstWay /\ \A j \in 1 .. n : Goes(c, f[j - 1], f[j])

\* w is the way through n transitions ...
TrailTo(c, n, w) == \E f : Trail(c, n, f) /\ f[n] = w

\* ... and a way that reads the input c up to its position.
IsWay(c, w) == \E n \in Nat : TrailTo(c, n, w)

LEMMA WayFirst ==
    ASSUME NEW c
    PROVE  IsWay(c, FirstWay)
  <1> DEFINE f == [k \in 0 .. 0 |-> FirstWay]
  <1>1. f[0] = FirstWay
    OBVIOUS
  <1> HIDE DEF f
  <1>2. Trail(c, 0, f)
    BY <1>1 DEF Trail
  <1> QED
    BY <1>1, <1>2 DEF IsWay, TrailTo

LEMMA TrailExtends ==
    ASSUME NEW c, NEW n \in Nat, NEW v, TrailTo(c, n, v), NEW w, Goes(c, v, w)
    PROVE  TrailTo(c, n + 1, w)
  <1>0. PICK f : Trail(c, n, f) /\ f[n] = v
    BY DEF TrailTo
  <1> DEFINE m == n + 1
             g == [k \in 0 .. m |-> IF k = m THEN w ELSE f[k]]
  <1>1. m \in Nat /\ m # 0 /\ 0 \in 0 .. m /\ m \in 0 .. m /\ n \in 0 .. m /\ n # m /\ m - 1 = n
    OBVIOUS
  <1>2. \A j \in 1 .. m : j # m => j \in 1 .. n /\ j \in 0 .. m /\ j - 1 \in 0 .. m /\ j - 1 # m
    OBVIOUS
  <1> HIDE DEF m
  <1>3. g[0] = f[0] /\ g[m] = w /\ g[n] = f[n]
    BY <1>1
  <1>4. \A j \in 1 .. m : j # m => g[j] = f[j] /\ g[j - 1] = f[j - 1]
    BY <1>2
  <1> HIDE DEF g
  <1>5. \A j \in 1 .. m : Goes(c, g[j - 1], g[j])
    <2> SUFFICES ASSUME NEW j \in 1 .. m PROVE Goes(c, g[j - 1], g[j])
      OBVIOUS
    <2>1. CASE j = m
      BY <1>0, <1>1, <1>3, <2>1
    <2>2. CASE j # m
      BY <1>0, <1>2, <1>4, <2>2 DEF Trail
    <2> QED
      BY <2>1, <2>2
  <1>6. Trail(c, m, g)
    BY <1>0, <1>3, <1>5 DEF Trail
  <1>7. TrailTo(c, m, w)
    BY <1>3, <1>6 DEF TrailTo
  <1> QED
    BY <1>7 DEF m

LEMMA WayExtends ==
    ASSUME NEW c, NEW v, NEW w, IsWay(c, v), Goes(c, v, w)
    PROVE  IsWay(c, w)
  <1>1. PICK n \in Nat : TrailTo(c, n, v)
    BY DEF IsWay, TrailTo
  <1>2. TrailTo(c, n + 1, w)
    BY <1>1, TrailExtends
  <1>3. n + 1 \in Nat
    OBVIOUS
  <1> QED
    BY <1>2, <1>3 DEF IsWay, TrailTo

(* Every way on a trail is one. *)
LEMMA TrailWays ==
    ASSUME NEW c, NEW n \in Nat, NEW f, Trail(c, n, f)
    PROVE  \A j \in 0 .. n : IsWay(c, f[j])
  <1> SUFFICES ASSUME NEW j \in 0 .. n PROVE IsWay(c, f[j])
    OBVIOUS
  <1>1. j \in Nat /\ \A k \in 1 .. j : k \in 1 .. n
    OBVIOUS
  <1>2. Trail(c, j, f)
    BY <1>1 DEF Trail
  <1> QED
    BY <1>1, <1>2 DEF IsWay, TrailTo

\* What every way has.
WayOK(c, w) == w.s \in States(graph) /\ w.pos \in Nat /\ w.pos <= Len(c)

LEMMA WayGoes ==
    ASSUME WrittenInv, pc = "done", NEW c, Len(c) \in Nat, NEW v, NEW w, WayOK(c, v), Goes(c, v, w)
    PROVE  WayOK(c, w) /\ v.pos <= w.pos /\ w.pos \in {v.pos, v.pos + 1}
  <1>1. PICK k \in DOMAIN placeholders[v.s] :
          ReadsIn(c, v, placeholders[v.s][k]) /\ w = Extended(v, placeholders[v.s][k])
    BY DEF Goes
  <1> DEFINE arc == placeholders[v.s][k]
  <1>2. arc.target \in States(graph)
    BY AtTheEnd DEF WayOK
  <1> HIDE DEF arc
  <1>3. w.s = arc.target /\ w.pos = IF Silent(arc.input) THEN v.pos ELSE v.pos + 1
    BY <1>1 DEF Extended, arc
  <1>4. ~ Silent(arc.input) => v.pos < Len(c)
    BY <1>1 DEF ReadsIn, arc
  <1>5. v.pos \in Nat /\ v.pos <= Len(c)
    BY DEF WayOK
  <1>6. w.pos \in Nat /\ w.pos <= Len(c) /\ v.pos <= w.pos /\ w.pos \in {v.pos, v.pos + 1}
    BY <1>3, <1>4, <1>5
  <1> QED
    BY <1>2, <1>3, <1>6 DEF WayOK

LEMMA WayType ==
    ASSUME WrittenInv, pc = "done", NEW c, Len(c) \in Nat, NEW w, IsWay(c, w)
    PROVE  WayOK(c, w)
  <1>0. PICK n \in Nat : TrailTo(c, n, w)
    BY DEF IsWay
  <1>1. PICK f : Trail(c, n, f) /\ f[n] = w
    BY <1>0 DEF TrailTo
  <1> DEFINE K == {j \in 0 .. n : WayOK(c, f[j])}
  <1>2. 0 \in K
    <2>1. 0 \in States(graph)
      BY AtTheEnd
    <2>2. WayOK(c, FirstWay)
      BY <2>1 DEF WayOK, FirstWay
    <2> QED
      BY <1>1, <2>2 DEF Trail
  <1>3. ASSUME NEW j \in 1 .. n, j - 1 \in K
        PROVE  j \in K
    <2>1. WayOK(c, f[j - 1]) /\ Goes(c, f[j - 1], f[j])
      BY <1>1, <1>3 DEF Trail
    <2>2. WayOK(c, f[j])
      BY <2>1, WayGoes
    <2> QED
      BY <2>2
  <1> HIDE DEF K
  <1>4. \A j \in 0 .. n : j \in K
    BY <1>2, <1>3, UpTo
  <1>5. n \in 0 .. n
    OBVIOUS
  <1>6. n \in K
    BY <1>4, <1>5
  <1> QED
    BY <1>1, <1>6 DEF K

(* A symbol more does not matter before it is read. *)
LEMMA LongerInput ==
    ASSUME NEW c, c \in Seq(Nat), NEW x \in Nat
    PROVE  /\ Append(c, x) \in Seq(Nat) /\ Len(c) \in Nat /\ Len(Append(c, x)) = Len(c) + 1
           /\ Append(c, x)[Len(c) + 1] = x /\ c # Append(c, x) /\ Append(c, x) # << >>
           /\ \A j \in Nat : j < Len(c) => Append(c, x)[j + 1] = c[j + 1]
  <1>1. Append(c, x) \in Seq(Nat) /\ Len(c) \in Nat /\ Len(Append(c, x)) = Len(c) + 1
        /\ Append(c, x)[Len(c) + 1] = x
    OBVIOUS
  <1>2. ASSUME NEW j \in Nat, j < Len(c)
        PROVE  Append(c, x)[j + 1] = c[j + 1]
    <2>1. j + 1 \in 1 .. Len(c)
      BY <1>1, <1>2
    <2> QED
      BY <2>1
  <1>3. Len(Append(c, x)) # Len(c) /\ Len(Append(c, x)) # 0
    BY <1>1
  <1>4. c # Append(c, x) /\ Append(c, x) # << >>
    BY <1>3
  <1> QED
    BY <1>1, <1>2, <1>4

LEMMA GoesLonger ==
    ASSUME NEW c, c \in Seq(Nat), NEW x \in Nat, NEW v, v.pos \in Nat, NEW w
    PROVE  /\ Goes(c, v, w) => Goes(Append(c, x), v, w)
           /\ Goes(Append(c, x), v, w) /\ w.pos \in Nat /\ w.pos <= Len(c) => Goes(c, v, w)
  <1> DEFINE d == Append(c, x)
  <1>1. Len(c) \in Nat /\ Len(d) = Len(c) + 1 /\ \A j \in Nat : j < Len(c) => d[j + 1] = c[j + 1]
    BY LongerInput
  <1> HIDE DEF d
  <1>2. v.pos < Len(c) => v.pos < Len(d) /\ d[v.pos + 1] = c[v.pos + 1]
    BY <1>1
  <1>3. ASSUME Goes(c, v, w)
        PROVE  Goes(d, v, w)
    BY <1>2, <1>3 DEF Goes, ReadsIn
  <1>4. ASSUME Goes(d, v, w), w.pos \in Nat, w.pos <= Len(c)
        PROVE  Goes(c, v, w)
    <2>1. PICK k \in DOMAIN placeholders[v.s] :
            ReadsIn(d, v, placeholders[v.s][k]) /\ w = Extended(v, placeholders[v.s][k])
      BY <1>4 DEF Goes
    <2> DEFINE arc == placeholders[v.s][k]
    <2> HIDE DEF arc
    <2>2. ~ Silent(arc.input) => v.pos < Len(c)
      <3>1. ~ Silent(arc.input) => w.pos = v.pos + 1
        BY <2>1 DEF Extended, arc
      <3> QED
        BY <1>1, <1>4, <3>1
    <2>3. ReadsIn(c, v, arc)
      BY <1>2, <2>1, <2>2 DEF ReadsIn, arc
    <2> QED
      BY <2>1, <2>3 DEF Goes, arc
  <1> QED
    BY <1>3, <1>4 DEF d

LEMMA WayLonger ==
    ASSUME WrittenInv, pc = "done", NEW c, c \in Seq(Nat), NEW x \in Nat, NEW w
    PROVE  /\ IsWay(c, w) => IsWay(Append(c, x), w)
           /\ IsWay(Append(c, x), w) /\ w.pos <= Len(c) => IsWay(c, w)
  <1> DEFINE d == Append(c, x)
  <1>1. Len(c) \in Nat /\ Len(d) \in Nat
    BY LongerInput
  <1> HIDE DEF d
  <1>2. ASSUME IsWay(c, w)
        PROVE  IsWay(d, w)
    <2>0. PICK n \in Nat : TrailTo(c, n, w)
      BY <1>2 DEF IsWay
    <2>1. PICK f : Trail(c, n, f) /\ f[n] = w
      BY <2>0 DEF TrailTo
    <2> DEFINE K == {j \in 0 .. n : IsWay(d, f[j])}
    <2>2. 0 \in K
      BY <2>1, WayFirst DEF Trail
    <2>3. ASSUME NEW j \in 1 .. n, j - 1 \in K
          PROVE  j \in K
      <3>1. IsWay(d, f[j - 1]) /\ Goes(c, f[j - 1], f[j]) /\ j - 1 \in 0 .. n
        BY <2>1, <2>3 DEF Trail
      <3>2. f[j - 1].pos \in Nat
        BY <1>1, <3>1, WayType DEF WayOK
      <3>3. Goes(d, f[j - 1], f[j])
        BY <3>1, <3>2, GoesLonger DEF d
      <3>4. IsWay(d, f[j])
        BY <3>1, <3>3, WayExtends
      <3> QED
        BY <3>4
    <2> HIDE DEF K
    <2>4. \A j \in 0 .. n : j \in K
      BY <2>2, <2>3, UpTo
    <2>5. n \in K
      BY <2>4
    <2> QED
      BY <2>1, <2>5 DEF K
  <1>3. ASSUME IsWay(d, w), w.pos <= Len(c)
        PROVE  IsWay(c, w)
    <2>0. PICK n \in Nat : TrailTo(d, n, w)
      BY <1>3 DEF IsWay
    <2>1. PICK f : Trail(d, n, f) /\ f[n] = w
      BY <2>0 DEF TrailTo
    <2> DEFINE K == {j \in 0 .. n : f[j].pos <= Len(c) => IsWay(c, f[j])}
    <2>2. 0 \in K
      BY <2>1, WayFirst DEF Trail
    <2>3. ASSUME NEW j \in 1 .. n, j - 1 \in K
          PROVE  j \in K
      <3>1. Goes(d, f[j - 1], f[j]) /\ j - 1 \in 0 .. n
        BY <2>1 DEF Trail
      <3>2. IsWay(d, f[j - 1])
        BY <2>1, <3>1, TrailWays
      <3>3. WayOK(d, f[j - 1])
        BY <1>1, <3>2, WayType
      <3>4. WayOK(d, f[j]) /\ f[j - 1].pos <= f[j].pos
        BY <1>1, <3>1, <3>3, WayGoes
      <3>5. ASSUME f[j].pos <= Len(c)
            PROVE  IsWay(c, f[j])
        <4>1. f[j - 1].pos \in Nat /\ f[j].pos \in Nat
          BY <3>3, <3>4 DEF WayOK
        <4>2. f[j - 1].pos <= Len(c)
          BY <1>1, <3>4, <3>5, <4>1
        <4>3. IsWay(c, f[j - 1])
          BY <2>3, <4>2
        <4>4. Goes(c, f[j - 1], f[j])
          BY <3>1, <3>5, <4>1, GoesLonger DEF d
        <4> QED
          BY <4>3, <4>4, WayExtends
      <3> QED
        BY <3>5
    <2> HIDE DEF K
    <2>4. \A j \in 0 .. n : j \in K
      BY <2>2, <2>3, UpTo
    <2>5. n \in K
      BY <2>4
    <2> QED
      BY <1>3, <2>1, <2>5 DEF K
  <1> QED
    BY <1>2, <1>3 DEF d
-----------------------------------------------------------------------------
(* The paths of the search, P, after the input c, when the epsilons of the  *)
(* first n of them have been followed.                                      *)

StandsFor(p, w) == AtState(p, w) \/ AtEpsilons(p, w)

\* The paths stand for ways that read the input ...
OnlyWays(P, c) == \A p \in P : \E w : IsWay(c, w) /\ w.pos = Len(c) /\ StandsFor(p, w)

\* ... and every way that has just read the last symbol is among them ...
Entered(P, c) ==
    /\ c = << >> => \E p \in P : AtState(p, FirstWay)
    /\ \A v : IsWay(c, v) /\ v.pos + 1 = Len(c) =>
         \A k \in DOMAIN placeholders[v.s] :
           ~ Silent(placeholders[v.s][k].input) /\ ReadsIn(c, v, placeholders[v.s][k]) =>
             \E p \in P : AtState(p, Extended(v, placeholders[v.s][k]))

\* ... and so is what follows a path by transitions that read nothing.
Processed(P, p) ==
    \A w : w.s \in States(graph) =>
      /\ AtState(p, w) /\ ~ SimpleState(w.s) /\ 0 \in StateOffsets(w.s) => \E q \in P : AtEpsilons(q, w)
      /\ (AtState(p, w) /\ SimpleState(w.s)) \/ AtEpsilons(p, w) =>
           \A k \in DOMAIN placeholders[w.s] :
             Silent(placeholders[w.s][k].input) /\ MayFollow(w, placeholders[w.s][k]) =>
               \E q \in P : AtState(q, Extended(w, placeholders[w.s][k]))

PathsAre(P, c, n) ==
    /\ IsList(P)
    /\ OnlyWays(ToSet(P), c)
    /\ Entered(ToSet(P), c)
    /\ n \in 0 .. Len(P)
    /\ \A k \in 1 .. n : Processed(ToSet(P), P[k])

(* A silent transition is read when its flag diacritic allows it. *)
LEMMA SilentRead ==
    ASSUME WrittenInv, pc = "done", NEW c, NEW w, w.s \in States(graph),
           NEW k \in DOMAIN placeholders[w.s], Silent(placeholders[w.s][k].input)
    PROVE  /\ ReadsIn(c, w, placeholders[w.s][k]) <=> MayFollow(w, placeholders[w.s][k])
           /\ 0 \in StateOffsets(w.s)
           /\ k \in WithSymbols(w.s, Silents)
           /\ Extended(w, placeholders[w.s][k]).pos = w.pos
  <1> DEFINE arc == placeholders[w.s][k]
  <1>1. 0 \notin FlagSymbols /\ arc.input \in {0} \cup flag_symbols
    BY SilentInputs
  <1>2. arc.input \in Silents
    BY DEF Silents, Silent
  <1>3. 0 \in StateOffsets(w.s)
    <2>1. IndexOffset(arc.input, flag_symbols) = 0
      BY <1>1 DEF IndexOffset
    <2>2. arc.input \in Inputs(placeholders[w.s])
      BY DEF Inputs
    <2> QED
      BY <2>1, <2>2 DEF StateOffsets, Offsets
  <1>4. ReadsIn(c, w, arc) <=> MayFollow(w, arc)
    <2> HIDE DEF arc
    <2>1. Silent(arc.input)
      BY DEF arc
    <2> QED
      BY <1>1, <2>1 DEF ReadsIn, MayFollow, Silent
  <1>5. Extended(w, arc).pos = w.pos
    BY DEF Extended
  <1> QED
    BY <1>2, <1>3, <1>4, <1>5 DEF WithSymbols

(* When all epsilons have been followed no way is missing. *)
LEMMA AllEntered ==
    ASSUME WrittenInv, pc = "done", NEW P, NEW c, Len(c) \in Nat, PathsAre(P, c, Len(P)),
           Len(c) = 0 => c = << >>,
           NEW w, IsWay(c, w), w.pos = Len(c)
    PROVE  \E p \in ToSet(P) : AtState(p, w)
  <1> DEFINE S == ToSet(P)
             Reached(v) == \E p \in S : AtState(p, v)
  <1>0. PICK n \in Nat : TrailTo(c, n, w)
    BY DEF IsWay
  <1>1. PICK f : Trail(c, n, f) /\ f[n] = w
    BY <1>0 DEF TrailTo
  <1>2. \A p \in S : Processed(S, p)
    <2>1. S = {P[k] : k \in 1 .. Len(P)} /\ \A k \in 1 .. Len(P) : Processed(S, P[k])
      <3>1. DOMAIN P = 1 .. Len(P)
        BY DEF PathsAre, IsList
      <3> QED
        BY <3>1 DEF PathsAre, ToSet
    <2> HIDE DEF S
    <2> QED
      BY <2>1
  <1>3. Entered(S, c)
    BY DEF PathsAre
  <1> DEFINE K == {j \in 0 .. n : f[j].pos = Len(c) => Reached(f[j])}
  <1> HIDE DEF S, Reached
  <1>4. 0 \in K
    <2>1. f[0] = FirstWay /\ FirstWay.pos = 0
      BY <1>1 DEF Trail, FirstWay
    <2>2. 0 = Len(c) => Reached(FirstWay)
      BY <1>3 DEF Entered, Reached
    <2> QED
      BY <2>1, <2>2
  <1>5. ASSUME NEW j \in 1 .. n, j - 1 \in K
        PROVE  j \in K
    <2> DEFINE v == f[j - 1]
               u == f[j]
    <2>1. Goes(c, v, u) /\ j - 1 \in 0 .. n
      BY <1>1 DEF Trail
    <2>2. IsWay(c, v) /\ WayOK(c, v)
      BY <1>1, <2>1, TrailWays, WayType
    <2>3. v.pos = Len(c) => Reached(v)
      BY <1>5
    <2> HIDE DEF v, u
    <2>4. PICK k \in DOMAIN placeholders[v.s] :
            ReadsIn(c, v, placeholders[v.s][k]) /\ u = Extended(v, placeholders[v.s][k])
      BY <2>1 DEF Goes
    <2> DEFINE arc == placeholders[v.s][k]
    <2>5. ASSUME u.pos = Len(c)
          PROVE  Reached(u)
      <3>1. CASE Silent(arc.input)
        <4>1. /\ ReadsIn(c, v, arc) <=> MayFollow(v, arc)
              /\ 0 \in StateOffsets(v.s) /\ Extended(v, arc).pos = v.pos
          BY <2>2, <3>1, SilentRead DEF WayOK
        <4>2. MayFollow(v, arc) /\ v.s \in States(graph)
          BY <2>2, <2>4, <4>1 DEF WayOK
        <4>3. PICK p \in S : AtState(p, v)
          BY <2>3, <2>4, <2>5, <4>1 DEF Reached
        <4>4. \E q \in S : (AtState(q, v) /\ SimpleState(v.s)) \/ AtEpsilons(q, v)
          BY <1>2, <4>1, <4>2, <4>3 DEF Processed
        <4>5. \E q \in S : AtState(q, Extended(v, arc))
          BY <1>2, <3>1, <4>2, <4>4 DEF Processed
        <4> QED
          BY <2>4, <4>5 DEF Reached
      <3>2. CASE ~ Silent(arc.input)
        <4>1. u.pos = v.pos + 1
          BY <2>4, <3>2 DEF Extended
        <4>2. \E q \in S : AtState(q, Extended(v, arc))
          BY <1>3, <2>2, <2>4, <2>5, <3>2, <4>1 DEF Entered
        <4> QED
          BY <2>4, <4>2 DEF Reached
      <3> QED
        BY <3>1, <3>2
    <2> QED
      BY <2>5 DEF u
  <1> HIDE DEF K
  <1>6. \A j \in 0 .. n : j \in K
    BY <1>4, <1>5, UpTo
  <1>7. n \in K
    BY <1>6
  <1> QED
    BY <1>1, <1>7 DEF K, Reached, S

(* The search begins with the first way. *)
LEMMA ResetPaths ==
    ASSUME WrittenInv, RootInv, pc = "done"
    PROVE  PathsAre(<< InitialPath >>, << >>, 0)
  <1> DEFINE P == << InitialPath >>
  <1>1. IsList(P) /\ ToSet(P) = {InitialPath} /\ 0 \in 0 .. Len(P)
    BY DEF IsList, ToSet
  <1>2. ~ SimpleState(0)
    BY DEF SimpleState, IsSimple
  <1>3. StateAddress(0) = 0
    <2>1. it = graph.size /\ graph.size \in Nat \ {0}
      BY AtTheEnd DEF WrittenInv
    <2>2. start_index[0] = 0
      BY <2>1 DEF RootInv
    <2> QED
      BY <1>2, <2>2 DEF StateAddress
  <1>4. AtState(InitialPath, FirstWay)
    BY <1>3 DEF AtState, Same, IsPath, InitialPath, FirstWay
  <1>5. IsWay(<< >>, FirstWay) /\ FirstWay.pos = Len(<< >>)
    BY WayFirst DEF FirstWay
  <1>6. OnlyWays({InitialPath}, << >>)
    BY <1>4, <1>5 DEF OnlyWays, StandsFor
  <1>7. Entered({InitialPath}, << >>)
    <2>1. ASSUME NEW v, IsWay(<< >>, v)
          PROVE  v.pos + 1 # Len(<< >>)
      <3>1. Len(<< >>) = 0
        OBVIOUS
      <3>2. v.pos \in Nat
        BY <2>1, <3>1, WayType DEF WayOK
      <3> QED
        BY <3>1, <3>2
    <2> QED
      BY <1>4, <2>1 DEF Entered
  <1>8. \A k \in 1 .. 0 : Processed(ToSet(P), P[k])
    OBVIOUS
  <1> HIDE DEF P
  <1>9. PathsAre(P, << >>, 0)
    BY <1>1, <1>6, <1>7, <1>8 DEF PathsAre
  <1> QED
    BY <1>9 DEF P

\* q is p followed along a transition k of the state of w with a symbol in S.
Follows(q, w, S) ==
    \E k \in WithSymbols(w.s, S) :
      /\ MayFollow(w, placeholders[w.s][k])
      /\ AtState(q, Extended(w, placeholders[w.s][k]))

(* What following a path leads to, in terms of its way. *)
LEMMA FollowedWays ==
    ASSUME NEW p, NEW w, Same(p, w), NEW S
    PROVE  /\ \A q \in Followed(p, w.s, S) : Follows(q, w, S)
           /\ \A k \in WithSymbols(w.s, S) : MayFollow(w, placeholders[w.s][k]) =>
                \E q \in Followed(p, w.s, S) : AtState(q, Extended(w, placeholders[w.s][k]))
  <1> DEFINE next(k) == ToSet(FollowTransition(p, TransitionEntry(placeholders[w.s][k])))
  <1>1. Followed(p, w.s, S) = UNION {next(k) : k \in WithSymbols(w.s, S)}
    BY DEF Followed
  <1>2. \A k : /\ \A q \in next(k) : MayFollow(w, placeholders[w.s][k])
                                      /\ AtState(q, Extended(w, placeholders[w.s][k]))
               /\ MayFollow(w, placeholders[w.s][k]) =>
                    \E q \in next(k) : AtState(q, Extended(w, placeholders[w.s][k]))
    BY FollowExtends
  <1> HIDE DEF next
  <1> QED
    BY <1>1, <1>2 DEF Follows

(* One path more whose epsilons are followed. *)
LEMMA EpsilonsFollowed ==
    ASSUME WrittenInv, pc = "done", Addressable,
           NEW P, NEW c, NEW n, PathsAre(P, c, n), n + 1 <= Len(P), Len(c) \in Nat
    PROVE  PathsAre(P \o EpsilonPaths(P[n + 1]), c, n + 1)
  <1> DEFINE p == P[n + 1]
             E == EpsilonPaths(p)
             S == ToSet(P)
             T == ToSet(E)
  <1>1. /\ IsList(P) /\ OnlyWays(S, c) /\ Entered(S, c) /\ n \in 0 .. Len(P)
        /\ \A k \in 1 .. n : Processed(S, P[k])
    BY DEF PathsAre
  <1>2. Len(P) \in Nat /\ DOMAIN P = 1 .. Len(P)
    BY <1>1 DEF IsList
  <1>3. n + 1 \in 1 .. Len(P) /\ n + 1 \in Nat /\ n \in Nat
    BY <1>1, <1>2
  <1>4. p \in S
    BY <1>2, <1>3 DEF ToSet
  <1> HIDE DEF p, S
  <1>5. PICK w : IsWay(c, w) /\ w.pos = Len(c) /\ StandsFor(p, w)
    BY <1>1, <1>4 DEF OnlyWays
  <1>6. w.s \in States(graph) /\ Same(p, w)
    BY <1>5, WayType DEF WayOK, StandsFor, AtState, AtEpsilons
  <1>7. ASSUME NEW v, v.s \in States(graph), Same(p, v)
        PROVE  /\ (AtState(p, v) /\ SimpleState(v.s)) \/ AtEpsilons(p, v) =>
                    IsList(E) /\ T = Followed(p, v.s, Silents)
               /\ AtState(p, v) /\ ~ SimpleState(v.s) /\ 0 \in StateOffsets(v.s) =>
                    IsList(E) /\ \E q : T = {q} /\ AtEpsilons(q, v)
               /\ AtState(p, v) /\ ~ SimpleState(v.s) /\ 0 \notin StateOffsets(v.s) =>
                    IsList(E) /\ T = {}
    <2>1. \A q : IsList(<< q >>) /\ ToSet(<< q >>) = {q}
      BY DEF IsList, ToSet
    <2>2. IsList(<< >>) /\ ToSet(<< >>) = {}
      BY DEF IsList, ToSet
    <2>3. /\ (AtState(p, v) /\ SimpleState(v.s)) \/ AtEpsilons(p, v) =>
               IsList(E) /\ T = Followed(p, v.s, Silents)
          /\ AtState(p, v) /\ ~ SimpleState(v.s) /\ 0 \in StateOffsets(v.s) =>
               \E q : E = << q >> /\ AtEpsilons(q, v)
          /\ AtState(p, v) /\ ~ SimpleState(v.s) /\ 0 \notin StateOffsets(v.s) => E = << >>
      BY <1>7, EpsilonsRead
    <2> HIDE DEF E
    <2> QED
      BY <2>1, <2>2, <2>3
  <1>8. IsList(E) /\ \A q \in T : \E v : IsWay(c, v) /\ v.pos = Len(c) /\ StandsFor(q, v)
    <2> HIDE DEF E, T
    <2>1. CASE (AtState(p, w) /\ SimpleState(w.s)) \/ AtEpsilons(p, w)
      <3>1. IsList(E) /\ T = Followed(p, w.s, Silents)
        BY <1>6, <1>7, <2>1
      <3>2. ASSUME NEW q \in T
            PROVE  \E v : IsWay(c, v) /\ v.pos = Len(c) /\ StandsFor(q, v)
        <4>1. PICK k \in WithSymbols(w.s, Silents) :
                /\ MayFollow(w, placeholders[w.s][k])
                /\ AtState(q, Extended(w, placeholders[w.s][k]))
          BY <1>6, <3>1, <3>2, FollowedWays DEF Follows
        <4>2. k \in DOMAIN placeholders[w.s] /\ Silent(placeholders[w.s][k].input)
          BY <4>1 DEF WithSymbols, Silents, Silent
        <4>3. ReadsIn(c, w, placeholders[w.s][k]) /\ Extended(w, placeholders[w.s][k]).pos = w.pos
          BY <1>6, <4>1, <4>2, SilentRead
        <4>4. Goes(c, w, Extended(w, placeholders[w.s][k]))
          BY <4>2, <4>3 DEF Goes
        <4>5. IsWay(c, Extended(w, placeholders[w.s][k]))
          BY <1>5, <4>4, WayExtends
        <4> QED
          BY <1>5, <4>1, <4>3, <4>5 DEF StandsFor
      <3> QED
        BY <3>1, <3>2
    <2>2. CASE AtState(p, w) /\ ~ SimpleState(w.s) /\ 0 \in StateOffsets(w.s)
      BY <1>5, <1>6, <1>7, <2>2 DEF StandsFor
    <2>3. CASE AtState(p, w) /\ ~ SimpleState(w.s) /\ 0 \notin StateOffsets(w.s)
      BY <1>5, <1>6, <1>7, <2>3 DEF StandsFor
    <2> QED
      BY <1>5, <2>1, <2>2, <2>3 DEF StandsFor
  <1>9. Processed(S \cup T, p)
    <2> SUFFICES ASSUME NEW v, v.s \in States(graph), Same(p, v)
                 PROVE  /\ AtState(p, v) /\ ~ SimpleState(v.s) /\ 0 \in StateOffsets(v.s) =>
                             \E q \in S \cup T : AtEpsilons(q, v)
                        /\ (AtState(p, v) /\ SimpleState(v.s)) \/ AtEpsilons(p, v) =>
                             \A k \in DOMAIN placeholders[v.s] :
                               Silent(placeholders[v.s][k].input) /\ MayFollow(v, placeholders[v.s][k]) =>
                                 \E q \in S \cup T : AtState(q, Extended(v, placeholders[v.s][k]))
      BY DEF Processed, AtState, AtEpsilons
    <2> HIDE DEF E, T
    <2>1. AtState(p, v) /\ ~ SimpleState(v.s) /\ 0 \in StateOffsets(v.s) =>
            \E q \in S \cup T : AtEpsilons(q, v)
      BY <1>7
    <2>2. ASSUME (AtState(p, v) /\ SimpleState(v.s)) \/ AtEpsilons(p, v),
                 NEW k \in DOMAIN placeholders[v.s],
                 Silent(placeholders[v.s][k].input), MayFollow(v, placeholders[v.s][k])
          PROVE  \E q \in S \cup T : AtState(q, Extended(v, placeholders[v.s][k]))
      <3>1. T = Followed(p, v.s, Silents)
        BY <1>7, <2>2
      <3>2. k \in WithSymbols(v.s, Silents)
        BY <2>2 DEF WithSymbols, Silents, Silent
      <3>3. \E q \in T : AtState(q, Extended(v, placeholders[v.s][k]))
        BY <2>2, <3>1, <3>2, FollowedWays
      <3> QED
        BY <3>3
    <2> QED
      BY <2>1, <2>2
  <1> DEFINE R == P \o E
  <1> HIDE DEF E, T
  <1>10. /\ IsList(R) /\ ToSet(R) = S \cup T /\ Len(R) = Len(P) + Len(E)
         /\ Len(E) \in Nat /\ \A k \in 1 .. Len(P) : R[k] = P[k]
    BY <1>1, <1>8, ListConcatenated DEF S, T
  <1> HIDE DEF R
  <1>11. n + 1 \in 0 .. Len(R)
    BY <1>2, <1>3, <1>10
  <1>12. OnlyWays(S \cup T, c) /\ Entered(S \cup T, c)
    <2>1. OnlyWays(S \cup T, c)
      BY <1>1, <1>8 DEF OnlyWays
    <2>2. Entered(S \cup T, c)
      BY <1>1 DEF Entered
    <2> QED
      BY <2>1, <2>2
  <1>13. ASSUME NEW k \in 1 .. n + 1
         PROVE  Processed(S \cup T, R[k])
    <2>1. k \in 1 .. Len(P) /\ R[k] = P[k]
      BY <1>2, <1>3, <1>10
    <2>2. CASE k = n + 1
      BY <1>9, <2>1, <2>2 DEF p
    <2>3. CASE k # n + 1
      <3>1. k \in 1 .. n
        BY <1>3, <2>3
      <3>2. Processed(S, R[k])
        BY <1>1, <2>1, <3>1
      <3> QED
        BY <3>2 DEF Processed
    <2> QED
      BY <2>2, <2>3
  <1>14. PathsAre(R, c, n + 1)
    BY <1>10, <1>11, <1>12, <1>13 DEF PathsAre
  <1> QED
    BY <1>14 DEF R, E, p
-----------------------------------------------------------------------------
(* The other case of a letter.                                              *)

LEMMA AlphabetExtends ==
    ASSUME WrittenInv, pc = "done"
    PROVE  /\ DOMAIN Alphabet = 1 .. Len(Alphabet) /\ Len(Alphabet) \in Nat
           /\ Len(symbol_table) \in Nat /\ Len(symbol_table) >= 1
           /\ Len(symbol_table) <= Len(Alphabet)
           /\ \A j \in 1 .. Len(symbol_table) : Alphabet[j] = symbol_table[j]
           /\ Alphabet[1] = Epsilon
  <1> DEFINE table == symbol_table
             blank == IF Contains(table, BlankName) THEN << >> ELSE << BlankName >>
             lower == Choose(WithBlank, {k \in DOMAIN WithBlank : NeedsUpper(WithBlank[k])})
             upper == [k \in DOMAIN lower |-> UpperName[lower[k]]]
  <1>1. IsList(table) /\ table[1] = Epsilon /\ Len(table) \in Nat /\ Len(table) >= 1
    <2>1. table \in Seq(STRING) /\ Len(table) >= 1
      <3>1. table \in Seq(STRING) /\ seen_input_symbols \in 1 .. Len(table)
        BY AtTheEnd DEF NumbersBounded
      <3> HIDE DEF table
      <3>2. Len(table) \in Nat
        BY <3>1
      <3> QED
        BY <3>1, <3>2
    <2>2. table[1] = Epsilon
      BY AtTheEnd DEF SymbolsInOrder
    <2> HIDE DEF table
    <2> QED
      BY <2>1, <2>2, ListOf
  <1>2. IsList(blank)
    <2>1. IsList(<< >>) /\ IsList(<< BlankName >>)
      BY DEF IsList, ToSet
    <2> QED
      BY <2>1
  <1>3. WithBlank = table \o blank
    BY DEF WithBlank
  <1>4. Alphabet = WithBlank \o upper
    BY DEF Alphabet
  <1> HIDE DEF table, blank
  <1>5. IsList(WithBlank) /\ Len(WithBlank) >= Len(table) /\ Len(WithBlank) \in Nat
        /\ \A k \in 1 .. Len(table) : WithBlank[k] = table[k]
    <2>1. /\ IsList(table \o blank) /\ Len(table \o blank) = Len(table) + Len(blank)
          /\ Len(table) \in Nat /\ Len(blank) \in Nat
          /\ \A k \in 1 .. Len(table) : (table \o blank)[k] = table[k]
      BY <1>1, <1>2, ListConcatenated
    <2> QED
      BY <1>3, <2>1
  <1>6. IsList(upper)
    <2> DEFINE I == {k \in DOMAIN WithBlank : NeedsUpper(WithBlank[k])}
               T == ToSet(WithBlank)
    <2>1. WithBlank \in Seq(T) /\ I \in SUBSET DOMAIN WithBlank
      BY <1>5 DEF IsList
    <2> HIDE DEF I, T
    <2>2. Choose(WithBlank, I) \in Seq(T)
      BY <2>1, ChooseElements
    <2>3. lower \in Seq(T)
      BY <2>2 DEF I
    <2> HIDE DEF lower
    <2>4. DOMAIN lower = 1 .. Len(lower) /\ Len(lower) \in Nat
      BY <2>3
    <2> HIDE DEF upper
    <2>5. \A k \in 1 .. Len(lower) : upper[k] = UpperName[lower[k]]
      BY <2>4 DEF upper
    <2>6. DOMAIN upper = 1 .. Len(lower) /\ upper = [k \in 1 .. Len(lower) |-> upper[k]]
      BY <2>4 DEF upper
    <2>7. \A k \in 1 .. Len(lower) : upper[k] \in ToSet(upper)
      BY <2>6 DEF ToSet
    <2>8. upper \in [1 .. Len(lower) -> ToSet(upper)]
      BY <2>6, <2>7
    <2> QED
      BY <2>4, <2>8 DEF IsList
  <1> HIDE DEF upper
  <1>7. /\ IsList(Alphabet) /\ Len(Alphabet) = Len(WithBlank) + Len(upper)
        /\ Len(upper) \in Nat
        /\ \A k \in 1 .. Len(WithBlank) : Alphabet[k] = WithBlank[k]
    BY <1>4, <1>5, <1>6, ListConcatenated
  <1>8. DOMAIN Alphabet = 1 .. Len(Alphabet) /\ Len(Alphabet) \in Nat
    BY <1>7 DEF IsList
  <1>9. \A k \in 1 .. Len(table) : k \in 1 .. Len(WithBlank)
    BY <1>1, <1>5
  <1>10. \A k \in 1 .. Len(table) : Alphabet[k] = table[k]
    BY <1>5, <1>7, <1>9
  <1>11. 1 \in 1 .. Len(table) /\ Len(table) <= Len(Alphabet)
    BY <1>1, <1>5, <1>7
  <1> QED
    BY <1>1, <1>8, <1>10, <1>11 DEF table

(* The other case of a symbol that is read is read as well. *)
LEMMA OtherCase ==
    ASSUME WrittenInv, pc = "done", NEW x \in Nat, x \notin FlagSymbols
    PROVE  /\ x = 0 => AltInput(x) = NO_SYMBOL_NUMBER
           /\ x # 0 /\ AltInput(x) # NO_SYMBOL_NUMBER => AltInput(x) \in Nat /\ AltInput(x) \notin Silents
  <1>1. x = 0 => ~ IsUpper(x)
    <2>1. Alphabet[1] = Epsilon
      BY AlphabetExtends
    <2>2. \A n \in DOMAIN UpperName : UpperName[n] # Epsilon
      BY LettersAssumption
    <2> QED
      BY <2>1, <2>2 DEF IsUpper
  <1>2. x = 0 => AltInput(x) = NO_SYMBOL_NUMBER
    BY <1>1 DEF AltInput
  <1>3. ASSUME x # 0, AltInput(x) # NO_SYMBOL_NUMBER
        PROVE  AltInput(x) \in Nat /\ AltInput(x) \notin Silents
    <2> DEFINE lower == {n \in DOMAIN UpperName : UpperName[n] = Alphabet[x + 1] /\ Contains(Alphabet, n)}
    <2>1. AltInput(x) = IF lower = {} THEN x ELSE SymbolNumberOf(Alphabet, CHOOSE n \in lower : TRUE)
      BY <1>3 DEF AltInput, ToLower
    <2>2. CASE lower = {}
      BY <1>3, <2>1, <2>2 DEF Silents
    <2>3. CASE lower # {}
      <3> DEFINE n == CHOOSE n \in lower : TRUE
                 A == Alphabet
      <3>1. n \in lower
        BY <2>3
      <3>2. n \notin FlagNames /\ n # Epsilon
        BY <3>1, LettersAssumption
      <3>3. \E k \in 1 .. Len(A) : A[k] = n
        BY <3>1 DEF Contains
      <3>4. AltInput(x) = SymbolNumberOf(A, n)
        BY <2>1, <2>3
      <3> HIDE DEF n, A
      <3>5. PICK k \in 1 .. Len(A) : A[k] = n /\ AltInput(x) = k - 1
        BY <3>3, <3>4 DEF SymbolNumberOf
      <3>6. Len(A) \in Nat /\ A[1] = Epsilon /\ \A j \in 1 .. Len(symbol_table) : A[j] = symbol_table[j]
        BY AlphabetExtends DEF A
      <3>7. k - 1 \in Nat /\ (k - 1 = 0 => k = 1) /\ \A j \in Int : j - 1 = k - 1 => j = k
        BY <3>5, <3>6
      <3>8. k - 1 \notin FlagSymbols
        <4>1. SUFFICES ASSUME k - 1 \in FlagSymbols PROVE FALSE
          OBVIOUS
        <4>2. PICK j \in 1 .. Len(symbol_table) : symbol_table[j] \in FlagNames /\ k - 1 = j - 1
          BY <4>1 DEF FlagSymbols, NumbersOf
        <4>3. j = k
          BY <3>7, <4>2
        <4> QED
          BY <3>2, <3>5, <3>6, <4>2, <4>3
      <3>9. k - 1 # 0
        BY <3>2, <3>5, <3>6, <3>7
      <3> QED
        BY <3>5, <3>7, <3>8, <3>9 DEF Silents
    <2> QED
      BY <2>2, <2>3
  <1> QED
    BY <1>2, <1>3
-----------------------------------------------------------------------------
(* One symbol.                                                              *)

\* The symbols that are tried for x.
SymbolsOf(x) == {x, AltInput(x)} \ {NO_SYMBOL_NUMBER}

LEMMA TriedSymbols ==
    ASSUME NEW x, x # NO_SYMBOL_NUMBER
    PROVE  /\ IsList(Tried(x)) /\ DOMAIN Tried(x) = 1 .. Len(Tried(x))
           /\ SymbolsOf(x) = {Tried(x)[j] : j \in DOMAIN Tried(x)}
  <1> DEFINE y == AltInput(x)
  <1>1. Tried(x) = IF y = NO_SYMBOL_NUMBER THEN << x >> ELSE << x, y >>
    BY DEF Tried
  <1>2. SymbolsOf(x) = {x, y} \ {NO_SYMBOL_NUMBER}
    BY DEF SymbolsOf
  <1> HIDE DEF y
  <1>3. CASE y = NO_SYMBOL_NUMBER
    <2>1. SymbolsOf(x) = {x}
      BY <1>2, <1>3
    <2>2. DOMAIN << x >> = {1} /\ IsList(<< x >>) /\ 1 .. Len(<< x >>) = {1}
      BY DEF IsList, ToSet
    <2>3. {<< x >>[j] : j \in {1}} = {x}
      OBVIOUS
    <2> QED
      BY <1>1, <1>3, <2>1, <2>2, <2>3
  <1>4. CASE y # NO_SYMBOL_NUMBER
    <2>1. SymbolsOf(x) = {x, y}
      BY <1>2, <1>4
    <2>2. DOMAIN << x, y >> = {1, 2} /\ IsList(<< x, y >>) /\ 1 .. Len(<< x, y >>) = {1, 2}
      BY DEF IsList, ToSet
    <2>3. {<< x, y >>[j] : j \in {1, 2}} = {x, y}
      OBVIOUS
    <2> QED
      BY <1>1, <1>4, <2>1, <2>2, <2>3
  <1> QED
    BY <1>3, <1>4

(* What a path leads to for a symbol. *)
LEMMA TriedPath ==
    ASSUME WrittenInv, pc = "done", Addressable, NEW p, NEW w, w.s \in States(graph),
           StandsFor(p, w), NEW y \in Nat, y \notin Silents, y # NO_SYMBOL_NUMBER, ~ OutsideTable(p, y)
    PROVE  /\ IsList(TryInput(p, y))
           /\ \A q \in ToSet(TryInput(p, y)) :
                \E k \in WithSymbols(w.s, {y}) : AtState(q, Extended(w, placeholders[w.s][k]))
           /\ AtState(p, w) => \A k \in WithSymbols(w.s, {y}) :
                \E q \in ToSet(TryInput(p, y)) : AtState(q, Extended(w, placeholders[w.s][k]))
  <1> DEFINE Q == ToSet(TryInput(p, y))
  <1>1. Same(p, w)
    BY DEF StandsFor, AtState, AtEpsilons
  <1>2. /\ AtState(p, w) => IsList(TryInput(p, y)) /\ Q = Followed(p, w.s, {y})
        /\ AtEpsilons(p, w) => IsList(TryInput(p, y)) /\ Q = {}
    BY <1>1, SymbolRead
  <1>3. \A k \in WithSymbols(w.s, {y}) : MayFollow(w, placeholders[w.s][k])
    BY DEF WithSymbols, MayFollow, Silents
  <1>4. /\ \A q \in Followed(p, w.s, {y}) : Follows(q, w, {y})
        /\ \A k \in WithSymbols(w.s, {y}) : MayFollow(w, placeholders[w.s][k]) =>
             \E q \in Followed(p, w.s, {y}) : AtState(q, Extended(w, placeholders[w.s][k]))
    BY <1>1, FollowedWays
  <1> HIDE DEF Q
  <1>5. CASE AtState(p, w)
    BY <1>2, <1>3, <1>4, <1>5 DEF Follows, Q
  <1>6. CASE ~ AtState(p, w)
    <2>1. IsList(TryInput(p, y)) /\ Q = {}
      BY <1>2, <1>6 DEF StandsFor
    <2> QED
      BY <1>6, <2>1 DEF Q
  <1> QED
    BY <1>5, <1>6

(* A transition is read at the last symbol when it has one of its symbols. *)
LEMMA LastRead ==
    ASSUME NEW c, c \in Seq(Nat), NEW x \in Nat, NEW v, v.pos = Len(c), NEW arc, ~ Silent(arc.input)
    PROVE  /\ ReadsIn(Append(c, x), v, arc) <=> arc.input \in {x, AltInput(x)}
           /\ Extended(v, arc).pos = v.pos + 1
  <1>1. Len(c) \in Nat /\ Len(Append(c, x)) = Len(c) + 1 /\ Append(c, x)[Len(c) + 1] = x
    BY LongerInput
  <1>2. Len(c) < Len(c) + 1
    BY <1>1
  <1> QED
    BY <1>1, <1>2 DEF ReadsIn, Extended

LEMMA FunctionList ==
    ASSUME NEW n \in Nat, NEW ss, ss = [k \in 1 .. n |-> ss[k]]
    PROVE  IsList(ss) /\ DOMAIN ss = 1 .. n
  <1>1. DOMAIN ss = 1 .. n
    OBVIOUS
  <1>2. \A k \in 1 .. n : ss[k] \in ToSet(ss)
    BY <1>1 DEF ToSet
  <1> DEFINE T == ToSet(ss)
  <1> HIDE DEF T
  <1>3. ss \in [1 .. n -> T]
    BY <1>2 DEF T
  <1>4. ss \in Seq(T)
    BY <1>3
  <1> QED
    BY <1>1, <1>4 DEF IsList, T

(* The paths after a symbol are what the paths before it lead to. *)
LEMMA AppliedInput ==
    ASSUME IsList(paths), NEW x, x # 0, x # NO_SYMBOL_NUMBER,
           \A p \in ToSet(paths) : \A y \in SymbolsOf(x) : IsList(TryInput(p, y))
    PROVE  /\ IsList(ApplyInput(x))
           /\ \A q : q \in ToSet(ApplyInput(x)) <=>
                \E p \in ToSet(paths) : \E y \in SymbolsOf(x) : q \in ToSet(TryInput(p, y))
  <1> DEFINE tried == Tried(x)
             inner(p) == [j \in DOMAIN tried |-> TryInput(p, tried[j])]
             outer == [k \in DOMAIN paths |-> FlattenSeq(inner(paths[k]))]
  <1>1. /\ IsList(tried) /\ DOMAIN tried = 1 .. Len(tried)
        /\ SymbolsOf(x) = {tried[j] : j \in DOMAIN tried}
    BY TriedSymbols
  <1>2. Len(tried) \in Nat
    BY <1>1 DEF IsList
  <1>3. DOMAIN paths = 1 .. Len(paths) /\ Len(paths) \in Nat
        /\ ToSet(paths) = {paths[k] : k \in DOMAIN paths}
    BY DEF IsList, ToSet
  <1>4. ApplyInput(x) = FlattenSeq(outer)
    BY DEF ApplyInput
  <1> HIDE DEF tried
  <1>5. ASSUME NEW p \in ToSet(paths)
        PROVE  /\ IsList(FlattenSeq(inner(p)))
               /\ \A q : q \in ToSet(FlattenSeq(inner(p))) <=> \E y \in SymbolsOf(x) : q \in ToSet(TryInput(p, y))
    <2> DEFINE ss == inner(p)
    <2>1. ss = [j \in 1 .. Len(tried) |-> ss[j]]
      BY <1>1
    <2>2. \A j \in 1 .. Len(tried) : ss[j] = TryInput(p, tried[j])
      BY <1>1
    <2> HIDE DEF ss
    <2>3. IsList(ss) /\ DOMAIN ss = 1 .. Len(tried)
      BY <1>2, <2>1, FunctionList
    <2>4. \A j \in DOMAIN ss : tried[j] \in SymbolsOf(x)
      BY <1>1, <2>3
    <2>5. \A j \in DOMAIN ss : IsList(ss[j])
      BY <1>5, <2>2, <2>3, <2>4
    <2>6. IsList(FlattenSeq(ss)) /\ ToSet(FlattenSeq(ss)) = UNION {ToSet(ss[j]) : j \in DOMAIN ss}
      BY <2>3, <2>5, FlattenedList
    <2>7. \A q : q \in ToSet(FlattenSeq(ss)) <=> \E j \in 1 .. Len(tried) : q \in ToSet(TryInput(p, tried[j]))
      BY <2>2, <2>3, <2>6
    <2>8. \A q : q \in ToSet(FlattenSeq(ss)) <=> \E y \in SymbolsOf(x) : q \in ToSet(TryInput(p, y))
      BY <1>1, <2>7
    <2> QED
      BY <2>6, <2>8 DEF ss
  <1> HIDE DEF inner
  <1>6. outer = [k \in 1 .. Len(paths) |-> outer[k]]
    BY <1>3
  <1>7. \A k \in 1 .. Len(paths) : outer[k] = FlattenSeq(inner(paths[k])) /\ paths[k] \in ToSet(paths)
    BY <1>3
  <1> HIDE DEF outer
  <1>8. IsList(outer) /\ DOMAIN outer = 1 .. Len(paths)
    BY <1>3, <1>6, FunctionList
  <1>9. \A k \in DOMAIN outer : IsList(outer[k])
    BY <1>5, <1>7, <1>8
  <1>10. IsList(FlattenSeq(outer)) /\ ToSet(FlattenSeq(outer)) = UNION {ToSet(outer[k]) : k \in DOMAIN outer}
    BY <1>8, <1>9, FlattenedList
  <1>11. \A q : q \in ToSet(FlattenSeq(outer)) <=>
           \E k \in 1 .. Len(paths) : q \in ToSet(FlattenSeq(inner(paths[k])))
    BY <1>7, <1>8, <1>10
  <1>12. \A q : q \in ToSet(FlattenSeq(outer)) <=>
           \E p \in ToSet(paths) : q \in ToSet(FlattenSeq(inner(p)))
    BY <1>3, <1>11
  <1> QED
    BY <1>4, <1>5, <1>10, <1>12

(* A symbol that no path can go outside the index table for. *)
LEMMA SymbolApplied ==
    ASSUME WrittenInv, pc = "done", Addressable,
           NEW c, c \in Seq(Nat), PathsAre(paths, c, Len(paths)),
           NEW x \in Nat, x \notin FlagSymbols, x # NO_SYMBOL_NUMBER,
           x # 0 => \A p \in ToSet(paths) : \A y \in SymbolsOf(x) : ~ OutsideTable(p, y)
    PROVE  PathsAre(ApplyInput(x), Append(c, x), 0)
  <1> DEFINE d == Append(c, x)
             R == ApplyInput(x)
             P == ToSet(paths)
             New(q) == \E v : IsWay(c, v) /\ v.pos = Len(c)
                         /\ \E k \in DOMAIN placeholders[v.s] :
                              /\ ~ Silent(placeholders[v.s][k].input)
                              /\ placeholders[v.s][k].input \in {x, AltInput(x)}
                              /\ AtState(q, Extended(v, placeholders[v.s][k]))
             Complete == \A v : IsWay(c, v) /\ v.pos = Len(c) =>
                           \A k \in DOMAIN placeholders[v.s] :
                             /\ ~ Silent(placeholders[v.s][k].input)
                             /\ placeholders[v.s][k].input \in {x, AltInput(x)}
                             => \E q \in ToSet(R) : AtState(q, Extended(v, placeholders[v.s][k]))
  <1>1. /\ d \in Seq(Nat) /\ Len(c) \in Nat /\ Len(d) = Len(c) + 1 /\ d # << >>
        /\ Len(c) = 0 => c = << >>
    BY LongerInput
  <1>2. IsList(paths) /\ OnlyWays(P, c)
    BY DEF PathsAre
  <1>3. \A v : WayOK(c, v) => \A k \in DOMAIN placeholders[v.s] :
          placeholders[v.s][k].input # NO_SYMBOL_NUMBER /\ placeholders[v.s][k].input \in Nat
    BY SilentInputs DEF WayOK
  <1> HIDE DEF P, R, d
  <1>4. \A v : IsWay(c, v) => WayOK(c, v)
    BY <1>1, WayType
  <1>5. IsList(R) /\ (\A q \in ToSet(R) : New(q)) /\ Complete
    <2>1. CASE x = 0
      <3>1. R = << >>
        BY <2>1 DEF ApplyInput, R
      <3>2. IsList(R) /\ ToSet(R) = {}
        BY <3>1 DEF IsList, ToSet
      <3>3. AltInput(x) = NO_SYMBOL_NUMBER
        BY <2>1, OtherCase
      <3>4. Complete
        BY <1>3, <1>4, <2>1, <3>3 DEF Silent
      <3> QED
        BY <3>2, <3>4
    <2>2. CASE x # 0
      <3>1. \A y \in SymbolsOf(x) : y \in Nat /\ y \notin Silents /\ y # NO_SYMBOL_NUMBER
        <4>1. x \notin Silents
          BY <2>2 DEF Silents
        <4> QED
          BY <2>2, <4>1, OtherCase DEF SymbolsOf
      <3> DEFINE Way(p, v) == IsWay(c, v) /\ v.pos = Len(c) /\ StandsFor(p, v)
      <3>2. \A p \in P : \E v : Way(p, v)
        BY <1>2 DEF OnlyWays
      <3>3. \A p, v : Way(p, v) => IsWay(c, v) /\ v.pos = Len(c) /\ StandsFor(p, v) /\ v.s \in States(graph)
        BY <1>4 DEF WayOK
      <3> HIDE DEF Way
      <3>4. ASSUME NEW p \in P, NEW y \in SymbolsOf(x), NEW v, v.s \in States(graph), StandsFor(p, v)
            PROVE  /\ IsList(TryInput(p, y))
                   /\ \A q \in ToSet(TryInput(p, y)) :
                        \E k \in WithSymbols(v.s, {y}) : AtState(q, Extended(v, placeholders[v.s][k]))
                   /\ AtState(p, v) => \A k \in WithSymbols(v.s, {y}) :
                        \E q \in ToSet(TryInput(p, y)) : AtState(q, Extended(v, placeholders[v.s][k]))
        <4>1. y \in Nat /\ y \notin Silents /\ y # NO_SYMBOL_NUMBER /\ ~ OutsideTable(p, y)
          BY <2>2, <3>1, <3>4 DEF P
        <4> QED
          BY <3>4, <4>1, TriedPath
      <3>5. \A p \in P : \A y \in SymbolsOf(x) : IsList(TryInput(p, y))
        BY <3>2, <3>3, <3>4
      <3>6. /\ IsList(R)
            /\ \A q : q \in ToSet(R) <=>
                 \E p \in P : \E y \in SymbolsOf(x) : q \in ToSet(TryInput(p, y))
        BY <1>2, <2>2, <3>5, AppliedInput DEF P, R
      <3>7. ASSUME NEW q \in ToSet(R)
            PROVE  New(q)
        <4>1. PICK p \in P, y \in SymbolsOf(x) : q \in ToSet(TryInput(p, y))
          BY <3>6, <3>7
        <4>2. PICK v : Way(p, v)
          BY <3>2
        <4>3. PICK k \in WithSymbols(v.s, {y}) : AtState(q, Extended(v, placeholders[v.s][k]))
          BY <3>3, <3>4, <4>1, <4>2
        <4>4. k \in DOMAIN placeholders[v.s] /\ placeholders[v.s][k].input = y
          BY <4>3 DEF WithSymbols
        <4>5. ~ Silent(placeholders[v.s][k].input) /\ placeholders[v.s][k].input \in {x, AltInput(x)}
          BY <3>1, <4>4 DEF SymbolsOf, Silents, Silent
        <4>6. IsWay(c, v) /\ v.pos = Len(c)
          BY <3>3, <4>2
        <4> QED
          BY <4>3, <4>4, <4>5, <4>6
      <3>8. Complete
        <4> SUFFICES ASSUME NEW v, IsWay(c, v), v.pos = Len(c), NEW k \in DOMAIN placeholders[v.s],
                            ~ Silent(placeholders[v.s][k].input),
                            placeholders[v.s][k].input \in {x, AltInput(x)}
                     PROVE  \E q \in ToSet(R) : AtState(q, Extended(v, placeholders[v.s][k]))
          OBVIOUS
        <4> DEFINE y == placeholders[v.s][k].input
        <4>1. WayOK(c, v) /\ v.s \in States(graph)
          BY <1>4 DEF WayOK
        <4>2. PICK p \in P : AtState(p, v)
          BY <1>1, AllEntered DEF P
        <4>3. y \in SymbolsOf(x)
          BY <1>3, <4>1 DEF SymbolsOf
        <4>4. k \in WithSymbols(v.s, {y})
          BY DEF WithSymbols
        <4> HIDE DEF y
        <4>5. \E q \in ToSet(TryInput(p, y)) : AtState(q, Extended(v, placeholders[v.s][k]))
          BY <3>4, <4>1, <4>2, <4>3, <4>4 DEF StandsFor
        <4> QED
          BY <3>6, <4>3, <4>5
      <3> QED
        BY <3>6, <3>7, <3>8
    <2> QED
      BY <2>1, <2>2
  <1>6. ASSUME NEW v, v.pos = Len(c), NEW k \in DOMAIN placeholders[v.s],
               ~ Silent(placeholders[v.s][k].input)
        PROVE  /\ ReadsIn(d, v, placeholders[v.s][k]) <=> placeholders[v.s][k].input \in {x, AltInput(x)}
               /\ Extended(v, placeholders[v.s][k]).pos = Len(d)
    BY <1>1, <1>6, LastRead DEF d
  <1>7. OnlyWays(ToSet(R), d)
    <2> SUFFICES ASSUME NEW q \in ToSet(R)
                 PROVE  \E w : IsWay(d, w) /\ w.pos = Len(d) /\ StandsFor(q, w)
      BY DEF OnlyWays
    <2>1. New(q)
      BY <1>5
    <2>2. PICK v : IsWay(c, v) /\ v.pos = Len(c)
                     /\ \E k \in DOMAIN placeholders[v.s] :
                          /\ ~ Silent(placeholders[v.s][k].input)
                          /\ placeholders[v.s][k].input \in {x, AltInput(x)}
                          /\ AtState(q, Extended(v, placeholders[v.s][k]))
      BY <2>1
    <2>3. PICK k \in DOMAIN placeholders[v.s] :
            /\ ~ Silent(placeholders[v.s][k].input)
            /\ placeholders[v.s][k].input \in {x, AltInput(x)}
            /\ AtState(q, Extended(v, placeholders[v.s][k]))
      BY <2>2
    <2> DEFINE w == Extended(v, placeholders[v.s][k])
    <2>4. ReadsIn(d, v, placeholders[v.s][k]) /\ w.pos = Len(d)
      BY <1>6, <2>2, <2>3
    <2>5. Goes(d, v, w)
      BY <2>4 DEF Goes
    <2>6. IsWay(d, v)
      BY <2>2, WayLonger DEF d
    <2>7. IsWay(d, w)
      BY <2>5, <2>6, WayExtends
    <2> QED
      BY <2>3, <2>4, <2>7 DEF StandsFor
  <1>8. Entered(ToSet(R), d)
    <2>1. ASSUME NEW v, IsWay(d, v), v.pos + 1 = Len(d), NEW k \in DOMAIN placeholders[v.s],
                 ~ Silent(placeholders[v.s][k].input), ReadsIn(d, v, placeholders[v.s][k])
          PROVE  \E q \in ToSet(R) : AtState(q, Extended(v, placeholders[v.s][k]))
      <3>1. WayOK(d, v)
        BY <1>1, <2>1, WayType
      <3>2. v.pos = Len(c)
        <4>1. v.pos \in Nat
          BY <3>1 DEF WayOK
        <4> QED
          BY <1>1, <2>1, <4>1
      <3>3. IsWay(c, v)
        <4>1. v.pos <= Len(c)
          BY <1>1, <3>2
        <4> QED
          BY <2>1, <4>1, WayLonger DEF d
      <3> QED
        BY <1>5, <1>6, <2>1, <3>2, <3>3
    <2> QED
      BY <1>1, <2>1 DEF Entered
  <1>9. 0 \in 0 .. Len(R) /\ \A k \in 1 .. 0 : Processed(ToSet(R), R[k])
    <2>1. Len(R) \in Nat
      BY <1>5 DEF IsList
    <2> QED
      BY <2>1
  <1>10. PathsAre(R, d, 0)
    BY <1>5, <1>7, <1>8, <1>9 DEF PathsAre
  <1> QED
    BY <1>10 DEF R, d
-----------------------------------------------------------------------------
(* What these notions are about does not change during a lookup.            *)

SameTransducer ==
    UNCHANGED << graph, placeholders, symbol_table, flag_symbols, start_index, options >>

LEMMA SameReading ==
    ASSUME SameTransducer
    PROVE  /\ \A x : Silent(x)' <=> Silent(x)
           /\ \A w, arc : MayFollow(w, arc)' <=> MayFollow(w, arc)
           /\ \A w, arc : Extended(w, arc)' = Extended(w, arc)
           /\ \A c, w, arc : ReadsIn(c, w, arc)' <=> ReadsIn(c, w, arc)
  <1> USE DEF SameTransducer
  <1>1. FlagSymbols' = FlagSymbols /\ \A x : OperationOf(x)' = OperationOf(x)
    BY DEF FlagSymbols, OperationOf
  <1>2. \A x : Silent(x)' <=> Silent(x)
    BY <1>1 DEF Silent
  <1>3. WithBlank' = WithBlank
    BY DEF WithBlank
  <1>4. \A n : NeedsUpper(n)' <=> NeedsUpper(n)
    BY <1>3 DEF NeedsUpper
  <1>5. Alphabet' = Alphabet
    <2>1. {k \in DOMAIN WithBlank : NeedsUpper(WithBlank[k])}' = {k \in DOMAIN WithBlank : NeedsUpper(WithBlank[k])}
      BY <1>3, <1>4
    <2> QED
      BY <1>3, <2>1 DEF Alphabet
  <1>6. \A x : AltInput(x)' = AltInput(x)
    BY <1>5 DEF AltInput, IsUpper, ToLower
  <1>7. \A c, w, arc : ReadsIn(c, w, arc)' <=> ReadsIn(c, w, arc)
    BY <1>1, <1>2, <1>6 DEF ReadsIn
  <1>8. \A w, arc : Extended(w, arc)' = Extended(w, arc)
    BY <1>1, <1>2 DEF Extended
  <1>9. \A w, arc : MayFollow(w, arc)' <=> MayFollow(w, arc)
    BY <1>1 DEF MayFollow
  <1> QED
    BY <1>2, <1>7, <1>8, <1>9

LEMMA SamePathsAre ==
    ASSUME SameTransducer
    PROVE  \A P, c, n : PathsAre(P, c, n)' <=> PathsAre(P, c, n)
  <1>1. /\ \A x : Silent(x)' <=> Silent(x)
        /\ \A w, arc : MayFollow(w, arc)' <=> MayFollow(w, arc)
        /\ \A w, arc : Extended(w, arc)' = Extended(w, arc)
        /\ \A c, w, arc : ReadsIn(c, w, arc)' <=> ReadsIn(c, w, arc)
    BY SameReading
  <1> USE DEF SameTransducer
  <1>2. \A c, v, w : Goes(c, v, w)' <=> Goes(c, v, w)
    BY <1>1 DEF Goes
  <1>3. \A c, n, f : Trail(c, n, f)' <=> Trail(c, n, f)
    BY <1>2 DEF Trail, FirstWay, InitialPath
  <1>4. \A c, w : IsWay(c, w)' <=> IsWay(c, w)
    BY <1>3 DEF IsWay, TrailTo
  <1>5. \A s : (SimpleState(s)' <=> SimpleState(s)) /\ StateOffsets(s)' = StateOffsets(s)
    BY DEF SimpleState, StateOffsets
  <1>6. \A s : StateAddress(s)' = StateAddress(s) /\ EpsilonAddress(s)' = EpsilonAddress(s)
    BY <1>5 DEF StateAddress, EpsilonAddress, First
  <1>7. \A p, w : (AtState(p, w)' <=> AtState(p, w)) /\ (AtEpsilons(p, w)' <=> AtEpsilons(p, w))
    BY <1>5, <1>6 DEF AtState, AtEpsilons, Same, IsPath
  <1>8. \A p, w : StandsFor(p, w)' <=> StandsFor(p, w)
    BY <1>7 DEF StandsFor
  <1>9. \A S, c : OnlyWays(S, c)' <=> OnlyWays(S, c)
    BY <1>4, <1>8 DEF OnlyWays
  <1>10. \A S, c : Entered(S, c)' <=> Entered(S, c)
    BY <1>1, <1>4, <1>7 DEF Entered, FirstWay, InitialPath
  <1>11. \A S, p : Processed(S, p)' <=> Processed(S, p)
    BY <1>1, <1>5, <1>7 DEF Processed, States
  <1> QED
    BY <1>9, <1>10, <1>11 DEF PathsAre, IsList

-----------------------------------------------------------------------------
(* The invariant.                                                           *)

\* The inductive invariant.  A token that is no symbol ends the search without
\* a path; nothing is said of the paths after it.
ProcInv ==
    /\ WrittenInv /\ RootInv
    /\ pc # "done" => stage = "idle"
    /\ consumed \in Seq(Nat)
    /\ stage \in {"epsilons", "ready"} /\ Addressable /\ NO_SYMBOL_NUMBER \notin ToSet(consumed) =>
         /\ i \in Nat /\ PathsAre(paths, consumed, i - 1)
         /\ stage = "ready" => i = Len(paths) + 1

LEMMA InitProc == ProcLookupInit => ProcInv
  <1> SUFFICES ASSUME ProcLookupInit
               PROVE  ProcInv
    OBVIOUS
  <1>1. WrittenInv /\ RootInv
    BY InitWritten, InitRoot DEF ProcLookupInit
  <1>2. stage = "idle" /\ consumed \in Seq(Nat)
    BY DEF ProcLookupInit
  <1> QED
    BY <1>1, <1>2 DEF ProcInv

LEMMA AppendedSet ==
    ASSUME NEW c, c \in Seq(Nat), NEW x \in Nat
    PROVE  Append(c, x) \in Seq(Nat) /\ ToSet(Append(c, x)) = ToSet(c) \cup {x}
  <1> DEFINE d == Append(c, x)
             n == Len(c)
  <1>1. n \in Nat /\ d \in Seq(Nat) /\ Len(d) = n + 1 /\ d[n + 1] = x
        /\ DOMAIN c = 1 .. n /\ DOMAIN d = 1 .. n + 1
    OBVIOUS
  <1>2. \A k \in 1 .. n : d[k] = c[k]
    OBVIOUS
  <1> HIDE DEF d, n
  <1>3. \A k \in 1 .. n + 1 : k \in 1 .. n \/ k = n + 1
    BY <1>1
  <1>4. n + 1 \in 1 .. n + 1 /\ \A k \in 1 .. n : k \in 1 .. n + 1
    BY <1>1
  <1>5. ToSet(d) = ToSet(c) \cup {x}
    BY <1>1, <1>2, <1>3, <1>4 DEF ToSet
  <1> QED
    BY <1>1, <1>5 DEF d

LEMMA ProcStep == ProcInv /\ [ProcLookupNext]_procLookupVars => ProcInv'
  <1> SUFFICES ASSUME ProcInv, [ProcLookupNext]_procLookupVars
               PROVE  ProcInv'
    OBVIOUS
  <1>1. WrittenInv /\ RootInv /\ (pc # "done" => stage = "idle") /\ consumed \in Seq(Nat)
    BY DEF ProcInv
  <1>2. CASE Build
    <2>1. Next /\ pc # "done" /\ UNCHANGED << options, searchVars >>
      BY <1>2 DEF Build, Next, GetStatesAndSymbols, SkipSimpleState, PackState, PackingDone,
                  WriteIndexTable, WriteTransitionTable
    <2>2. WrittenInv' /\ RootInv'
      BY <1>1, <2>1, WrittenStep, RootStep
    <2>3. stage' = "idle" /\ consumed' \in Seq(Nat)
      BY <1>1, <2>1 DEF searchVars
    <2> QED
      BY <2>2, <2>3 DEF ProcInv
  <1>3. ASSUME UNCHANGED << vars, options >>
        PROVE  /\ WrittenInv' /\ RootInv'
               /\ Addressable' <=> Addressable
               /\ pc' = pc
               /\ \A P, c, n : PathsAre(P, c, n)' <=> PathsAre(P, c, n)
    <2>1. WrittenInv' /\ RootInv'
      BY <1>1, <1>3, WrittenStep, RootStep
    <2>2. SameTransducer
      BY <1>3 DEF SameTransducer, vars, inputVars, symbolVars, packVars
    <2>3. pc' = pc /\ UNCHANGED tableVars
      BY <1>3 DEF vars
    <2> QED
      BY <2>1, <2>2, <2>3, SamePathsAre DEF Addressable, tableVars
  <1>4. CASE Reset
    <2>1. pc = "done" /\ UNCHANGED << vars, options >> /\ i' = 1 /\ stage' = "epsilons"
          /\ paths' = << InitialPath >> /\ consumed' = << >>
      BY <1>4 DEF Reset
    <2>2. PathsAre(<< InitialPath >>, << >>, 0)
      BY <1>1, <2>1, ResetPaths
    <2>3. consumed' \in Seq(Nat) /\ i' \in Nat /\ i' - 1 = 0 /\ stage' # "ready"
      BY <2>1
    <2> QED
      BY <1>3, <2>1, <2>2, <2>3 DEF ProcInv
  <1>5. CASE StepNoSymbol
    <2>1. /\ UNCHANGED << vars, options, stage, i >>
          /\ consumed' = Append(consumed, NO_SYMBOL_NUMBER)
      BY <1>5 DEF StepNoSymbol
    <2>2. consumed' \in Seq(Nat) /\ NO_SYMBOL_NUMBER \in ToSet(consumed')
      BY <1>1, <2>1, AppendedSet, ConstantsAssumption
    <2> QED
      BY <1>1, <1>3, <2>1, <2>2 DEF ProcInv
  <1>6. ASSUME NEW x \in (0 .. Len(Alphabet) - 1) \ FlagSymbols, Step(x)
        PROVE  ProcInv'
    <2>1. /\ stage = "ready" /\ pc = "done" /\ UNCHANGED << vars, options >>
          /\ consumed' = Append(consumed, x)
          /\ IF x # 0 /\ \E k \in DOMAIN paths, j \in DOMAIN Tried(x) : OutsideTable(paths[k], Tried(x)[j])
               THEN stage' = "undefined"
               ELSE paths' = ApplyInput(x) /\ i' = 1 /\ stage' = "epsilons"
      BY <1>1, <1>6 DEF Step, Ready
    <2>2. x \in Nat /\ x \notin FlagSymbols
      BY <1>1, <2>1, AlphabetExtends
    <2>3. consumed' \in Seq(Nat) /\ ToSet(consumed') = ToSet(consumed) \cup {x}
      BY <1>1, <2>1, <2>2, AppendedSet
    <2>4. CASE stage' = "undefined"
      BY <1>3, <2>1, <2>3, <2>4 DEF ProcInv
    <2>5. CASE stage' # "undefined"
      <3>1. /\ paths' = ApplyInput(x) /\ i' = 1 /\ stage' = "epsilons"
            /\ ~ (x # 0 /\ \E k \in DOMAIN paths, j \in DOMAIN Tried(x) : OutsideTable(paths[k], Tried(x)[j]))
        BY <2>1, <2>5
      <3>2. ASSUME Addressable, NO_SYMBOL_NUMBER \notin ToSet(consumed')
            PROVE  PathsAre(ApplyInput(x), Append(consumed, x), 0)
        <4>1. NO_SYMBOL_NUMBER \notin ToSet(consumed) /\ x # NO_SYMBOL_NUMBER
          BY <2>3, <3>2
        <4>2. i \in Nat /\ PathsAre(paths, consumed, i - 1) /\ i = Len(paths) + 1
          BY <2>1, <3>2, <4>1 DEF ProcInv
        <4>3. IsList(paths)
          BY <4>2 DEF PathsAre
        <4>4. Len(paths) \in Nat /\ ToSet(paths) = {paths[k] : k \in DOMAIN paths}
          BY <4>3 DEF IsList, ToSet
        <4>5. i - 1 = Len(paths)
          BY <4>2, <4>4
        <4>6. PathsAre(paths, consumed, Len(paths))
          BY <4>2, <4>5
        <4>7. x # 0 => \A p \in ToSet(paths) : \A y \in SymbolsOf(x) : ~ OutsideTable(p, y)
          BY <3>1, <4>1, <4>4, TriedSymbols
        <4> QED
          BY <1>1, <2>1, <2>2, <3>2, <4>1, <4>6, <4>7, SymbolApplied
      <3>3. i' \in Nat /\ i' - 1 = 0 /\ stage' # "ready"
        BY <3>1
      <3> QED
        BY <1>3, <2>1, <2>3, <3>1, <3>2, <3>3 DEF ProcInv
    <2> QED
      BY <2>4, <2>5
  <1>7. CASE TryEpsilons1
    <2>1. /\ stage = "epsilons" /\ i <= Len(paths) /\ pc = "done"
          /\ paths' = paths \o EpsilonPaths(paths[i]) /\ i' = i + 1
          /\ UNCHANGED << vars, options, stage, consumed >>
      BY <1>1, <1>7 DEF TryEpsilons1
    <2>2. ASSUME Addressable, NO_SYMBOL_NUMBER \notin ToSet(consumed)
          PROVE  i' \in Nat /\ PathsAre(paths', consumed, i' - 1)
      <3>1. i \in Nat /\ PathsAre(paths, consumed, i - 1)
        BY <2>1, <2>2 DEF ProcInv
      <3> DEFINE n == i - 1
      <3>2. n + 1 = i /\ i' - 1 = n + 1 /\ i' \in Nat
        BY <2>1, <3>1
      <3> HIDE DEF n
      <3>3. n + 1 <= Len(paths) /\ PathsAre(paths, consumed, n)
        BY <2>1, <3>1, <3>2 DEF n
      <3>4. Len(consumed) \in Nat
        BY <1>1
      <3>5. PathsAre(paths \o EpsilonPaths(paths[n + 1]), consumed, n + 1)
        BY <1>1, <2>1, <2>2, <3>3, <3>4, EpsilonsFollowed
      <3> QED
        BY <2>1, <3>2, <3>5
    <2>3. stage' # "ready"
      BY <2>1
    <2> QED
      BY <1>1, <1>3, <2>1, <2>2, <2>3 DEF ProcInv
  <1>8. CASE EpsilonsDone
    <2>1. /\ stage = "epsilons" /\ i > Len(paths) /\ pc = "done"
          /\ UNCHANGED << vars, options, paths, i, consumed >>
      BY <1>1, <1>8 DEF EpsilonsDone
    <2>2. ASSUME Addressable, NO_SYMBOL_NUMBER \notin ToSet(consumed)
          PROVE  i \in Nat /\ PathsAre(paths, consumed, i - 1) /\ i = Len(paths) + 1
      <3>1. i \in Nat /\ PathsAre(paths, consumed, i - 1)
        BY <2>1, <2>2 DEF ProcInv
      <3>2. Len(paths) \in Nat /\ i - 1 \in 0 .. Len(paths)
        BY <3>1 DEF PathsAre, IsList
      <3>3. i = Len(paths) + 1
        BY <2>1, <3>1, <3>2
      <3> QED
        BY <3>1, <3>3
    <2> QED
      BY <1>1, <1>3, <2>1, <2>2 DEF ProcInv
  <1>9. CASE ProcessFinals \/ Stopped \/ UNCHANGED procLookupVars
    <2>1. UNCHANGED << vars, options, stage, paths, i, consumed >>
      BY <1>9 DEF ProcessFinals, Stopped, procLookupVars, searchVars
    <2> QED
      BY <1>1, <1>3, <2>1 DEF ProcInv
  <1> QED
    BY <1>2, <1>4, <1>5, <1>6, <1>7, <1>8, <1>9 DEF ProcLookupNext

LEMMA ProcInvariant == ProcLookupSpec => []ProcInv
  BY InitProc, ProcStep, PTL DEF ProcLookupSpec

-----------------------------------------------------------------------------
(* Which ways there are.                                                    *)

\* No cycle of the transducer reads nothing: the states have a rank that every
\* transition under epsilon or a flag diacritic lowers.
NoSilentCycles ==
    \E rank \in [States(graph) -> States(graph)] :
      \A s \in States(graph) : \A k \in DOMAIN graph.arcs[s] :
        graph.arcs[s][k].in \in FlagNames \cup {Epsilon} => rank[graph.arcs[s][k].target] < rank[s]

\* The parts of Ways.
Longest == (Len(consumed) + 1) * graph.size

NextWays(S) ==
    UNION {{Extended(w, placeholders[w.s][k]) :
              k \in {j \in DOMAIN placeholders[w.s] : Reads(w, placeholders[w.s][j])}} : w \in S}

WaysBy[n \in 0 .. Longest] == IF n = 0 THEN {FirstWay} ELSE NextWays(WaysBy[n - 1])

LEMMA WaysByLength ==
    Ways = {w \in UNION {WaysBy[n] : n \in 0 .. Longest} : w.pos = Len(consumed)}
  BY DEF Ways, WaysBy, NextWays, Longest

(* The recursion has a solution, so WaysBy is one. *)
LEMMA WaysUnfold ==
    ASSUME Longest \in Nat
    PROVE  /\ WaysBy[0] = {FirstWay}
           /\ \A n \in 1 .. Longest : WaysBy[n] = NextWays(WaysBy[n - 1])
  <1> DEFINE N == Longest
             G(n, g) == [j \in 0 .. n |-> IF j = 0 THEN {FirstWay} ELSE NextWays(g[j - 1])]
             K == {m \in 0 .. N : \E g : g = G(m, g)}
  <1>1. N \in Nat
    OBVIOUS
  <1>2. WaysBy = CHOOSE g : g = G(N, g)
    BY DEF WaysBy
  <1> HIDE DEF N
  <1>3. 0 \in K
    <2> DEFINE f == [j \in 0 .. 0 |-> {FirstWay}]
    <2>1. f = G(0, f)
      <3>1. \A j \in 0 .. 0 : j = 0
        OBVIOUS
      <3> QED
        BY <3>1
    <2>2. 0 \in 0 .. N
      BY <1>1
    <2> QED
      BY <2>1, <2>2
  <1>4. ASSUME NEW m \in 1 .. N, m - 1 \in K
        PROVE  m \in K
    <2>1. PICK g : g = G(m - 1, g)
      BY <1>4
    <2> DEFINE last == NextWays(g[m - 1])
               f == [j \in 0 .. m |-> IF j = m THEN last ELSE g[j]]
    <2>2. /\ \A j \in 0 .. m : j = m \/ j \in 0 .. m - 1
          /\ m \in 0 .. m /\ m # 0 /\ \A j \in 0 .. m - 1 : j # m /\ j \in 0 .. m
          /\ \A j \in 0 .. m : j # 0 => j - 1 \in 0 .. m - 1
      BY <1>1, <1>4
    <2>3. \A j \in 0 .. m - 1 : g[j] = IF j = 0 THEN {FirstWay} ELSE NextWays(g[j - 1])
      <3> HIDE DEF f, last
      <3> QED
        BY <2>1
    <2>4. f[m] = last /\ \A j \in 0 .. m - 1 : f[j] = g[j]
      <3> HIDE DEF last
      <3> QED
        BY <2>2
    <2>5. f = [j \in 0 .. m |-> f[j]]
      <3> HIDE DEF last
      <3> QED
        OBVIOUS
    <2> HIDE DEF f
    <2>6. ASSUME NEW j \in 0 .. m
          PROVE  f[j] = IF j = 0 THEN {FirstWay} ELSE NextWays(f[j - 1])
      <3>1. CASE j = m
        <4>1. j # 0 /\ f[j - 1] = g[m - 1]
          BY <2>2, <2>4, <3>1
        <4> QED
          BY <2>4, <3>1, <4>1
      <3>2. CASE j # m
        <4>1. j \in 0 .. m - 1 /\ f[j] = g[j]
          BY <2>2, <2>4, <3>2
        <4>2. j # 0 => f[j - 1] = g[j - 1]
          BY <2>2, <2>4
        <4> QED
          BY <2>3, <4>1, <4>2
      <3> QED
        BY <3>1, <3>2
    <2>7. f = G(m, f)
      BY <2>5, <2>6
    <2>8. m \in 0 .. N
      BY <1>1, <1>4
    <2> QED
      BY <2>7, <2>8
  <1>5. N \in K
    <2> HIDE DEF K
    <2>1. \A j \in 0 .. N : j \in K
      BY <1>1, <1>3, <1>4, UpTo
    <2> QED
      BY <1>1, <2>1
  <1>6. WaysBy = G(N, WaysBy)
    <2>1. \E g : g = G(N, g)
      BY <1>5
    <2> HIDE DEF G
    <2> QED
      BY <1>2, <2>1
  <1>7. \A n \in 0 .. N : WaysBy[n] = IF n = 0 THEN {FirstWay} ELSE NextWays(WaysBy[n - 1])
    BY <1>6
  <1>8. 0 \in 0 .. N /\ \A n \in 1 .. N : n \in 0 .. N /\ n # 0
    BY <1>1
  <1> QED
    BY <1>7, <1>8 DEF N

(* They are the ways at the ends of the trails of that length. *)
LEMMA WaysByTrails ==
    ASSUME Longest \in Nat, NEW n \in 0 .. Longest
    PROVE  \A w : w \in WaysBy[n] <=> TrailTo(consumed, n, w)
  <1> DEFINE c == consumed
             Ends(m) == \A w : w \in WaysBy[m] <=> TrailTo(c, m, w)
             K == {m \in 0 .. n : Ends(m)}
  <1>1. 0 \in K
    <2>1. \A w : w \in WaysBy[0] <=> w = FirstWay
      BY WaysUnfold
    <2>2. \A w : w = FirstWay <=> TrailTo(c, 0, w)
      <3> DEFINE g == [j \in 0 .. 0 |-> FirstWay]
      <3>1. g[0] = FirstWay
        OBVIOUS
      <3> HIDE DEF g
      <3>2. Trail(c, 0, g)
        BY <3>1 DEF Trail
      <3> QED
        BY <3>1, <3>2 DEF Trail, TrailTo
    <2> QED
      BY <2>1, <2>2
  <1>2. ASSUME NEW m \in 1 .. n, m - 1 \in K
        PROVE  m \in K
    <2>1. Ends(m - 1)
      BY <1>2
    <2>2. WaysBy[m] = NextWays(WaysBy[m - 1])
      BY <1>2, WaysUnfold
    <2>3. \A v, w : Goes(c, v, w) <=>
            w \in {Extended(v, placeholders[v.s][k]) :
                     k \in {j \in DOMAIN placeholders[v.s] : Reads(v, placeholders[v.s][j])}}
      BY DEF Goes, Reads, ReadsIn
    <2>4. \A w : w \in WaysBy[m] <=> \E v \in WaysBy[m - 1] : Goes(c, v, w)
      BY <2>2, <2>3 DEF NextWays
    <2>5. m \in Nat /\ m - 1 \in Nat /\ (m - 1) + 1 = m
      OBVIOUS
    <2>6. ASSUME NEW v \in WaysBy[m - 1], NEW w, Goes(c, v, w)
          PROVE  TrailTo(c, m, w)
      <3> DEFINE l == m - 1
      <3>1. l \in Nat /\ l + 1 = m /\ TrailTo(c, l, v)
        BY <2>1, <2>5
      <3> HIDE DEF l
      <3>2. TrailTo(c, l + 1, w)
        BY <2>6, <3>1, TrailExtends
      <3> QED
        BY <3>1, <3>2
    <2>7. ASSUME NEW w, TrailTo(c, m, w)
          PROVE  \E v \in WaysBy[m - 1] : Goes(c, v, w)
      <3>1. PICK f : Trail(c, m, f) /\ f[m] = w
        BY <2>7 DEF TrailTo
      <3>2. m \in 1 .. m /\ \A j \in 1 .. m - 1 : j \in 1 .. m
        OBVIOUS
      <3>3. Trail(c, m - 1, f)
        BY <3>1, <3>2 DEF Trail
      <3>4. f[m - 1] \in WaysBy[m - 1]
        BY <2>1, <3>3 DEF TrailTo
      <3> QED
        BY <3>1, <3>2, <3>4 DEF Trail
    <2>8. Ends(m)
      BY <2>4, <2>6, <2>7
    <2> QED
      BY <2>8
  <1> HIDE DEF K
  <1>3. n \in Nat
    OBVIOUS
  <1>4. \A m \in 0 .. n : m \in K
    BY <1>1, <1>2, <1>3, UpTo
  <1>5. n \in K
    BY <1>3, <1>4
  <1> QED
    BY <1>5 DEF K

LEMMA LessTimes ==
    ASSUME NEW N \in Nat, NEW p \in Nat, NEW l \in Nat
    PROVE  /\ p * N \in Nat /\ (p + 1) * N = p * N + N /\ (p + 1 + 1) * N = (p + 1) * N + N
           /\ p <= l => (p + 1) * N <= (l + 1) * N
  <1>1. p * N \in Nat /\ (p + 1) * N = p * N + N /\ (p + 1 + 1) * N = (p + 1) * N + N
    OBVIOUS
  <1>2. ASSUME p <= l
        PROVE  (p + 1) * N <= (l + 1) * N
    <2>1. PICK e \in Nat : l = p + e
      <3>1. l - p \in Nat /\ l = p + (l - p)
        BY <1>2
      <3> QED
        BY <3>1
    <2>2. (l + 1) * N = (p + 1) * N + e * N
      <3>1. (p + 1 + e) * N = (p + 1) * N + e * N
        OBVIOUS
      <3>2. l + 1 = p + 1 + e
        BY <2>1
      <3> QED
        BY <3>1, <3>2
    <2>3. e * N \in Nat /\ (p + 1) * N \in Nat
      OBVIOUS
    <2> QED
      BY <2>2, <2>3
  <1> QED
    BY <1>1, <1>2

(* Without silent cycles a trail reads a symbol at least every graph.size     *)
(* transitions.                                                               *)
LEMMA TrailShort ==
    ASSUME WrittenInv, pc = "done", NoSilentCycles,
           NEW c, Len(c) \in Nat, NEW n \in Nat, NEW f, Trail(c, n, f)
    PROVE  n < (Len(c) + 1) * graph.size
  <1> DEFINE N == graph.size
             L == Len(c)
  <1>1. PICK rank \in [States(graph) -> States(graph)] :
          \A s \in States(graph) : \A k \in DOMAIN graph.arcs[s] :
            graph.arcs[s][k].in \in FlagNames \cup {Epsilon} => rank[graph.arcs[s][k].target] < rank[s]
    BY DEF NoSilentCycles
  <1>2. N \in Nat \ {0} /\ States(graph) = 0 .. N - 1 /\ L \in Nat
    BY AtTheEnd
  <1>3. \A s \in States(graph) : rank[s] \in Nat /\ rank[s] <= N - 1
    BY <1>1, <1>2
  <1> DEFINE K == {j \in 0 .. n : j + rank[f[j].s] < (f[j].pos + 1) * N}
  <1>4. \A j \in 0 .. n : WayOK(c, f[j])
    BY TrailWays, WayType
  <1>5. 0 \in K
    <2>1. f[0].s = 0 /\ f[0].pos = 0 /\ 0 \in States(graph)
      BY <1>2 DEF Trail, FirstWay
    <2>2. rank[0] \in Nat /\ rank[0] <= N - 1
      BY <1>3, <2>1
    <2>3. 0 + rank[0] < (0 + 1) * N
      BY <1>2, <2>2
    <2> QED
      BY <2>1, <2>3
  <1>6. ASSUME NEW j \in 1 .. n, j - 1 \in K
        PROVE  j \in K
    <2> DEFINE v == f[j - 1]
               w == f[j]
               r == rank[v.s]
               q == rank[w.s]
    <2>1. Goes(c, v, w)
      BY DEF Trail
    <2>2. WayOK(c, v) /\ WayOK(c, w)
      <3>1. j - 1 \in 0 .. n /\ j \in 0 .. n
        OBVIOUS
      <3> QED
        BY <1>4, <3>1
    <2>3. (j - 1) + r < (v.pos + 1) * N
      BY <1>6
    <2>4. r \in Nat /\ q \in Nat /\ q <= N - 1 /\ v.pos \in Nat
      BY <1>3, <2>2 DEF WayOK
    <2> DEFINE m == j - 1
    <2>5. m \in Nat /\ j = m + 1 /\ j \in 0 .. n
      OBVIOUS
    <2>6. m + r < (v.pos + 1) * N
      BY <2>3
    <2> HIDE DEF v, w, m
    <2>7. PICK k \in DOMAIN placeholders[v.s] : w = Extended(v, placeholders[v.s][k])
      BY <2>1 DEF Goes
    <2> DEFINE arc == placeholders[v.s][k]
    <2>8. w.s = arc.target /\ w.pos = IF Silent(arc.input) THEN v.pos ELSE v.pos + 1
      BY <2>7 DEF Extended
    <2>9. Silent(arc.input) => q < r
      <3>1. v.s \in States(graph)
        BY <2>2 DEF WayOK
      <3>2. k \in DOMAIN graph.arcs[v.s] /\ arc.target = graph.arcs[v.s][k].target
        BY <3>1, InputNumbered
      <3>3. Silent(arc.input) => graph.arcs[v.s][k].in \in FlagNames \cup {Epsilon}
        BY <3>1, SilentInputs
      <3> QED
        BY <1>1, <2>8, <3>1, <3>2, <3>3
    <2> DEFINE a == v.pos
               A == (a + 1) * N
    <2> HIDE DEF r, q, arc
    <2>10. A \in Nat /\ (a + 1 + 1) * N = A + N
      <3>1. a \in Nat /\ N \in Nat
        BY <1>2, <2>4
      <3> HIDE DEF a, N
      <3>2. a * N \in Nat /\ (a + 1) * N = a * N + N /\ (a + 1 + 1) * N = (a + 1) * N + N
        BY <3>1, LessTimes
      <3> QED
        BY <3>1, <3>2
    <2>11. CASE Silent(arc.input)
      <3>1. w.pos = a /\ q < r
        BY <2>8, <2>9, <2>11
      <3> HIDE DEF A
      <3>2. m + 1 + q < A
        BY <2>4, <2>5, <2>6, <2>10, <3>1 DEF A
      <3>3. j + q < (w.pos + 1) * N
        BY <2>5, <3>1, <3>2 DEF A
      <3> QED
        BY <2>5, <3>3 DEF q, w
    <2>12. CASE ~ Silent(arc.input)
      <3>1. w.pos = a + 1
        BY <2>8, <2>12
      <3> HIDE DEF A, N
      <3>2. m + r < A
        BY <2>6 DEF A
      <3>3. m + 1 + q < A + N
        BY <1>2, <2>4, <2>5, <2>10, <3>2
      <3>4. j + q < (w.pos + 1) * N
        BY <2>5, <2>10, <3>1, <3>3
      <3> QED
        BY <2>5, <3>4 DEF q, w, N
    <2> QED
      BY <2>11, <2>12
  <1> HIDE DEF K
  <1>7. \A j \in 0 .. n : j \in K
    BY <1>5, <1>6, UpTo
  <1>8. n \in K
    BY <1>7
  <1> DEFINE p == f[n].pos
             r == rank[f[n].s]
  <1>9. n + r < (p + 1) * N
    BY <1>8 DEF K
  <1>10. p \in Nat /\ p <= L /\ r \in Nat
    <2>1. n \in 0 .. n
      OBVIOUS
    <2>2. WayOK(c, f[n])
      BY <1>4, <2>1
    <2> QED
      BY <1>3, <2>2 DEF WayOK
  <1>11. (p + 1) * N <= (L + 1) * N
    <2> HIDE DEF p, N, L
    <2> QED
      BY <1>2, <1>10, LessTimes
  <1> DEFINE A == (p + 1) * N
             B == (L + 1) * N
  <1>12. A \in Nat /\ B \in Nat
    <2> HIDE DEF p, L, N
    <2> QED
      BY <1>2, <1>10
  <1>13. n + r < A /\ A <= B
    BY <1>9, <1>11
  <1> HIDE DEF A, B, r
  <1>14. n < B
    BY <1>10, <1>12, <1>13
  <1> QED
    BY <1>14 DEF B

(* So Ways is all of them. *)
LEMMA WaysAll ==
    ASSUME WrittenInv, pc = "done", NoSilentCycles, consumed \in Seq(Nat)
    PROVE  \A w : w \in Ways <=> IsWay(consumed, w) /\ w.pos = Len(consumed)
  <1>1. Len(consumed) \in Nat /\ graph.size \in Nat
    BY AtTheEnd
  <1>2. Longest \in Nat
    BY <1>1, LessTimes DEF Longest
  <1>3. \A n \in Nat : \A f : Trail(consumed, n, f) => n \in 0 .. Longest
    <2> SUFFICES ASSUME NEW n \in Nat, NEW f, Trail(consumed, n, f)
                 PROVE  n \in 0 .. Longest
      OBVIOUS
    <2>1. n < Longest
      BY <1>1, TrailShort DEF Longest
    <2> QED
      BY <1>2, <2>1
  <1>4. \A n \in 0 .. Longest : n \in Nat
    OBVIOUS
  <1>5. \A w : IsWay(consumed, w) <=> \E n \in 0 .. Longest : TrailTo(consumed, n, w)
    BY <1>3, <1>4 DEF IsWay, TrailTo
  <1>6. \A n \in 0 .. Longest : \A w : w \in WaysBy[n] <=> TrailTo(consumed, n, w)
    BY <1>2, WaysByTrails
  <1> QED
    BY <1>5, <1>6, WaysByLength

-----------------------------------------------------------------------------
(* The paths of a search that has returned.                                 *)

\* The path is at a state; the others are between a state's index entry for
\* epsilon and its transitions.
Active(p) ==
    IndexesTransitionTable(p.index) => At(wtransition_table, p.index).input = NO_SYMBOL_NUMBER

LEMMA ActiveAtState ==
    ASSUME WrittenInv, pc = "done", Addressable, NEW p, NEW w, w.s \in States(graph), StandsFor(p, w)
    PROVE  Active(p) <=> AtState(p, w)
  <1>1. ASSUME AtState(p, w)
        PROVE  Active(p)
    BY <1>1, SimpleMarker, IndexAddress DEF AtState, Active
  <1>2. ASSUME ~ AtState(p, w)
        PROVE  ~ Active(p)
    <2>1. 0 \in StateOffsets(w.s) /\ p.index = EpsilonAddress(w.s)
      BY <1>2 DEF StandsFor, AtEpsilons
    <2>2. At(wtransition_table, p.index).input \in {0} \cup flag_symbols /\ IndexesTransitionTable(p.index)
      BY <2>1, EpsilonAddressFacts
    <2>3. At(wtransition_table, p.index).input # NO_SYMBOL_NUMBER
      BY <2>2, SilentInputs
    <2> QED
      BY <2>2, <2>3 DEF Active
  <1> QED
    BY <1>1, <1>2

\* The paths at states are the ways that read the symbols since the last reset,
\* however many they are.
PathsAreWays ==
    stage = "ready" /\ NO_SYMBOL_NUMBER \notin ToSet(consumed) =>
      /\ \A p \in ToSet(paths) : Active(p) =>
           \E w : IsWay(consumed, w) /\ w.pos = Len(consumed) /\ AtState(p, w)
      /\ \A w : IsWay(consumed, w) /\ w.pos = Len(consumed) =>
           \E p \in ToSet(paths) : Active(p) /\ AtState(p, w)

LEMMA PathsWays == ProcInv /\ Addressable => PathsAreWays
  <1> SUFFICES ASSUME ProcInv, Addressable, stage = "ready", NO_SYMBOL_NUMBER \notin ToSet(consumed)
               PROVE  /\ \A p \in ToSet(paths) : Active(p) =>
                           \E w : IsWay(consumed, w) /\ w.pos = Len(consumed) /\ AtState(p, w)
                      /\ \A w : IsWay(consumed, w) /\ w.pos = Len(consumed) =>
                           \E p \in ToSet(paths) : Active(p) /\ AtState(p, w)
    BY DEF PathsAreWays
  <1>1. WrittenInv /\ pc = "done" /\ consumed \in Seq(Nat)
    BY DEF ProcInv
  <1>2. Len(consumed) \in Nat /\ (Len(consumed) = 0 => consumed = << >>)
    BY <1>1
  <1>3. PathsAre(paths, consumed, Len(paths))
    <2>1. i \in Nat /\ PathsAre(paths, consumed, i - 1) /\ i = Len(paths) + 1
      BY DEF ProcInv
    <2>2. Len(paths) \in Nat
      BY <2>1 DEF PathsAre, IsList
    <2>3. i - 1 = Len(paths)
      BY <2>1, <2>2
    <2> QED
      BY <2>1, <2>3
  <1>4. \A w : IsWay(consumed, w) => w.s \in States(graph)
    BY <1>1, <1>2, WayType DEF WayOK
  <1>5. ASSUME NEW p \in ToSet(paths), Active(p)
        PROVE  \E w : IsWay(consumed, w) /\ w.pos = Len(consumed) /\ AtState(p, w)
    <2>1. PICK w : IsWay(consumed, w) /\ w.pos = Len(consumed) /\ StandsFor(p, w)
      BY <1>3 DEF PathsAre, OnlyWays
    <2>2. AtState(p, w)
      BY <1>1, <1>4, <1>5, <2>1, ActiveAtState
    <2> QED
      BY <2>1, <2>2
  <1>6. ASSUME NEW w, IsWay(consumed, w), w.pos = Len(consumed)
        PROVE  \E p \in ToSet(paths) : Active(p) /\ AtState(p, w)
    <2>1. PICK p \in ToSet(paths) : AtState(p, w)
      BY <1>1, <1>2, <1>3, <1>6, AllEntered
    <2>2. Active(p)
      BY <1>1, <1>4, <1>6, <2>1, ActiveAtState DEF StandsFor
    <2> QED
      BY <2>1, <2>2
  <1> QED
    BY <1>5, <1>6

(* When a step of LookupState returns, its paths at states are exactly the     *)
(* ways through the transducer that read the symbols so far (lookup-state.cc), *)
(* with silent cycles in the transducer or without.                            *)
THEOREM PathsAreWaysHolds == ProcLookupSpec => [](Addressable => PathsAreWays)
  <1>1. ProcInv => (Addressable => PathsAreWays)
    BY PathsWays
  <1> QED
    BY <1>1, ProcInvariant, PTL

(* The property of the runs: where no cycle is silent, so that the ways that   *)
(* PathsFaithful counts up are all of them, the active paths are exactly these *)
(* ways, with their output, weight and flag values.                            *)
THEOREM PathsCorrect == ProcLookupSpec => [](Addressable /\ NoSilentCycles => PathsFaithful)
  <1>1. ASSUME ProcInv, Addressable, NoSilentCycles
        PROVE  PathsFaithful
    <2> SUFFICES ASSUME stage = "ready", NO_SYMBOL_NUMBER \notin ToSet(consumed)
                 PROVE  {<< p.index, p.out, p.weight, p.flags >> :
                           p \in {q \in ToSet(paths) : IndexesTransitionTable(q.index) =>
                                    At(wtransition_table, q.index).input = NO_SYMBOL_NUMBER}}
                          = {<< StateAddress(w.s), w.out, w.weight, w.flags >> : w \in Ways}
      BY DEF PathsFaithful
    <2>1. WrittenInv /\ pc = "done" /\ consumed \in Seq(Nat)
      BY <1>1 DEF ProcInv
    <2>2. \A w : w \in Ways <=> IsWay(consumed, w) /\ w.pos = Len(consumed)
      BY <1>1, <2>1, WaysAll
    <2> DEFINE A == {q \in ToSet(paths) : Active(q)}
               Read(p) == << p.index, p.out, p.weight, p.flags >>
               Gone(w) == << StateAddress(w.s), w.out, w.weight, w.flags >>
    <2>3. /\ \A p \in A : \E w \in Ways : AtState(p, w)
          /\ \A w \in Ways : \E p \in A : AtState(p, w)
      BY <1>1, <2>2, PathsWays DEF PathsAreWays
    <2>4. \A p, w : AtState(p, w) => Read(p) = Gone(w)
      BY DEF AtState, Same
    <2>5. {q \in ToSet(paths) : IndexesTransitionTable(q.index) =>
             At(wtransition_table, q.index).input = NO_SYMBOL_NUMBER} = A
      BY DEF Active
    <2> HIDE DEF A, Read, Gone
    <2>6. \A p \in A : \E w \in Ways : Read(p) = Gone(w)
      BY <2>3, <2>4
    <2>7. \A w \in Ways : \E p \in A : Gone(w) = Read(p)
      BY <2>3, <2>4
    <2>8. {Read(p) : p \in A} = {Gone(w) : w \in Ways}
      BY <2>6, <2>7
    <2> QED
      BY <2>5, <2>8 DEF Read, Gone
  <1>2. ProcInv => (Addressable /\ NoSilentCycles => PathsFaithful)
    BY <1>1
  <1> QED
    BY <1>2, ProcInvariant, PTL

=============================================================================

--------------------------- MODULE OlToBasicProofs ---------------------------
(***************************************************************************)
(* Proofs about OlToBasic: the conversion back reads from the written      *)
(* tables the transitions of every state, its agenda explores the graph of *)
(* the original transducer, and what it builds is the reachable part of    *)
(* that transducer.                                                        *)
(***************************************************************************)
EXTENDS OlToBasic, OlConvertProofs

-----------------------------------------------------------------------------
(* The addresses get_transitions_from_state collects.                       *)

\* The address of the k-th transition that was written for state s.
EntryAddress(s, k) == First[s] + TRANSITION_TARGET_TABLE_START + k - 1

EntryAddresses(s) == {EntryAddress(s, k) : k \in 1 .. Len(placeholders[s])}

\* The addresses of the transitions of s whose positions in its row are in B.
AddressesOf(s, B) ==
    {EntryAddress(s, k) : k \in {j \in 1 .. Len(placeholders[s]) : WriteOrder(placeholders[s])[j] \in B}}

LEMMA WriteOrderFacts ==
    ASSUME WrittenInv, pc = "done", NEW s \in States(graph)
    PROVE  LET order == WriteOrder(placeholders[s])
               n == Len(placeholders[s])
           IN  /\ n \in Nat /\ DOMAIN placeholders[s] = 1 .. n
               /\ order \in [1 .. n -> 1 .. n]
               /\ \A i, j \in 1 .. n : order[i] = order[j] => i = j
               /\ \A k \in 1 .. n : \E j \in 1 .. n : order[j] = k
  <1> DEFINE arcs == placeholders[s]
             order == WriteOrder(arcs)
             n == Len(arcs)
             S == DOMAIN arcs
             R == WrittenBefore(arcs)
  <1>1. arcs \in Seq(NumberedArc)
    BY AtTheEnd
  <1>2. n \in Nat /\ S = 1 .. n /\ IsFiniteSet(S) /\ Cardinality(S) = n /\ StrictOrder(S, R)
    <2> HIDE DEF arcs
    <2> QED
      BY <1>1, WriteOrderStrict
  <1>3. order = Ordered(S, R)
    BY DEF WriteOrder
  <1> HIDE DEF arcs, S, R, order, n
  <1>4. Lists(order, n, S, R) /\ Covers(order, n, S)
    BY <1>2, <1>3, OrderedLists, OrderedCovers
  <1>5. \A i, j \in 1 .. n : i < j => order[i] # order[j]
    <2>1. \A i, j \in 1 .. n : i < j => << order[i], order[j] >> \in R
      BY <1>4 DEF Lists
    <2>2. \A i \in 1 .. n : order[i] \in S
      BY <1>4 DEF Lists
    <2>3. \A x \in S : << x, x >> \notin R
      BY <1>2 DEF StrictOrder
    <2> QED
      BY <2>1, <2>2, <2>3
  <1>6. \A i, j \in 1 .. n : order[i] = order[j] => i = j
    BY <1>2, <1>5
  <1> QED
    BY <1>2, <1>4, <1>6 DEF Lists, Covers, arcs, S, order, n

(* A run that reads a block collects the addresses of the block's entries.  *)
LEMMA BlockAddresses ==
    ASSUME WrittenInv, pc = "done", NEW s \in States(graph),
           NEW B \in SUBSET DOMAIN placeholders[s], NEW c \in Nat, NEW S,
           Block(s, Run(wtransition_table, EntryAddress(s, c + 1), S), B, c)
    PROVE  RunAddresses(EntryAddress(s, c + 1), S) = AddressesOf(s, B)
  <1> DEFINE order == WriteOrder(placeholders[s])
             n == Len(placeholders[s])
             f == First[s] + TRANSITION_TARGET_TABLE_START
             r == Run(wtransition_table, EntryAddress(s, c + 1), S)
             m == Len(r)
  <1>1. /\ n \in Nat /\ DOMAIN placeholders[s] = 1 .. n
        /\ order \in [1 .. n -> 1 .. n]
        /\ \A i, j \in 1 .. n : order[i] = order[j] => i = j
    BY WriteOrderFacts
  <1>2. f \in Nat
    BY FirstFacts, ConstantsAssumption
  <1>3. /\ m \in Nat /\ c + m <= n
        /\ \A j \in 1 .. m : order[c + j] \in B
        /\ \A k \in B : \E j \in 1 .. m : order[c + j] = k
    BY DEF Block
  <1>4. RunAddresses(EntryAddress(s, c + 1), S) = {EntryAddress(s, c + 1) + k - 1 : k \in 1 .. m}
    BY DEF RunAddresses
  <1>5. \A k \in Int : EntryAddress(s, k) = f + k - 1
    BY <1>2 DEF EntryAddress
  <1> HIDE DEF order, n, f, m, r
  <1>6. \A k \in 1 .. m : EntryAddress(s, c + 1) + k - 1 = EntryAddress(s, c + k) /\ c + k \in 1 .. n
    BY <1>1, <1>2, <1>3, <1>5
  <1>7. AddressesOf(s, B) = {EntryAddress(s, k) : k \in {j \in 1 .. n : order[j] \in B}}
    BY DEF AddressesOf, n, order
  <1>8. RunAddresses(EntryAddress(s, c + 1), S) \subseteq AddressesOf(s, B)
    BY <1>3, <1>4, <1>6, <1>7
  <1>9. \A k \in 1 .. n : order[k] \in B => \E j \in 1 .. m : k = c + j
    BY <1>1, <1>3, <1>6
  <1>10. AddressesOf(s, B) \subseteq RunAddresses(EntryAddress(s, c + 1), S)
    BY <1>4, <1>6, <1>7, <1>9
  <1> QED
    BY <1>8, <1>10

\* Every symbol of a transition has the name that the transition had.
NamesKept(s, k) ==
    /\ placeholders[s][k].target = graph.arcs[s][k].target
    /\ placeholders[s][k].weight = graph.arcs[s][k].weight
    /\ placeholders[s][k].input \in AllSymbols /\ placeholders[s][k].output \in AllSymbols
    /\ symbol_table[placeholders[s][k].input + 1] = graph.arcs[s][k].in
    /\ symbol_table[placeholders[s][k].output + 1] = graph.arcs[s][k].out

LEMMA SymbolNamed ==
    ASSUME NEW table, table \in Seq(STRING), NEW x, \E i \in 1 .. Len(table) : table[i] = x
    PROVE  SymbolNumberOf(table, x) \in 0 .. Len(table) - 1 /\ table[SymbolNumberOf(table, x) + 1] = x
  <1>1. PICK i \in 1 .. Len(table) : table[i] = x /\ i = CHOOSE j \in 1 .. Len(table) : table[j] = x
    OBVIOUS
  <1>2. SymbolNumberOf(table, x) = i - 1
    BY <1>1 DEF SymbolNumberOf
  <1>3. Len(table) \in Nat
    OBVIOUS
  <1>4. i - 1 \in 0 .. Len(table) - 1 /\ (i - 1) + 1 = i
    BY <1>1, <1>3
  <1> QED
    BY <1>1, <1>2, <1>4

LEMMA NumbersName ==
    ASSUME WrittenInv, pc = "done", NEW s \in States(graph)
    PROVE  /\ Len(placeholders[s]) = Len(graph.arcs[s])
           /\ DOMAIN placeholders[s] = DOMAIN graph.arcs[s]
           /\ \A k \in DOMAIN placeholders[s] : NamesKept(s, k)
  <1> DEFINE table == symbol_table
             arcs == graph.arcs[s]
  <1>1. TypeOK /\ NumberingKept /\ NumbersBounded /\ SymbolsInOrder
    BY AtTheEnd DEF WrittenInv, IndexInv
  <1>2. arcs \in Seq(Arc)
    BY <1>1, GraphsAssumption DEF TypeOK
  <1>3. placeholders[s] =
          [j \in 1 .. Len(arcs) |->
            [input  |-> SymbolNumberOf(table, arcs[j].in),
             output |-> SymbolNumberOf(table, arcs[j].out),
             target |-> arcs[j].target,
             weight |-> arcs[j].weight]]
    BY <1>1 DEF NumberingKept, NumberedArcs
  <1>4. \A k \in DOMAIN arcs : arcs[k].in \in InputNames(graph) /\ arcs[k].out \in OutputNames(graph)
    BY DEF InputNames, OutputNames
  <1>5. \A x \in InputNames(graph) \cup OutputNames(graph) : \E i \in 1 .. Len(table) : table[i] = x
    <2>1. table \in Seq(STRING) /\ Len(table) >= 1
      BY <1>1 DEF NumbersBounded
    <2>2. DOMAIN table = 1 .. Len(table) /\ 1 \in 1 .. Len(table)
      BY <2>1
    <2>3. /\ table[1] = Epsilon
          /\ InputNames(graph) \cup OutputNames(graph) \subseteq ToSet(table) \cup {Epsilon}
      BY <1>1 DEF SymbolsInOrder
    <2> QED
      BY <2>2, <2>3 DEF ToSet
  <1>6. table \in Seq(STRING)
    BY <1>1 DEF NumbersBounded
  <1> HIDE DEF table, arcs
  <1>7. DOMAIN arcs = 1 .. Len(arcs) /\ Len(arcs) \in Nat
    BY <1>2
  <1>8. DOMAIN placeholders[s] = 1 .. Len(arcs) /\ Len(placeholders[s]) = Len(arcs)
    <2>1. DOMAIN placeholders[s] = 1 .. Len(arcs)
      BY <1>3
    <2>2. DOMAIN placeholders[s] = 1 .. Len(placeholders[s]) /\ Len(placeholders[s]) \in Nat
      BY WriteOrderFacts
    <2> QED
      BY <1>7, <2>1, <2>2
  <1>9. ASSUME NEW k \in 1 .. Len(arcs)
        PROVE  NamesKept(s, k)
    <2>1. \E i \in 1 .. Len(table) : table[i] = arcs[k].in
      BY <1>4, <1>5, <1>7
    <2>2. \E i \in 1 .. Len(table) : table[i] = arcs[k].out
      BY <1>4, <1>5, <1>7
    <2>3. /\ placeholders[s][k].input = SymbolNumberOf(table, arcs[k].in)
          /\ placeholders[s][k].output = SymbolNumberOf(table, arcs[k].out)
          /\ placeholders[s][k].target = arcs[k].target
          /\ placeholders[s][k].weight = arcs[k].weight
      BY <1>3
    <2>4. /\ placeholders[s][k].input \in 0 .. Len(table) - 1
          /\ table[placeholders[s][k].input + 1] = arcs[k].in
      BY <1>6, <2>1, <2>3, SymbolNamed
    <2>5. /\ placeholders[s][k].output \in 0 .. Len(table) - 1
          /\ table[placeholders[s][k].output + 1] = arcs[k].out
      BY <1>6, <2>2, <2>3, SymbolNamed
    <2> QED
      BY <2>3, <2>4, <2>5 DEF NamesKept, AllSymbols, table, arcs
  <1> QED
    BY <1>7, <1>8, <1>9 DEF arcs

(* Among the input symbols of transitions the flag diacritics of the        *)
(* alphabet are those that were counted as used; epsilon is none of them.   *)
LEMMA FlagsLikeEpsilon ==
    ASSUME WrittenInv, pc = "done", NEW s \in States(graph)
    PROVE  /\ \A k \in DOMAIN placeholders[s] :
                placeholders[s][k].input \in LikeEpsilon <=> placeholders[s][k].input \in flag_symbols
           /\ flag_symbols \subseteq LikeEpsilon
           /\ 0 \notin LikeEpsilon /\ 0 \in AllSymbols
           /\ AllSymbols \subseteq 0 .. NO_SYMBOL_NUMBER - 1
  <1> DEFINE table == symbol_table
  <1>1. TypeOK /\ NumberingKept /\ NumbersBounded /\ SymbolsInOrder
    BY AtTheEnd DEF WrittenInv, IndexInv
  <1>2. flag_symbols = NumbersOf(table, InputsUsed \cap FlagNames)
    BY <1>1 DEF NumberingKept
  <1>3. \A y : y \in flag_symbols <=>
          \E j \in 1 .. Len(table) : table[j] \in InputsUsed \cap FlagNames /\ y = j - 1
    BY <1>2 DEF NumbersOf
  <1>4. \A y : y \in LikeEpsilon <=> \E j \in 1 .. Len(table) : table[j] \in FlagNames /\ y = j - 1
    BY DEF NumbersOf, LikeEpsilon
  <1>5. /\ Len(table) \in Nat /\ Len(table) >= 1 /\ Len(table) <= NO_SYMBOL_NUMBER
        /\ table[1] = Epsilon
    BY <1>1 DEF NumbersBounded, SymbolsInOrder
  <1>6. 0 \notin LikeEpsilon
    <2>1. \A j \in 1 .. Len(table) : 0 = j - 1 => j = 1
      BY <1>5
    <2> QED
      BY <1>4, <1>5, <2>1, ConstantsAssumption
  <1>7. AllSymbols = 0 .. Len(table) - 1
    BY DEF AllSymbols
  <1>8. ASSUME NEW k \in DOMAIN placeholders[s], placeholders[s][k].input \in LikeEpsilon
        PROVE  placeholders[s][k].input \in flag_symbols
    <2>1. NamesKept(s, k) /\ k \in DOMAIN graph.arcs[s]
      BY NumbersName
    <2>2. PICK j \in 1 .. Len(table) : table[j] \in FlagNames /\ placeholders[s][k].input = j - 1
      BY <1>4, <1>8
    <2>3. placeholders[s][k].input + 1 = j
      BY <1>5, <2>2
    <2>4. table[j] = graph.arcs[s][k].in
      BY <2>1, <2>3 DEF NamesKept
    <2>5. graph.arcs[s][k].in \in InputsUsed \cup {Epsilon}
      BY <1>1, <2>1, NamesUsed
    <2>6. table[j] \in InputsUsed \cap FlagNames
      BY <2>2, <2>4, <2>5, ConstantsAssumption
    <2> QED
      BY <1>3, <2>2, <2>6
  <1> HIDE DEF table
  <1>9. flag_symbols \subseteq LikeEpsilon
    BY <1>3, <1>4
  <1>10. 0 \in AllSymbols /\ AllSymbols \subseteq 0 .. NO_SYMBOL_NUMBER - 1
    BY <1>5, <1>7, ConstantsAssumption
  <1> QED
    BY <1>6, <1>8, <1>9, <1>10

(* The entry for x is in the index table, and marked x, exactly when the    *)
(* state has transitions under x; it leads to the first of them.            *)
LEMMA IndexHit ==
    ASSUME WrittenInv, pc = "done", Addressable, NEW s \in States(graph), ~ SimpleState(s),
           NEW x \in AllSymbols
    PROVE  LET p == StateAddress(s) + 1 + x
           IN  /\ ~ IndexesTransitionTable(StateAddress(s))
               /\ (InIndexTable(p) /\ Matches(At(windex_table, p), x)) <=> x \in StateOffsets(s)
               /\ x \in StateOffsets(s) =>
                    At(windex_table, p).target
                      = EntryAddress(s, SymbolOffset(x, placeholders[s], flag_symbols) + 1)
  <1> DEFINE a == StateAddress(s)
             p == a + 1 + x
             off == SymbolOffset(x, placeholders[s], flag_symbols)
             e == IndexTableEntry(p)
  <1>1. x \in Nat /\ x \in 0 .. NO_SYMBOL_NUMBER - 1 /\ NO_SYMBOL_NUMBER \in Nat
    BY FlagsLikeEpsilon, ConstantsAssumption
  <1>2. s \in DOMAIN start_index /\ a = start_index[s] /\ a \in Nat
    BY AddressType
  <1>3. Len(windex_table) \in Nat /\ a + seen_input_symbols < Len(windex_table) /\ seen_input_symbols \in Nat
    BY <1>2, IndexTableFacts
  <1>4. Len(windex_table) <= TRANSITION_TARGET_TABLE_START /\ TRANSITION_TARGET_TABLE_START \in Nat
    BY ConstantsAssumption DEF Addressable
  <1>5. start_index[s] + 1 + x = p
    BY <1>2
  <1> HIDE DEF a
  <1>6. p \in Nat /\ a < TRANSITION_TARGET_TABLE_START
    BY <1>1, <1>2, <1>3, <1>4
  <1>7. ~ IndexesTransitionTable(a)
    BY <1>2, <1>6, AddressArithmetic
  <1>8. /\ (p \in DOMAIN used_indices /\ used_indices[p][2] = x) <=> x \in StateOffsets(s)
        /\ x \in StateOffsets(s) => used_indices[p][1] = s
    <2>1. NoFalseHit
      BY AtTheEnd, OwnershipGivesNoFalseHit
    <2> HIDE DEF p
    <2> QED
      BY <1>1, <1>2, <1>5, <2>1 DEF NoFalseHit
  <1>9. InIndexTable(p) => At(windex_table, p) = e
    <2> SUFFICES ASSUME InIndexTable(p)
                 PROVE  At(windex_table, p) = e
      OBVIOUS
    <2>1. p \in 0 .. Len(windex_table) - 1 /\ p < TRANSITION_TARGET_TABLE_START
      BY <1>3, <1>4, <1>6 DEF InIndexTable
    <2>2. TableAddress(p) = p
      BY <1>6, <2>1, AddressArithmetic
    <2> HIDE DEF p
    <2> QED
      BY <2>1, <2>2, IndexTableFacts DEF At
  <1>10. CASE x \in StateOffsets(s)
    <2>1. x \in 0 .. seen_input_symbols - 1
      <3>1. SymbolsInOrder
        BY AtTheEnd
      <3> QED
        BY <1>10, <3>1 DEF SymbolsInOrder, StateOffsets
    <2>2. InIndexTable(p)
      BY <1>1, <1>2, <1>3, <2>1 DEF InIndexTable
    <2>3. p \in DOMAIN used_indices /\ used_indices[p][2] = x /\ used_indices[p][1] = s
      BY <1>8, <1>10
    <2> HIDE DEF p
    <2>4. e = IndexEntry(x, First[s] + off + TRANSITION_TARGET_TABLE_START)
      BY <1>1, <2>3 DEF IndexTableEntry, First
    <2> HIDE DEF e, off
    <2>5. e.input = x /\ e.target = First[s] + off + TRANSITION_TARGET_TABLE_START
      BY <2>4 DEF IndexEntry
    <2>6. Matches(At(windex_table, p), x) /\ At(windex_table, p) = e
      BY <1>1, <1>9, <2>2, <2>5 DEF Matches
    <2>7. off \in Nat /\ First[s] \in Nat
      <3>1. IsFiniteSet(DOMAIN placeholders[s])
        BY AtTheEnd, WriteOrderStrict
      <3>2. \A S \in SUBSET DOMAIN placeholders[s] : Cardinality(S) \in Nat
        BY <3>1, FS_Subset, FS_CardinalityType
      <3> QED
        BY <3>2, FirstFacts DEF off, SymbolOffset
    <2>8. e.target = EntryAddress(s, off + 1)
      BY <1>4, <2>5, <2>7 DEF EntryAddress
    <2> QED
      BY <1>7, <1>10, <2>2, <2>6, <2>8 DEF a, p, off
  <1>11. CASE x \notin StateOffsets(s)
    <2>1. ~ (p \in DOMAIN used_indices /\ used_indices[p][2] = x)
      BY <1>8, <1>11
    <2> HIDE DEF p
    <2>2. ~ Matches(e, x)
      BY <1>1, <2>1 DEF Matches, IndexTableEntry, BlankIndex, FinalIndex, IndexEntry
    <2>3. ~ (InIndexTable(p) /\ Matches(At(windex_table, p), x))
      BY <1>9, <2>2
    <2> QED
      BY <1>7, <1>11, <2>3 DEF a, p
  <1> QED
    BY <1>10, <1>11

(* The entry at a transition's address is the transition's.                 *)
LEMMA EntryRead ==
    ASSUME WrittenInv, pc = "done", NEW s \in States(graph), NEW k \in 1 .. Len(placeholders[s])
    PROVE  /\ EntryAddress(s, k) \in Nat
           /\ At(wtransition_table, EntryAddress(s, k))
                = TransitionEntry(placeholders[s][WriteOrder(placeholders[s])[k]])
  <1> DEFINE y == First[s] + k - 1
  <1>1. /\ First[s] \in Nat /\ Len(placeholders[s]) \in Nat
        /\ TRANSITION_TARGET_TABLE_START \in Nat
    BY FirstFacts, ConstantsAssumption
  <1>2. k \in Nat /\ k >= 1
    BY <1>1
  <1>3. y \in Nat /\ y + 1 = First[s] + k
    BY <1>1, <1>2
  <1>4. EntryAddress(s, k) = y + TRANSITION_TARGET_TABLE_START
    BY <1>1, <1>2 DEF EntryAddress
  <1> HIDE DEF y
  <1>5. TableAddress(EntryAddress(s, k)) = y
    BY <1>3, <1>4, AddressArithmetic
  <1>6. At(wtransition_table, EntryAddress(s, k)) = wtransition_table[First[s] + k]
    BY <1>3, <1>5 DEF At
  <1>7. wtransition_table[First[s] + k] = StateTransitions(s)[k]
    BY TransitionTableFacts
  <1>8. StateTransitions(s)[k] = TransitionEntry(placeholders[s][WriteOrder(placeholders[s])[k]])
    BY EntriesType
  <1> QED
    BY <1>1, <1>3, <1>4, <1>6, <1>7, <1>8

(* A run that starts behind the transitions C and takes the symbols S       *)
(* collects the addresses of the transitions with symbols in S.             *)
LEMMA RunFromEntry ==
    ASSUME WrittenInv, pc = "done", Addressable, NEW s \in States(graph),
           NEW S, NO_SYMBOL_NUMBER \notin S,
           NEW C \in SUBSET DOMAIN placeholders[s], C \cap WithSymbols(s, S) = {},
           Closed(s, C), Closed(s, C \cup WithSymbols(s, S)),
           NEW c, c = Cardinality(C)
    PROVE  /\ c \in Nat
           /\ RunAddresses(EntryAddress(s, c + 1), S) = AddressesOf(s, WithSymbols(s, S))
  <1> DEFINE B == WithSymbols(s, S)
             i == EntryAddress(s, c + 1)
  <1>1. c \in Nat
    <2>1. IsFiniteSet(DOMAIN placeholders[s])
      BY AtTheEnd, WriteOrderStrict
    <2> QED
      BY <2>1, FS_Subset, FS_CardinalityType
  <1>2. TableAddress(i) = First[s] + c
    <2> DEFINE y == First[s] + c
    <2>1. y \in Nat /\ i = y + TRANSITION_TARGET_TABLE_START
      BY <1>1, FirstFacts, ConstantsAssumption DEF EntryAddress
    <2> HIDE DEF y, i
    <2> QED
      BY <2>1, AddressArithmetic DEF y
  <1>3. B \in SUBSET DOMAIN placeholders[s]
    BY DEF WithSymbols
  <1> HIDE DEF B, i
  <1>4. Block(s, Run(wtransition_table, i, S), B, Cardinality(C))
    BY <1>2, BlockRead DEF B
  <1>5. Block(s, Run(wtransition_table, EntryAddress(s, c + 1), S), B, c)
    BY <1>4 DEF i
  <1>6. RunAddresses(EntryAddress(s, c + 1), S) = AddressesOf(s, B)
    BY <1>1, <1>3, <1>5, BlockAddresses
  <1> QED
    BY <1>1, <1>6 DEF B

LEMMA NoneBefore ==
    ASSUME WrittenInv, pc = "done", Addressable, NEW s \in States(graph),
           NEW S, NO_SYMBOL_NUMBER \notin S, Closed(s, WithSymbols(s, S))
    PROVE  RunAddresses(EntryAddress(s, 1), S) = AddressesOf(s, WithSymbols(s, S))
  <1>1. Closed(s, {}) /\ {} \in SUBSET DOMAIN placeholders[s] /\ Closed(s, {} \cup WithSymbols(s, S))
    BY DEF Closed
  <1>2. Cardinality({}) = 0 /\ 0 + 1 = 1
    BY FS_EmptySet
  <1>3. {} \cap WithSymbols(s, S) = {}
    OBVIOUS
  <1>4. RunAddresses(EntryAddress(s, 0 + 1), S) = AddressesOf(s, WithSymbols(s, S))
    BY <1>1, <1>2, <1>3, RunFromEntry
  <1> QED
    BY <1>2, <1>4

LEMMA AllAddresses ==
    ASSUME WrittenInv, pc = "done", NEW s \in States(graph)
    PROVE  AddressesOf(s, DOMAIN placeholders[s]) = EntryAddresses(s)
  BY WriteOrderFacts DEF AddressesOf, EntryAddresses

(* A simple state: everything behind its marker.                            *)
LEMMA ReadSimple ==
    ASSUME WrittenInv, pc = "done", Addressable, NEW s \in States(graph), SimpleState(s)
    PROVE  GetTransitionsFromState(StateAddress(s)) = EntryAddresses(s)
  <1> DEFINE a == StateAddress(s)
  <1>1. /\ a = First[s] + TRANSITION_TARGET_TABLE_START - 1 /\ First[s] \in Nat /\ First[s] >= 1
        /\ TRANSITION_TARGET_TABLE_START \in Nat
    BY AddressType, FirstFacts, ConstantsAssumption
  <1>2. IndexesTransitionTable(a)
    BY <1>1, AddressArithmetic
  <1>3. a + 1 = EntryAddress(s, 1)
    BY <1>1 DEF EntryAddress
  <1>4. WithSymbols(s, AllSymbols) = DOMAIN placeholders[s]
    <2>1. \A k \in DOMAIN placeholders[s] : placeholders[s][k].input \in AllSymbols
      BY NumbersName DEF NamesKept
    <2> QED
      BY <2>1 DEF WithSymbols
  <1>5. NO_SYMBOL_NUMBER \notin AllSymbols
    <2>1. AllSymbols \subseteq 0 .. NO_SYMBOL_NUMBER - 1
      BY FlagsLikeEpsilon
    <2>2. NO_SYMBOL_NUMBER \notin 0 .. NO_SYMBOL_NUMBER - 1
      BY ConstantsAssumption
    <2> QED
      BY <2>1, <2>2
  <1>6. Closed(s, WithSymbols(s, AllSymbols))
    BY <1>4 DEF Closed
  <1> HIDE DEF a
  <1>7. RunAddresses(EntryAddress(s, 1), AllSymbols) = EntryAddresses(s)
    BY <1>4, <1>5, <1>6, NoneBefore, AllAddresses
  <1>8. GetTransitionsFromState(a) = RunAddresses(a + 1, AllSymbols)
    BY <1>2 DEF GetTransitionsFromState
  <1> QED
    BY <1>3, <1>7, <1>8 DEF a

(* What one index entry leads to: under epsilon the epsilons, and with the  *)
(* flag diacritics also those; under another symbol its own transitions.    *)
LEMMA ReadEntry ==
    ASSUME WrittenInv, pc = "done", Addressable, NEW s \in States(graph),
           NEW x \in AllSymbols \ LikeEpsilon
    PROVE  RunAddresses(EntryAddress(s, SymbolOffset(x, placeholders[s], flag_symbols) + 1), {x})
             = AddressesOf(s, WithSymbols(s, {x}))
  <1>1. /\ x \in Nat /\ x # NO_SYMBOL_NUMBER /\ x \notin flag_symbols /\ 0 \notin flag_symbols
    <2>1. x \in 0 .. NO_SYMBOL_NUMBER - 1 /\ flag_symbols \subseteq LikeEpsilon /\ 0 \notin LikeEpsilon
      BY FlagsLikeEpsilon
    <2> QED
      BY <2>1, ConstantsAssumption
  <1>2. CASE x = 0
    <2>1. SymbolOffset(x, placeholders[s], flag_symbols) + 1 = 1
      BY <1>2 DEF SymbolOffset
    <2>2. Closed(s, WithSymbols(s, {x}))
      <3>1. \A j, k \in DOMAIN placeholders[s] :
              /\ placeholders[s][j].input \in Nat
              /\ placeholders[s][k].input = 0 /\ << j, k >> \in WrittenBefore(placeholders[s]) =>
                   placeholders[s][j].input = 0
        <4>1. \A k \in DOMAIN placeholders[s] : placeholders[s][k].input \in Nat
          BY AtTheEnd DEF NumberedArc
        <4>2. \A y \in Nat : ~ SymbolBefore(y, 0)
          BY <1>1 DEF SymbolBefore, WriteClass
        <4> QED
          BY <4>1, <4>2 DEF WrittenBefore
      <3> QED
        BY <1>2, <3>1 DEF Closed, WithSymbols
    <2> QED
      BY <1>1, <2>1, <2>2, NoneBefore
  <1>3. CASE x # 0
    <2> DEFINE C == {k \in DOMAIN placeholders[s] : \/ placeholders[s][k].input = 0
                                                    \/ placeholders[s][k].input \in flag_symbols
                                                    \/ placeholders[s][k].input < x}
               c == SymbolOffset(x, placeholders[s], flag_symbols)
    <2>1. x \in Nat \ ({0} \cup flag_symbols)
      BY <1>1, <1>3
    <2>2. /\ Closed(s, C) /\ Closed(s, C \cup WithSymbols(s, {x}))
          /\ C \cap WithSymbols(s, {x}) = {}
          /\ Cardinality(C) = c
      BY <2>1, SymbolBlocks
    <2>3. C \in SUBSET DOMAIN placeholders[s] /\ NO_SYMBOL_NUMBER \notin {x}
      BY <1>1
    <2> HIDE DEF C, c
    <2>4. RunAddresses(EntryAddress(s, c + 1), {x}) = AddressesOf(s, WithSymbols(s, {x}))
      BY <2>2, <2>3, RunFromEntry
    <2> QED
      BY <2>4 DEF c
  <1> QED
    BY <1>2, <1>3

LEMMA ReadFlags ==
    ASSUME WrittenInv, pc = "done", Addressable, NEW s \in States(graph)
    PROVE  {i \in RunAddresses(EntryAddress(s, SymbolOffset(0, placeholders[s], flag_symbols) + 1),
                               {0} \cup LikeEpsilon) :
              At(wtransition_table, i).input \in LikeEpsilon}
             = AddressesOf(s, WithSymbols(s, LikeEpsilon))
  <1> DEFINE S == {0} \cup LikeEpsilon
             W == WithSymbols(s, S)
             order == WriteOrder(placeholders[s])
  <1>1. SymbolOffset(0, placeholders[s], flag_symbols) + 1 = 1
    BY DEF SymbolOffset
  <1>2. W = WithSymbols(s, {0} \cup flag_symbols)
    BY FlagsLikeEpsilon DEF WithSymbols
  <1>3. NO_SYMBOL_NUMBER \notin S
    <2>1. \A y \in LikeEpsilon : y \in 0 .. NO_SYMBOL_NUMBER - 1
      <3>1. /\ Len(symbol_table) \in Nat /\ Len(symbol_table) <= NO_SYMBOL_NUMBER
        BY AtTheEnd DEF NumbersBounded
      <3>2. \A y \in LikeEpsilon : \E j \in 1 .. Len(symbol_table) : y = j - 1
        BY DEF LikeEpsilon, NumbersOf
      <3> QED
        BY <3>1, <3>2, ConstantsAssumption
    <2>2. NO_SYMBOL_NUMBER \notin 0 .. NO_SYMBOL_NUMBER - 1 /\ NO_SYMBOL_NUMBER # 0
      BY ConstantsAssumption
    <2> QED
      BY <2>1, <2>2
  <1>4. Closed(s, W)
    BY <1>2, SymbolBlocks
  <1>5. RunAddresses(EntryAddress(s, 1), S) = AddressesOf(s, W)
    <2> HIDE DEF S
    <2> QED
      BY <1>3, <1>4, NoneBefore
  <1>6. /\ order \in [1 .. Len(placeholders[s]) -> DOMAIN placeholders[s]]
    BY EntriesType
  <1>7. \A k \in 1 .. Len(placeholders[s]) :
          At(wtransition_table, EntryAddress(s, k)).input = placeholders[s][order[k]].input
    BY EntryRead DEF TransitionEntry, Transition
  <1>8. AddressesOf(s, W) = {EntryAddress(s, k) : k \in {j \in 1 .. Len(placeholders[s]) : order[j] \in W}}
    BY DEF AddressesOf
  <1>9. AddressesOf(s, WithSymbols(s, LikeEpsilon)) =
          {EntryAddress(s, k) : k \in {j \in 1 .. Len(placeholders[s]) : order[j] \in WithSymbols(s, LikeEpsilon)}}
    BY DEF AddressesOf
  <1>10. /\ \A j \in 1 .. Len(placeholders[s]) :
              order[j] \in W <=> placeholders[s][order[j]].input \in S
         /\ \A j \in 1 .. Len(placeholders[s]) :
              order[j] \in WithSymbols(s, LikeEpsilon) <=> placeholders[s][order[j]].input \in LikeEpsilon
    BY <1>6 DEF WithSymbols
  <1> HIDE DEF W, order
  <1>11. {i \in AddressesOf(s, W) : At(wtransition_table, i).input \in LikeEpsilon}
           = AddressesOf(s, WithSymbols(s, LikeEpsilon))
    BY <1>7, <1>8, <1>9, <1>10
  <1> QED
    BY <1>1, <1>5, <1>11

(* A state in the index table: the symbols that hit, and the flags.         *)
LEMMA ReadIndexed ==
    ASSUME WrittenInv, pc = "done", Addressable, NEW s \in States(graph), ~ SimpleState(s)
    PROVE  GetTransitionsFromState(StateAddress(s)) = EntryAddresses(s)
  <1> DEFINE a == StateAddress(s)
             hit(x) == InIndexTable(a + 1 + x) /\ Matches(At(windex_table, a + 1 + x), x)
             target(x) == At(windex_table, a + 1 + x).target
             plain == {x \in AllSymbols \ LikeEpsilon : hit(x)}
             flags == IF hit(0) THEN {i \in RunAddresses(target(0), {0} \cup LikeEpsilon) :
                                        At(wtransition_table, i).input \in LikeEpsilon}
                                ELSE {}
             order == WriteOrder(placeholders[s])
             n == Len(placeholders[s])
             of(x) == AddressesOf(s, WithSymbols(s, {x}))
  <1>1. 0 \in AllSymbols \ LikeEpsilon
    BY FlagsLikeEpsilon
  <1>2. \A x \in AllSymbols : hit(x) <=> x \in StateOffsets(s)
    BY IndexHit
  <1>3. \A x \in AllSymbols : x \in StateOffsets(s) =>
          target(x) = EntryAddress(s, SymbolOffset(x, placeholders[s], flag_symbols) + 1)
    BY IndexHit
  <1>4. GetTransitionsFromState(a) = FromIndex(a)
    <2>1. 0 \in AllSymbols
      BY <1>1
    <2>2. ~ IndexesTransitionTable(a)
      BY <2>1, IndexHit
    <2> QED
      BY <2>2 DEF GetTransitionsFromState
  <1>5. FromIndex(a) = (UNION {RunAddresses(target(x), {x}) : x \in plain}) \cup flags
    BY DEF FromIndex
  <1>6. plain = {x \in AllSymbols \ LikeEpsilon : x \in StateOffsets(s)}
    BY <1>2
  <1>7. \A x \in plain : RunAddresses(target(x), {x}) = of(x)
    BY <1>3, <1>6, ReadEntry
  <1>8. flags = IF 0 \in StateOffsets(s) THEN AddressesOf(s, WithSymbols(s, LikeEpsilon)) ELSE {}
    BY <1>1, <1>2, <1>3, ReadFlags
  <1>9. order \in [1 .. n -> DOMAIN placeholders[s]]
    BY EntriesType
  <1>10. \A k \in DOMAIN placeholders[s] :
           /\ placeholders[s][k].input \in AllSymbols
           /\ IndexOffset(placeholders[s][k].input, flag_symbols) \in StateOffsets(s)
           /\ placeholders[s][k].input \in LikeEpsilon <=> placeholders[s][k].input \in flag_symbols
    BY NumbersName, FlagsLikeEpsilon DEF NamesKept, StateOffsets, Offsets, Inputs
  <1>11. \A B, k : k \in 1 .. n /\ order[k] \in B => EntryAddress(s, k) \in AddressesOf(s, B)
    BY DEF AddressesOf
  <1>12. \A B : AddressesOf(s, B) \subseteq EntryAddresses(s)
    BY DEF AddressesOf, EntryAddresses
  <1>13. EntryAddresses(s) = {EntryAddress(s, k) : k \in 1 .. n}
    BY DEF EntryAddresses
  <1> HIDE DEF a, hit, target, plain, flags, order, n
  <1> DEFINE part == [x \in plain |-> RunAddresses(target(x), {x})]
             all == GetTransitionsFromState(a)
  <1>14. all = (UNION {part[x] : x \in plain}) \cup flags
    <2>1. {part[x] : x \in plain} = {RunAddresses(target(x), {x}) : x \in plain}
      OBVIOUS
    <2> QED
      BY <1>4, <1>5, <2>1
  <1>15. \A x \in plain : part[x] = of(x)
    BY <1>7
  <1> HIDE DEF part, all, of
  <1>16. \A i : i \in all <=> (\E x \in plain : i \in part[x]) \/ i \in flags
    BY <1>14
  <1>17. all \subseteq EntryAddresses(s)
    <2>1. \A x \in plain : part[x] \subseteq EntryAddresses(s)
      BY <1>12, <1>15 DEF of
    <2>2. flags \subseteq EntryAddresses(s)
      BY <1>8, <1>12
    <2> QED
      BY <1>16, <2>1, <2>2
  <1>18. ASSUME NEW k \in 1 .. n
         PROVE  EntryAddress(s, k) \in all
    <2> DEFINE y == placeholders[s][order[k]].input
    <2>1. order[k] \in DOMAIN placeholders[s] /\ y \in AllSymbols
      BY <1>9, <1>10
    <2>2. CASE y \in LikeEpsilon
      <3>1. y \in flag_symbols
        BY <1>10, <2>1, <2>2
      <3>2. 0 \in StateOffsets(s)
        BY <1>10, <2>1, <3>1 DEF IndexOffset
      <3>3. order[k] \in WithSymbols(s, LikeEpsilon)
        BY <2>1, <2>2 DEF WithSymbols
      <3>4. EntryAddress(s, k) \in AddressesOf(s, WithSymbols(s, LikeEpsilon))
        BY <1>11, <3>3
      <3>5. EntryAddress(s, k) \in flags
        BY <1>8, <3>2, <3>4
      <3> QED
        BY <1>16, <3>5
    <2>3. CASE y \notin LikeEpsilon
      <3>1. y \notin flag_symbols
        BY <1>10, <2>1, <2>3
      <3>2. y \in StateOffsets(s)
        BY <1>10, <2>1, <3>1 DEF IndexOffset
      <3>3. y \in plain
        BY <1>6, <2>1, <2>3, <3>2
      <3>4. order[k] \in WithSymbols(s, {y})
        BY <2>1 DEF WithSymbols
      <3>5. EntryAddress(s, k) \in AddressesOf(s, WithSymbols(s, {y}))
        BY <1>11, <3>4
      <3>6. EntryAddress(s, k) \in part[y]
        BY <1>15, <3>3, <3>5 DEF of
      <3> QED
        BY <1>16, <3>3, <3>6
    <2> QED
      BY <2>2, <2>3
  <1> QED
    BY <1>13, <1>17, <1>18 DEF a, all

(* get_transitions_from_state collects the addresses of the state's own     *)
(* transitions, all of them, whichever table the state's address is in.     *)
\* What the agenda loop takes from the address of a state: its transitions as
\* they were written, one after the other.
Pending(s) == [k \in 1 .. Len(placeholders[s]) |-> EntryAddress(s, k)]

LEMMA StateRead ==
    ASSUME WrittenInv, pc = "done", Addressable, NEW s \in States(graph)
    PROVE  /\ GetTransitionsFromState(StateAddress(s)) = EntryAddresses(s)
           /\ Ascending(GetTransitionsFromState(StateAddress(s))) = Pending(s)
  <1> DEFINE S == EntryAddresses(s)
             n == Len(placeholders[s])
             f == Pending(s)
  <1>1. GetTransitionsFromState(StateAddress(s)) = S
    BY ReadSimple, ReadIndexed
  <1>2. n \in Nat /\ \A k \in 1 .. n : EntryAddress(s, k) \in Nat
    BY EntryRead, FirstFacts
  <1>3. \A i, j \in 1 .. n : i < j => EntryAddress(s, i) < EntryAddress(s, j)
    <2>1. First[s] \in Nat /\ TRANSITION_TARGET_TABLE_START \in Nat
      BY FirstFacts, ConstantsAssumption
    <2> QED
      BY <1>2, <2>1 DEF EntryAddress
  <1>4. f \in [1 .. n -> S] /\ \A k \in 1 .. n : f[k] = EntryAddress(s, k)
    BY DEF EntryAddresses, Pending
  <1>5. S = {EntryAddress(s, k) : k \in 1 .. n}
    BY DEF EntryAddresses
  <1> HIDE DEF S, n, f
  <1>6. f \in Bijection(1 .. n, S)
    <2>1. \A i, j \in 1 .. n : f[i] = f[j] => i = j
      BY <1>2, <1>3, <1>4
    <2>2. \A y \in S : \E k \in 1 .. n : f[k] = y
      BY <1>4, <1>5
    <2> QED
      BY <1>4, <2>1, <2>2 DEF Bijection, Injection, Surjection, IsInjective
  <1>7. IsFiniteSet(S) /\ Cardinality(S) = n
    <2>1. IsFiniteSet(1 .. n) /\ Cardinality(1 .. n) = n
      BY <1>2, IntervalSize
    <2>2. ExistsBijection(1 .. n, S)
      BY <1>6 DEF ExistsBijection
    <2> QED
      BY <2>1, <2>2, FS_Bijection
  <1>8. S \subseteq Int /\ \A i, j \in 1 .. n : i < j => f[i] < f[j]
    BY <1>2, <1>3, <1>4, <1>5
  <1>9. f = Ascending(S)
    BY <1>2, <1>4, <1>7, <1>8, AscendingUnique
  <1> QED
    BY <1>1, <1>9 DEF S, f

-----------------------------------------------------------------------------
(* What the agenda loop relies on.                                          *)

\* The entry of the k-th transition that was written for state s.
EntryOf(s, k) == At(wtransition_table, EntryAddress(s, k))

LEMMA FirstGrows ==
    ASSUME WrittenInv, pc = "done"
    PROVE  \A t \in States(graph) : \A s \in States(graph) : s < t => First[s] < First[t]
  <1> DEFINE N == graph.size
             T == {t \in 0 .. N - 1 : \E s \in 0 .. N - 1 : s < t /\ ~ First[s] < First[t]}
  <1>1. N \in Nat \ {0} /\ States(graph) = 0 .. N - 1
    BY AtTheEnd
  <1>2. /\ \A s \in 0 .. N - 1 : First[s] \in Nat /\ Len(placeholders[s]) \in Nat
        /\ \A s \in 1 .. N - 1 : First[s] = First[s - 1] + 1 + Len(placeholders[s - 1])
    BY <1>1, FirstFacts
  <1> HIDE DEF N
  <1>3. SUFFICES T = {}
    BY <1>1
  <1>4. SUFFICES ASSUME T # {} PROVE FALSE
    OBVIOUS
  <1>5. PICK t \in T : \A y \in T : t <= y
    <2>1. T \subseteq Nat
      BY <1>1
    <2> HIDE DEF T
    <2> QED
      BY <1>4, <2>1, LeastNumber
  <1>6. PICK s \in 0 .. N - 1 : s < t /\ ~ First[s] < First[t]
    BY <1>5
  <1>7. t \in 1 .. N - 1 /\ t - 1 \in 0 .. N - 1
    BY <1>1, <1>5, <1>6
  <1>8. t - 1 \notin T
    <2>1. t \in Nat /\ ~ t <= t - 1
      BY <1>1, <1>7
    <2> QED
      BY <1>5, <2>1
  <1>9. First[t - 1] < First[t]
    BY <1>2, <1>7
  <1>10. CASE s = t - 1
    BY <1>6, <1>9, <1>10
  <1>11. CASE s # t - 1
    <2>1. s < t - 1
      BY <1>1, <1>6, <1>7, <1>11
    <2>2. First[s] < First[t - 1]
      BY <1>7, <1>8, <2>1
    <2>3. First[s] \in Nat /\ First[t] \in Nat /\ First[t - 1] \in Nat
      BY <1>2, <1>5, <1>7
    <2> QED
      BY <1>6, <1>9, <2>2, <2>3
  <1> QED
    BY <1>10, <1>11

(* Different states have different addresses.                               *)
LEMMA AddressUnique ==
    ASSUME WrittenInv, pc = "done", Addressable, NEW s \in States(graph), NEW t \in States(graph),
           StateAddress(s) = StateAddress(t)
    PROVE  s = t
  <1>1. /\ s \in Nat /\ t \in Nat
        /\ First[s] \in Nat /\ First[t] \in Nat
        /\ TRANSITION_TARGET_TABLE_START \in Nat
    BY AtTheEnd, FirstFacts, ConstantsAssumption
  <1>2. ASSUME NEW r \in States(graph), SimpleState(r)
        PROVE  /\ StateAddress(r) = First[r] + TRANSITION_TARGET_TABLE_START - 1
               /\ StateAddress(r) >= TRANSITION_TARGET_TABLE_START
    <2>1. First[r] \in Nat /\ First[r] >= 1 /\ StateAddress(r) = First[r] + TRANSITION_TARGET_TABLE_START - 1
      BY <1>2, AddressType, FirstFacts
    <2> QED
      BY <1>1, <2>1
  <1>3. ASSUME NEW r \in States(graph), ~ SimpleState(r)
        PROVE  /\ r \in DOMAIN start_index /\ StateAddress(r) = start_index[r]
               /\ StateAddress(r) < TRANSITION_TARGET_TABLE_START
    <2>1. r \in DOMAIN start_index /\ start_index[r] \in Nat /\ StateAddress(r) = start_index[r]
      BY <1>3, AddressType
    <2>2. /\ Len(windex_table) \in Nat /\ seen_input_symbols \in Nat
          /\ start_index[r] + seen_input_symbols < Len(windex_table)
      BY <2>1, IndexTableFacts
    <2>3. Len(windex_table) <= TRANSITION_TARGET_TABLE_START
      BY DEF Addressable
    <2> QED
      BY <1>1, <2>1, <2>2, <2>3
  <1>4. CASE SimpleState(s) /\ SimpleState(t)
    <2>1. First[s] = First[t]
      BY <1>1, <1>2, <1>4
    <2>2. ~ First[s] < First[t] /\ ~ First[t] < First[s]
      BY <1>1, <2>1
    <2>3. ~ s < t /\ ~ t < s
      BY <2>2, FirstGrows
    <2> QED
      BY <1>1, <2>3
  <1>5. CASE ~ SimpleState(s) /\ ~ SimpleState(t)
    <2>1. s \in DOMAIN start_index /\ t \in DOMAIN start_index /\ start_index[s] = start_index[t]
      BY <1>3, <1>5
    <2>2. used_indices[start_index[s]] = << s, NO_SYMBOL_NUMBER >> /\ used_indices[start_index[t]] = << t, NO_SYMBOL_NUMBER >>
      BY <2>1, AtTheEnd DEF IndexInv, IndexOwnership
    <2> QED
      BY <2>1, <2>2
  <1>6. CASE (SimpleState(s) /\ ~ SimpleState(t)) \/ (~ SimpleState(s) /\ SimpleState(t))
    <2>1. StateAddress(s) \in Nat /\ StateAddress(t) \in Nat
      BY AddressType
    <2> QED
      BY <1>1, <1>2, <1>3, <1>6, <2>1
  <1> QED
    BY <1>4, <1>5, <1>6

LEMMA RootAddress ==
    ASSUME WrittenInv, RootInv, pc = "done"
    PROVE  0 \in States(graph) /\ StateAddress(0) = 0
  <1>1. graph.size \in Nat \ {0} /\ States(graph) = 0 .. graph.size - 1 /\ it = graph.size
    BY AtTheEnd DEF WrittenInv
  <1>2. 0 \in States(graph)
    BY <1>1
  <1>3. ~ SimpleState(0)
    BY DEF SimpleState, IsSimple
  <1>4. start_index[0] = 0
    BY <1>1 DEF RootInv
  <1> QED
    BY <1>2, <1>3, <1>4 DEF StateAddress

\* The written transitions of s lead to the addresses of its successors, and
\* every successor is the target of one of them.
Leads(s) ==
    /\ \A k \in 1 .. Len(placeholders[s]) :
         \E u \in States(graph) : << s, u >> \in Edges /\ EntryOf(s, k).target = StateAddress(u)
    /\ \A u : << s, u >> \in Edges =>
         /\ u \in States(graph)
         /\ \E k \in 1 .. Len(placeholders[s]) : EntryOf(s, k).target = StateAddress(u)

LEMMA EdgesOf ==
    ASSUME NEW s \in States(graph), NEW u
    PROVE  << s, u >> \in Edges <=> \E k \in DOMAIN graph.arcs[s] : u = graph.arcs[s][k].target
  <1> DEFINE E(r) == {<< r, graph.arcs[r][k].target >> : k \in DOMAIN graph.arcs[r]}
  <1>1. Edges = UNION {E(r) : r \in States(graph)}
    BY DEF Edges
  <1>2. \A r : << s, u >> \in E(r) => r = s
    OBVIOUS
  <1>3. << s, u >> \in E(s) <=> \E k \in DOMAIN graph.arcs[s] : u = graph.arcs[s][k].target
    OBVIOUS
  <1> HIDE DEF E
  <1>4. << s, u >> \in Edges <=> \E r \in States(graph) : << s, u >> \in E(r)
    BY <1>1
  <1> QED
    BY <1>2, <1>3, <1>4

LEMMA TransitionsLead ==
    ASSUME WrittenInv, pc = "done", NEW s \in States(graph)
    PROVE  Leads(s)
  <1> DEFINE n == Len(placeholders[s])
             order == WriteOrder(placeholders[s])
             target(k) == placeholders[s][order[k]].target
  <1>1. /\ n \in Nat /\ DOMAIN placeholders[s] = 1 .. n
        /\ order \in [1 .. n -> 1 .. n]
        /\ \A k \in 1 .. n : \E j \in 1 .. n : order[j] = k
    BY WriteOrderFacts
  <1>2. \A k \in 1 .. n : placeholders[s][k].target = graph.arcs[s][k].target
    BY <1>1, NumbersName DEF NamesKept
  <1>3. DOMAIN graph.arcs[s] = 1 .. n
    BY <1>1, NumbersName
  <1>4. \A k \in 1 .. n : graph.arcs[s][k].target \in States(graph)
    BY <1>3, AtTheEnd, GraphsAssumption
  <1>5. \A k \in 1 .. n : EntryOf(s, k).target = StateAddress(placeholders[s][order[k]].target)
    BY EntryRead DEF EntryOf, TransitionEntry, Transition
  <1> HIDE DEF n, order
  <1>6. ASSUME NEW k \in 1 .. n
        PROVE  \E u \in States(graph) : << s, u >> \in Edges /\ EntryOf(s, k).target = StateAddress(u)
    <2>1. order[k] \in 1 .. n
      BY <1>1
    <2> DEFINE u == graph.arcs[s][order[k]].target
    <2>2. u \in States(graph) /\ << s, u >> \in Edges
      BY <1>3, <1>4, <2>1, EdgesOf
    <2>3. EntryOf(s, k).target = StateAddress(u)
      BY <1>2, <1>5, <2>1
    <2> QED
      BY <2>2, <2>3
  <1>7. ASSUME NEW u, << s, u >> \in Edges
        PROVE  /\ u \in States(graph)
               /\ \E k \in 1 .. n : EntryOf(s, k).target = StateAddress(u)
    <2>1. PICK j \in 1 .. n : u = graph.arcs[s][j].target
      BY <1>3, <1>7, EdgesOf
    <2>2. PICK k \in 1 .. n : order[k] = j
      BY <1>1, <2>1
    <2>3. EntryOf(s, k).target = StateAddress(u)
      BY <1>2, <1>5, <2>1, <2>2
    <2> QED
      BY <1>4, <2>1, <2>3
  <1> QED
    BY <1>6, <1>7 DEF Leads, n

(* What can be reached is closed under the transitions, and is in every set *)
(* that is.                                                                 *)
LEMMA ReachableClosed ==
    ASSUME WrittenInv, pc = "done"
    PROVE  /\ 0 \in Reachable(graph) /\ Reachable(graph) \subseteq States(graph)
           /\ \A s \in Reachable(graph) : \A u : << s, u >> \in Edges => u \in Reachable(graph)
           /\ \A S \in SUBSET States(graph) :
                0 \in S /\ (\A s \in S : \A u : << s, u >> \in Edges => u \in S) => Reachable(graph) \subseteq S
  <1> DEFINE R == Reachable(graph)
             Holds(S) == 0 \in S /\ (\A r \in S : \A k \in DOMAIN graph.arcs[r] : graph.arcs[r][k].target \in S)
  <1>1. R = {s \in States(graph) : \A S \in SUBSET States(graph) : Holds(S) => s \in S}
    BY DEF Reachable
  <1>2. /\ 0 \in States(graph)
        /\ \A s \in States(graph) : \A k \in DOMAIN graph.arcs[s] : graph.arcs[s][k].target \in States(graph)
    BY AtTheEnd, GraphsAssumption
  <1>3. \A S \in SUBSET States(graph) : Holds(S) <=>
          0 \in S /\ (\A s \in S : \A u : << s, u >> \in Edges => u \in S)
    <2>1. \A s \in States(graph) : \A u : << s, u >> \in Edges <=> \E k \in DOMAIN graph.arcs[s] : u = graph.arcs[s][k].target
      BY EdgesOf
    <2>2. ASSUME NEW S \in SUBSET States(graph), NEW s \in S
          PROVE  (\A k \in DOMAIN graph.arcs[s] : graph.arcs[s][k].target \in S) <=> \A u : << s, u >> \in Edges => u \in S
      <3> DEFINE A == graph.arcs[s]
      <3>1. \A u : << s, u >> \in Edges <=> \E k \in DOMAIN A : u = A[k].target
        BY <2>1
      <3> HIDE DEF A
      <3>2. (\A k \in DOMAIN A : A[k].target \in S) <=> \A u : << s, u >> \in Edges => u \in S
        BY <3>1
      <3> QED
        BY <3>2 DEF A
    <2> QED
      BY <2>2
  <1>4. 0 \in R
    BY <1>1, <1>2
  <1>5. ASSUME NEW s \in R, NEW u, << s, u >> \in Edges
        PROVE  u \in R
    <2>1. s \in States(graph)
      BY <1>1
    <2>2. PICK k \in DOMAIN graph.arcs[s] : u = graph.arcs[s][k].target
      BY <1>5, <2>1, EdgesOf
    <2>3. u \in States(graph)
      BY <1>2, <2>1, <2>2
    <2>4. \A S \in SUBSET States(graph) : Holds(S) => u \in S
      BY <1>1, <1>5, <2>2
    <2> QED
      BY <1>1, <2>3, <2>4
  <1>6. R \subseteq States(graph)
    BY <1>1
  <1>7. \A S \in SUBSET States(graph) : Holds(S) => R \subseteq S
    BY <1>1
  <1> QED
    BY <1>3, <1>4, <1>5, <1>6, <1>7

-----------------------------------------------------------------------------
(* The agenda loop.                                                         *)

\* The transition that the entry e becomes, the states being numbered by map.
ArcOf(e, map) ==
    [in |-> symbol_table[e.input + 1], out |-> symbol_table[e.output + 1],
     target |-> map[e.target], weight |-> IF weighted THEN e.weight ELSE 0]

\* The first m transitions written for s were added, and their targets found.
Built(s, m, map, row) ==
    /\ \A k \in 1 .. m : EntryOf(s, k).target \in DOMAIN map
    /\ row = [k \in 1 .. m |-> ArcOf(EntryOf(s, k), map)]

Waiting == {agenda[k] : k \in 1 .. Len(agenda)}

InWork(a) == stage \in {"arcs", "undefined"} /\ current = state_map[a]

\* How far the expansion of s is: not begun while its address is on the agenda,
\* at the transition before the pending ones while it is the current state.
Progress(s, m) ==
    LET a == StateAddress(s)
    IN  /\ Built(s, m, state_map, basic_arcs[state_map[a]])
        /\ a \in Waiting => m = 0
        /\ InWork(a) => /\ Len(pending) = Len(placeholders[s]) - m
                        /\ \A j \in 1 .. Len(pending) : pending[j] = EntryAddress(s, m + j)
        /\ a \notin Waiting /\ ~ InWork(a) => m = Len(placeholders[s])

\* The numbers of the addresses met so far.
MapInv ==
    LET n == Cardinality(DOMAIN state_map)
    IN  /\ IsFiniteSet(DOMAIN state_map)
        /\ 0 \in DOMAIN state_map
        /\ \A a \in DOMAIN state_map : \E s \in Reachable(graph) : a = StateAddress(s)
        /\ \A a \in DOMAIN state_map : state_map[a] \in 0 .. n - 1
        /\ \A a, b \in DOMAIN state_map : state_map[a] = state_map[b] => a = b
        /\ \A i \in 0 .. n - 1 : \E a \in DOMAIN state_map : state_map[a] = i
        /\ DOMAIN basic_arcs = 0 .. n - 1
        /\ DOMAIN basic_final = 0 .. n - 1
        /\ \A a \in DOMAIN state_map : basic_final[state_map[a]] = FinalWeightAt(a)

\* What was done for each of them.
WorkInv ==
    /\ agenda \in Seq(DOMAIN state_map)
    /\ \A i, j \in 1 .. Len(agenda) : agenda[i] = agenda[j] => i = j
    /\ stage = "back" => agenda = << >>
    /\ stage \in {"arcs", "undefined"} =>
         /\ pending \in Seq(Nat)
         /\ \E a \in DOMAIN state_map \ Waiting : current = state_map[a]
    /\ \A s \in States(graph) : StateAddress(s) \in DOMAIN state_map =>
         \E m \in 0 .. Len(placeholders[s]) : Progress(s, m)

\* The inductive invariant of both conversions.
BackInv ==
    /\ WrittenInv
    /\ RootInv
    /\ weighted \in BOOLEAN
    /\ stage \in {"before", "agenda", "arcs", "back", "undefined"}
    /\ stage = "before" => DOMAIN state_map = {} /\ DOMAIN basic_final = {}
    /\ stage # "before" => pc = "done"
    /\ stage # "before" /\ Addressable => MapInv /\ WorkInv

LEMMA InitBack == BackInit => BackInv
  <1> SUFFICES ASSUME BackInit
               PROVE  BackInv
    OBVIOUS
  <1>1. WrittenInv /\ RootInv
    BY InitWritten, InitRoot DEF BackInit
  <1> QED
    BY <1>1 DEF BackInit, BackInv

\* Nothing that the two tables say changes when they do not.
Kept ==
    /\ graph' = graph /\ placeholders' = placeholders /\ symbol_table' = symbol_table
    /\ Addressable' = Addressable
    /\ Reachable(graph)' = Reachable(graph) /\ Edges' = Edges /\ States(graph)' = States(graph)
    /\ \A s : StateAddress(s)' = StateAddress(s)
    /\ \A s, k : EntryAddress(s, k)' = EntryAddress(s, k) /\ EntryOf(s, k)' = EntryOf(s, k)
    /\ \A s : Pending(s)' = Pending(s)
    /\ \A a : FinalWeightAt(a)' = FinalWeightAt(a)
    /\ \A a : GetTransitionsFromState(a)' = GetTransitionsFromState(a)

LEMMA TablesKept ==
    ASSUME UNCHANGED << vars, weighted >>
    PROVE  Kept
  <1>1. UNCHANGED << graph, placeholders, symbol_table, flag_symbols, start_index, windex_table, wtransition_table >>
    BY DEF vars, inputVars, symbolVars, packVars, tableVars
  <1>2. weighted' = weighted
    OBVIOUS
  <1>3. Addressable' = Addressable
    BY <1>1 DEF Addressable
  <1>4. \A s : SimpleState(s)' = SimpleState(s)
    BY <1>1 DEF SimpleState
  <1>5. First' = First
    BY <1>1 DEF First
  <1>6. \A s : StateAddress(s)' = StateAddress(s)
    BY <1>1, <1>4 DEF StateAddress
  <1>7. \A s, k : EntryAddress(s, k)' = EntryAddress(s, k)
    BY <1>5 DEF EntryAddress
  <1>8. \A s, k : EntryOf(s, k)' = EntryOf(s, k)
    BY <1>1, <1>7 DEF EntryOf
  <1>9. \A s : Pending(s)' = Pending(s)
    BY <1>1, <1>7 DEF Pending
  <1>10. \A a : FinalWeightAt(a)' = FinalWeightAt(a)
    BY <1>1, <1>2 DEF FinalWeightAt
  <1>11. \A a : GetTransitionsFromState(a)' = GetTransitionsFromState(a)
    BY <1>1 DEF GetTransitionsFromState, FromIndex, LikeEpsilon, InIndexTable, AllSymbols, RunAddresses
  <1>12. Reachable(graph)' = Reachable(graph) /\ Edges' = Edges /\ States(graph)' = States(graph)
    BY <1>1 DEF Edges
  <1> QED
    BY <1>1, <1>3, <1>6, <1>7, <1>8, <1>9, <1>10, <1>11, <1>12 DEF Kept

(* What the tables keep, in every step of the conversion back.              *)
LEMMA AtWork ==
    ASSUME BackInv, stage # "before", Addressable
    PROVE  /\ WrittenInv /\ RootInv /\ pc = "done" /\ MapInv /\ WorkInv
           /\ graph \in Graphs /\ 0 \in States(graph) /\ StateAddress(0) = 0
           /\ \A s, t \in States(graph) : StateAddress(s) = StateAddress(t) => s = t
           /\ \A s \in States(graph) : Len(placeholders[s]) \in Nat /\ StateAddress(s) \in Nat
           /\ Cardinality(DOMAIN state_map) \in Nat
  <1>1. WrittenInv /\ RootInv /\ pc = "done" /\ MapInv /\ WorkInv
    BY DEF BackInv
  <1>2. graph \in Graphs /\ 0 \in States(graph) /\ StateAddress(0) = 0
    BY <1>1, AtTheEnd, RootAddress
  <1>3. \A s, t \in States(graph) : StateAddress(s) = StateAddress(t) => s = t
    BY <1>1, AddressUnique
  <1>4. \A s \in States(graph) : Len(placeholders[s]) \in Nat /\ StateAddress(s) \in Nat
    BY <1>1, FirstFacts, AddressType
  <1>5. Cardinality(DOMAIN state_map) \in Nat
    BY <1>1, FS_CardinalityType DEF MapInv
  <1> QED
    BY <1>1, <1>2, <1>3, <1>4, <1>5

LEMMA StartStep ==
    ASSUME BackInv, StartBack, Addressable
    PROVE  MapInv' /\ WorkInv'
  <1>1. /\ pc = "done" /\ stage = "before" /\ stage' = "agenda"
        /\ UNCHANGED << vars, weighted >> /\ agenda' = << 0 >>
        /\ basic_arcs' = [n \in {0} |-> << >>]
        /\ AddState(0, 0)
    BY DEF StartBack
  <1>2. WrittenInv /\ RootInv /\ DOMAIN state_map = {} /\ DOMAIN basic_final = {}
    BY <1>1 DEF BackInv
  <1>3. Kept
    BY <1>1, TablesKept
  <1>4. state_map' = [x \in {0} |-> 0] /\ basic_final' = [x \in {0} |-> FinalWeightAt(0)]
    <2>1. state_map' = [x \in {0} |-> IF x = 0 THEN 0 ELSE state_map[x]]
      BY <1>1, <1>2 DEF AddState
    <2>2. basic_final' = [x \in {0} |-> IF x = 0 THEN FinalWeightAt(0) ELSE basic_final[x]]
      BY <1>1, <1>2 DEF AddState
    <2> QED
      BY <2>1, <2>2
  <1>5. 0 \in States(graph) /\ StateAddress(0) = 0 /\ 0 \in Reachable(graph)
    BY <1>1, <1>2, RootAddress, ReachableClosed
  <1>6. \A s \in States(graph) : StateAddress(s) = 0 => s = 0
    BY <1>1, <1>2, <1>5, AddressUnique
  <1>7. Len(placeholders[0]) \in Nat
    BY <1>1, <1>2, <1>5, FirstFacts
  <1>8. DOMAIN state_map' = {0} /\ state_map'[0] = 0
    BY <1>4
  <1>9. IsFiniteSet(DOMAIN state_map') /\ Cardinality(DOMAIN state_map') = 1
    BY <1>8, FS_Singleton
  <1>10. MapInv'
    <2>1. 0 .. Cardinality(DOMAIN state_map') - 1 = {0}
      BY <1>9
    <2>2. \A a \in DOMAIN state_map' : \E s \in Reachable(graph)' : a = StateAddress(s)'
      BY <1>3, <1>5, <1>8 DEF Kept
    <2>3. DOMAIN basic_arcs' = {0} /\ DOMAIN basic_final' = {0} /\ basic_final'[0] = FinalWeightAt(0)
      BY <1>1, <1>4
    <2>4. FinalWeightAt(0)' = FinalWeightAt(0)
      BY <1>3 DEF Kept
    <2> QED
      BY <1>8, <1>9, <2>1, <2>2, <2>3, <2>4 DEF MapInv
  <1>11. Waiting' = {0} /\ agenda' \in Seq(DOMAIN state_map') /\ Len(agenda') = 1
    BY <1>1, <1>8 DEF Waiting
  <1>12. ASSUME NEW s \in States(graph), StateAddress(s) \in DOMAIN state_map'
         PROVE  Progress(s, 0)'
    <2>1. s = 0 /\ StateAddress(s)' = 0
      BY <1>3, <1>5, <1>6, <1>8, <1>12 DEF Kept
    <2>2. basic_arcs'[state_map'[StateAddress(s)']] = << >>
      BY <1>1, <1>8, <2>1
    <2>3. Built(s, 0, state_map, basic_arcs[state_map[StateAddress(s)]])'
      BY <2>2 DEF Built
    <2>4. ~ InWork(StateAddress(s))' /\ StateAddress(s)' \in Waiting'
      BY <1>1, <1>11, <2>1 DEF InWork
    <2> QED
      BY <2>3, <2>4 DEF Progress
  <1>13. WorkInv'
    <2>1. \A s \in States(graph)' : StateAddress(s)' \in DOMAIN state_map' =>
            \E m \in 0 .. Len(placeholders'[s]) : Progress(s, m)'
      BY <1>3, <1>5, <1>6, <1>7, <1>8, <1>12 DEF Kept
    <2>2. stage' = "agenda"
      BY <1>1
    <2>3. \A i, j \in 1 .. Len(agenda') : agenda'[i] = agenda'[j] => i = j
      BY <1>11
    <2> QED
      BY <1>11, <2>1, <2>2, <2>3 DEF WorkInv
  <1> QED
    BY <1>10, <1>13

\* The map, the numbers and the tables are what they were.
MapKept == Kept /\ UNCHANGED << state_map, basic_arcs, basic_final, weighted >>

LEMMA MapStays == MapInv /\ MapKept => MapInv'
  <1> SUFFICES ASSUME MapInv, MapKept
               PROVE  MapInv'
    OBVIOUS
  <1>1. UNCHANGED << state_map, basic_arcs, basic_final >> /\ Kept
    BY DEF MapKept
  <1>2. \A a \in DOMAIN state_map : \E s \in Reachable(graph)' : a = StateAddress(s)'
    BY <1>1 DEF MapInv, Kept
  <1>3. \A a \in DOMAIN state_map : basic_final[state_map[a]] = FinalWeightAt(a)'
    BY <1>1 DEF MapInv, Kept
  <1> QED
    BY <1>1, <1>2, <1>3 DEF MapInv

LEMMA BuiltStays ==
    ASSUME MapKept, NEW s, NEW m, Built(s, m, state_map, basic_arcs[state_map[StateAddress(s)]])
    PROVE  Built(s, m, state_map, basic_arcs[state_map[StateAddress(s)]])'
  <1>1. state_map' = state_map /\ basic_arcs' = basic_arcs /\ weighted' = weighted /\ Kept
    BY DEF MapKept
  <1>2. /\ StateAddress(s)' = StateAddress(s) /\ symbol_table' = symbol_table
        /\ \A k : EntryOf(s, k)' = EntryOf(s, k)
    BY <1>1 DEF Kept
  <1>3. \A k : ArcOf(EntryOf(s, k), state_map)' = ArcOf(EntryOf(s, k), state_map)
    BY <1>1, <1>2 DEF ArcOf
  <1> QED
    BY <1>1, <1>2, <1>3 DEF Built

LEMMA PopStep ==
    ASSUME BackInv, PopAgenda, Addressable
    PROVE  MapInv' /\ WorkInv'
  <1> DEFINE a == Last(agenda)
             n == Len(agenda)
  <1>1. /\ stage = "agenda" /\ agenda # << >> /\ agenda' = Front(agenda)
        /\ current' = state_map[a]
        /\ pending' = Ascending(GetTransitionsFromState(a))
        /\ stage' \in {"arcs", "undefined"}
        /\ UNCHANGED << vars, weighted, state_map, basic_arcs, basic_final >>
    BY DEF PopAgenda
  <1>2. /\ WrittenInv /\ RootInv /\ pc = "done" /\ MapInv /\ WorkInv
        /\ \A s, t \in States(graph) : StateAddress(s) = StateAddress(t) => s = t
        /\ \A s \in States(graph) : Len(placeholders[s]) \in Nat /\ StateAddress(s) \in Nat
    BY <1>1, AtWork
  <1>3. Kept /\ MapKept
    BY <1>1, TablesKept DEF MapKept
  <1>4. MapInv'
    BY <1>2, <1>3, MapStays
  <1>5. /\ agenda \in Seq(DOMAIN state_map) /\ \A i, j \in 1 .. n : agenda[i] = agenda[j] => i = j
        /\ n \in Nat \ {0} /\ a = agenda[n] /\ a \in DOMAIN state_map
    BY <1>1, <1>2 DEF WorkInv, Last
  <1> HIDE DEF a, n
  <1>6. /\ agenda' \in Seq(DOMAIN state_map) /\ Len(agenda') = n - 1
        /\ \A k \in 1 .. n - 1 : agenda'[k] = agenda[k]
    BY <1>1, <1>5, FrontFacts DEF n
  <1>7. Waiting = {agenda[k] : k \in 1 .. n} /\ Waiting' = {agenda'[k] : k \in 1 .. n - 1}
    BY <1>6 DEF Waiting, n
  <1>8. Waiting' = Waiting \ {a}
    <2>1. \A k \in 1 .. n - 1 : k \in 1 .. n /\ k # n
      BY <1>5
    <2>2. \A k \in 1 .. n - 1 : agenda[k] # a
      BY <1>5, <2>1
    <2>3. Waiting' \subseteq Waiting \ {a}
      BY <1>6, <1>7, <2>1, <2>2
    <2>4. \A k \in 1 .. n : k = n \/ k \in 1 .. n - 1
      BY <1>5
    <2>5. Waiting \ {a} \subseteq Waiting'
      BY <1>5, <1>6, <1>7, <2>4
    <2> QED
      BY <2>3, <2>5
  <1>9. PICK r \in States(graph) : a = StateAddress(r)
    <2>1. Reachable(graph) \subseteq States(graph)
      BY DEF Reachable
    <2> QED
      BY <1>2, <1>5, <2>1 DEF MapInv
  <1>10. pending' = Pending(r)
    BY <1>1, <1>2, <1>9, StateRead
  <1>11. a \in Waiting
    BY <1>5, <1>7
  <1>12. \A s \in States(graph) : StateAddress(s) \in DOMAIN state_map => (InWork(StateAddress(s))' <=> s = r)
    <2> SUFFICES ASSUME NEW s \in States(graph), StateAddress(s) \in DOMAIN state_map
                 PROVE  InWork(StateAddress(s))' <=> s = r
      OBVIOUS
    <2>1. InWork(StateAddress(s))' <=> state_map[a] = state_map[StateAddress(s)]
      BY <1>1, <1>3 DEF InWork, Kept
    <2>2. state_map[a] = state_map[StateAddress(s)] <=> a = StateAddress(s)
      BY <1>2, <1>5 DEF MapInv
    <2> QED
      BY <1>2, <1>9, <2>1, <2>2
  <1>13. ASSUME NEW s \in States(graph), StateAddress(s) \in DOMAIN state_map
         PROVE  \E m \in 0 .. Len(placeholders[s]) : Progress(s, m)'
    <2>1. PICK m \in 0 .. Len(placeholders[s]) : Progress(s, m)
      BY <1>2, <1>13 DEF WorkInv
    <2>2. /\ StateAddress(s)' = StateAddress(s) /\ placeholders' = placeholders
          /\ \A k : EntryAddress(s, k)' = EntryAddress(s, k)
      BY <1>3 DEF Kept
    <2>3. Built(s, m, state_map, basic_arcs[state_map[StateAddress(s)]])'
      BY <1>3, <2>1, BuiltStays DEF Progress
    <2>4. CASE s = r
      <3>1. m = 0
        BY <1>9, <1>11, <2>1, <2>4 DEF Progress
      <3>2. pending' = [k \in 1 .. Len(placeholders[s]) |-> EntryAddress(s, k)]
        BY <1>10, <2>4 DEF Pending
      <3>3. Len(pending') = Len(placeholders[s])
        BY <1>2, <3>2
      <3>4. \A j \in 1 .. Len(pending') : pending'[j] = EntryAddress(s, m + j)'
        BY <2>2, <3>1, <3>2, <3>3
      <3>5. Len(pending') = Len(placeholders'[s]) - m
        BY <1>2, <2>2, <3>1, <3>3
      <3>6. InWork(StateAddress(s))' /\ StateAddress(s)' \notin Waiting'
        BY <1>8, <1>9, <1>12, <1>13, <2>2, <2>4
      <3> QED
        BY <2>1, <2>3, <3>4, <3>5, <3>6 DEF Progress
    <2>5. CASE s # r
      <3>1. ~ InWork(StateAddress(s))' /\ ~ InWork(StateAddress(s))
        BY <1>1, <1>12, <1>13, <2>5 DEF InWork
      <3>2. StateAddress(s)' \in Waiting' <=> StateAddress(s) \in Waiting
        BY <1>2, <1>8, <1>9, <2>2, <2>5
      <3> QED
        BY <2>1, <2>2, <2>3, <3>1, <3>2 DEF Progress
    <2> QED
      BY <2>4, <2>5
  <1>14. \A i, j \in 1 .. Len(agenda') : agenda'[i] = agenda'[j] => i = j
    <2>1. \A k \in 1 .. n - 1 : k \in 1 .. n
      BY <1>5
    <2> QED
      BY <1>5, <1>6, <2>1
  <1>15. pending' \in Seq(Nat)
    <2>1. Len(placeholders[r]) \in Nat /\ \A k \in 1 .. Len(placeholders[r]) : EntryAddress(r, k) \in Nat
      BY <1>2, <1>9, EntryRead
    <2> QED
      BY <1>10, <2>1 DEF Pending
  <1>16. WorkInv'
    <2>1. \A s \in States(graph)' : StateAddress(s)' \in DOMAIN state_map' =>
            \E m \in 0 .. Len(placeholders'[s]) : Progress(s, m)'
      BY <1>1, <1>3, <1>13 DEF Kept
    <2>2. \E x \in DOMAIN state_map' \ Waiting' : current' = state_map'[x]
      BY <1>1, <1>5, <1>8
    <2>3. stage' # "back"
      BY <1>1
    <2> QED
      BY <1>1, <1>6, <1>14, <1>15, <2>1, <2>2, <2>3 DEF WorkInv
  <1> QED
    BY <1>4, <1>16

LEMMA ExpandedStep ==
    ASSUME BackInv, StateExpanded, Addressable
    PROVE  MapInv' /\ WorkInv'
  <1>1. /\ stage = "arcs" /\ pending = << >> /\ stage' = "agenda"
        /\ UNCHANGED << vars, weighted, agenda, state_map, current, pending, basic_arcs, basic_final >>
    BY DEF StateExpanded
  <1>2. /\ MapInv /\ WorkInv /\ \A s \in States(graph) : Len(placeholders[s]) \in Nat
    BY <1>1, AtWork
  <1>3. Kept /\ MapKept
    BY <1>1, TablesKept DEF MapKept
  <1>4. MapInv'
    BY <1>2, <1>3, MapStays
  <1>5. Waiting' = Waiting
    BY <1>1 DEF Waiting
  <1>6. ASSUME NEW s \in States(graph), StateAddress(s) \in DOMAIN state_map
        PROVE  \E m \in 0 .. Len(placeholders[s]) : Progress(s, m)'
    <2>1. PICK m \in 0 .. Len(placeholders[s]) : Progress(s, m)
      BY <1>2, <1>6 DEF WorkInv
    <2>2. StateAddress(s)' = StateAddress(s) /\ placeholders' = placeholders
      BY <1>3 DEF Kept
    <2>3. Built(s, m, state_map, basic_arcs[state_map[StateAddress(s)]])'
      BY <1>3, <2>1, BuiltStays DEF Progress
    <2>4. ~ InWork(StateAddress(s))'
      BY <1>1 DEF InWork
    <2>5. StateAddress(s) \notin Waiting => m = Len(placeholders[s])
      <3>1. CASE InWork(StateAddress(s))
        <4>1. Len(pending) = 0 /\ Len(pending) = Len(placeholders[s]) - m
          BY <1>1, <2>1, <3>1 DEF Progress
        <4> QED
          BY <1>2, <4>1
      <3>2. CASE ~ InWork(StateAddress(s))
        BY <2>1, <3>2 DEF Progress
      <3> QED
        BY <3>1, <3>2
    <2>6. StateAddress(s) \in Waiting => m = 0
      BY <2>1 DEF Progress
    <2> QED
      BY <1>5, <2>1, <2>2, <2>3, <2>4, <2>5, <2>6 DEF Progress
  <1>7. WorkInv'
    <2>1. \A s \in States(graph)' : StateAddress(s)' \in DOMAIN state_map' =>
            \E m \in 0 .. Len(placeholders'[s]) : Progress(s, m)'
      BY <1>1, <1>3, <1>6 DEF Kept
    <2> QED
      BY <1>1, <1>2, <2>1 DEF WorkInv
  <1> QED
    BY <1>4, <1>7

LEMMA OtherBackSteps ==
    ASSUME BackInv, BackDone \/ UNCHANGED allVars, stage # "before", Addressable
    PROVE  MapInv' /\ WorkInv'
  <1>1. UNCHANGED << vars, weighted, agenda, state_map, current, pending, basic_arcs, basic_final >>
    BY DEF BackDone, allVars, backVars
  <1>2. MapInv /\ WorkInv
    BY AtWork
  <1>3. Kept /\ MapKept
    BY <1>1, TablesKept DEF MapKept
  <1>4. MapInv'
    BY <1>2, <1>3, MapStays
  <1>5. /\ stage' \in {"arcs", "undefined"} <=> stage \in {"arcs", "undefined"}
        /\ stage' = "back" => agenda = << >>
    BY <1>2 DEF BackDone, allVars, backVars, WorkInv
  <1>6. Waiting' = Waiting /\ \A a : InWork(a)' <=> InWork(a)
    BY <1>1, <1>5 DEF Waiting, InWork
  <1>7. ASSUME NEW s, NEW m, Progress(s, m)
        PROVE  Progress(s, m)'
    <2>1. /\ StateAddress(s)' = StateAddress(s) /\ placeholders' = placeholders
          /\ \A k : EntryAddress(s, k)' = EntryAddress(s, k)
      BY <1>3 DEF Kept
    <2>2. Built(s, m, state_map, basic_arcs[state_map[StateAddress(s)]])'
      BY <1>3, <1>7, BuiltStays DEF Progress
    <2> QED
      BY <1>1, <1>6, <1>7, <2>1, <2>2 DEF Progress
  <1>8. WorkInv'
    <2>1. \A s \in States(graph)' : StateAddress(s)' \in DOMAIN state_map' =>
            \E m \in 0 .. Len(placeholders'[s]) : Progress(s, m)'
      BY <1>1, <1>2, <1>3, <1>7 DEF Kept, WorkInv
    <2> QED
      BY <1>1, <1>2, <1>5, <1>6, <2>1 DEF WorkInv
  <1> QED
    BY <1>4, <1>8

\* The state whose transitions are pending.
IsCurrent(r) ==
    /\ r \in Reachable(graph) /\ r \in States(graph)
    /\ StateAddress(r) \in DOMAIN state_map \ Waiting
    /\ current = state_map[StateAddress(r)]
    /\ \A s \in States(graph) : StateAddress(s) \in DOMAIN state_map => (InWork(StateAddress(s)) <=> s = r)

LEMMA CurrentState ==
    ASSUME BackInv, stage \in {"arcs", "undefined"}, Addressable
    PROVE  \E r \in States(graph) : IsCurrent(r)
  <1>1. /\ MapInv /\ WorkInv
        /\ \A s, t \in States(graph) : StateAddress(s) = StateAddress(t) => s = t
    BY AtWork
  <1>2. PICK a \in DOMAIN state_map \ Waiting : current = state_map[a]
    BY <1>1 DEF WorkInv
  <1>3. PICK r \in Reachable(graph) : a = StateAddress(r)
    BY <1>1, <1>2 DEF MapInv
  <1>4. r \in States(graph)
    BY <1>3 DEF Reachable
  <1>5. ASSUME NEW s \in States(graph), StateAddress(s) \in DOMAIN state_map
        PROVE  InWork(StateAddress(s)) <=> s = r
    <2>1. InWork(StateAddress(s)) <=> state_map[a] = state_map[StateAddress(s)]
      BY <1>2 DEF InWork
    <2>2. state_map[a] = state_map[StateAddress(s)] <=> a = StateAddress(s)
      BY <1>1, <1>2, <1>5 DEF MapInv
    <2> QED
      BY <1>1, <1>3, <1>4, <2>1, <2>2
  <1> QED
    BY <1>2, <1>3, <1>4, <1>5 DEF IsCurrent

(* The next of them leads to the address of a successor.                    *)
LEMMA NextTransition ==
    ASSUME BackInv, stage = "arcs", pending # << >>, Addressable,
           NEW r \in States(graph), IsCurrent(r),
           NEW m \in 0 .. Len(placeholders[r]), Progress(r, m)
    PROVE  /\ m + 1 \in 1 .. Len(placeholders[r]) /\ Head(pending) = EntryAddress(r, m + 1)
           /\ Tail(pending) \in Seq(Nat) /\ Len(Tail(pending)) = Len(placeholders[r]) - (m + 1)
           /\ \A j \in 1 .. Len(Tail(pending)) : Tail(pending)[j] = EntryAddress(r, (m + 1) + j)
           /\ \E u \in Reachable(graph) : << r, u >> \in Edges /\ EntryOf(r, m + 1).target = StateAddress(u)
  <1>1. WrittenInv /\ pc = "done" /\ WorkInv /\ Len(placeholders[r]) \in Nat
    BY AtWork
  <1>2. InWork(StateAddress(r))
    BY DEF IsCurrent
  <1>3. /\ pending \in Seq(Nat) /\ Len(pending) = Len(placeholders[r]) - m
        /\ \A j \in 1 .. Len(pending) : pending[j] = EntryAddress(r, m + j)
    BY <1>1, <1>2 DEF WorkInv, Progress
  <1>4. Len(pending) \in Nat \ {0} /\ Head(pending) = pending[1]
    BY <1>3
  <1>5. m + 1 \in 1 .. Len(placeholders[r])
    BY <1>1, <1>3, <1>4
  <1>6. Head(pending) = EntryAddress(r, m + 1)
    BY <1>3, <1>4
  <1>7. /\ Tail(pending) \in Seq(Nat) /\ Len(Tail(pending)) = Len(pending) - 1
        /\ \A j \in 1 .. Len(pending) - 1 : Tail(pending)[j] = pending[j + 1]
    BY <1>3, <1>4
  <1>8. Len(Tail(pending)) = Len(placeholders[r]) - (m + 1)
    BY <1>1, <1>3, <1>7
  <1>9. ASSUME NEW j \in 1 .. Len(Tail(pending))
        PROVE  Tail(pending)[j] = EntryAddress(r, (m + 1) + j)
    <2>1. j + 1 \in 1 .. Len(pending) /\ m + (j + 1) = (m + 1) + j
      BY <1>1, <1>4, <1>7
    <2> QED
      BY <1>3, <1>4, <1>7, <2>1
  <1>10. PICK u \in States(graph) : << r, u >> \in Edges /\ EntryOf(r, m + 1).target = StateAddress(u)
    BY <1>1, <1>5, TransitionsLead DEF Leads
  <1>11. u \in Reachable(graph)
    BY <1>1, <1>10, ReachableClosed DEF IsCurrent
  <1> QED
    BY <1>5, <1>6, <1>7, <1>8, <1>9, <1>10, <1>11

LEMMA RowGrows ==
    ASSUME NEW m \in Nat, NEW row, row = [k \in 1 .. m + 1 |-> row[k]]
    PROVE  Append([k \in 1 .. m |-> row[k]], row[m + 1]) = row
  <1> DEFINE T == {row[k] : k \in 1 .. m + 1}
             start == [k \in 1 .. m |-> row[k]]
             longer == Append(start, row[m + 1])
  <1>1. \A k \in 1 .. m + 1 : row[k] \in T
    OBVIOUS
  <1>2. m + 1 \in 1 .. m + 1 /\ \A k \in 1 .. m : k \in 1 .. m + 1
    OBVIOUS
  <1> HIDE DEF T
  <1>3. start \in [1 .. m -> T] /\ \A k \in 1 .. m : start[k] = row[k]
    BY <1>1, <1>2
  <1> HIDE DEF start
  <1>4. start \in Seq(T) /\ Len(start) = m
    BY <1>3
  <1>5. row[m + 1] \in T
    BY <1>1, <1>2
  <1>6. longer \in Seq(T) /\ Len(longer) = m + 1
    BY <1>4, <1>5
  <1>7. longer = [k \in 1 .. m + 1 |-> longer[k]]
    BY <1>6
  <1>8. (\A k \in 1 .. m : longer[k] = start[k]) /\ longer[m + 1] = row[m + 1]
    BY <1>4, <1>5
  <1> HIDE DEF longer
  <1>9. \A k \in 1 .. m + 1 : k \in 1 .. m \/ k = m + 1
    OBVIOUS
  <1>10. \A k \in 1 .. m + 1 : longer[k] = row[k]
    BY <1>3, <1>8, <1>9
  <1>11. longer = row
    BY <1>7, <1>10
  <1> QED
    BY <1>11 DEF longer, start

\* The address b has the number n, the transition arc is added to the current
\* state, and everything known before stays.
Grown(b, n, arc) ==
    /\ DOMAIN state_map' = DOMAIN state_map \cup {b}
    /\ \A a \in DOMAIN state_map : state_map'[a] = state_map[a]
    /\ state_map'[b] = n
    /\ \A a \in DOMAIN state_map :
         /\ state_map[a] = current => basic_arcs'[state_map[a]] = Append(basic_arcs[state_map[a]], arc)
         /\ state_map[a] # current => basic_arcs'[state_map[a]] = basic_arcs[state_map[a]]
    /\ b \notin DOMAIN state_map => basic_arcs'[n] = << >>

\* What AddTransition does for a target at address b.
Adds(b, n, arc) ==
    /\ b \in DOMAIN state_map => n = state_map[b] /\ UNCHANGED << state_map, basic_final, agenda >>
    /\ b \notin DOMAIN state_map =>
         n = Cardinality(DOMAIN state_map) /\ AddState(b, n) /\ agenda' = Append(agenda, b)
    /\ basic_arcs' = [s \in DOMAIN basic_arcs \cup {n} |->
                       IF s = current THEN Append(basic_arcs[s], arc)
                       ELSE IF s \in DOMAIN basic_arcs THEN basic_arcs[s] ELSE << >>]

LEMMA GrowsOnce ==
    ASSUME MapInv, Kept, NEW b, NEW n, NEW arc, Adds(b, n, arc),
           current \in DOMAIN basic_arcs,
           \E u \in Reachable(graph) : b = StateAddress(u)
    PROVE  Grown(b, n, arc) /\ MapInv'
  <1> DEFINE D == DOMAIN state_map
             N == Cardinality(D)
  <1>1. /\ IsFiniteSet(D) /\ N \in Nat /\ 0 \in D
        /\ \A a \in D : \E s \in Reachable(graph) : a = StateAddress(s)
        /\ \A a \in D : state_map[a] \in 0 .. N - 1
        /\ \A a, c \in D : state_map[a] = state_map[c] => a = c
        /\ \A i \in 0 .. N - 1 : \E a \in D : state_map[a] = i
        /\ DOMAIN basic_arcs = 0 .. N - 1 /\ DOMAIN basic_final = 0 .. N - 1
        /\ \A a \in D : basic_final[state_map[a]] = FinalWeightAt(a)
    BY FS_CardinalityType DEF MapInv
  <1>2. basic_arcs' = [s \in DOMAIN basic_arcs \cup {n} |->
                        IF s = current THEN Append(basic_arcs[s], arc)
                        ELSE IF s \in DOMAIN basic_arcs THEN basic_arcs[s] ELSE << >>]
    BY DEF Adds
  <1>3. (\A a : FinalWeightAt(a)' = FinalWeightAt(a)) /\ \A s : StateAddress(s)' = StateAddress(s)
    BY DEF Kept
  <1>4. Reachable(graph)' = Reachable(graph)
    BY DEF Kept
  <1>5. \A a \in D :
          /\ state_map[a] = current => basic_arcs'[state_map[a]] = Append(basic_arcs[state_map[a]], arc)
          /\ state_map[a] # current => basic_arcs'[state_map[a]] = basic_arcs[state_map[a]]
    BY <1>1, <1>2
  <1>6. CASE b \in D
    <2>1. n = state_map[b] /\ UNCHANGED << state_map, basic_final, agenda >>
      BY <1>6 DEF Adds
    <2>2. DOMAIN basic_arcs' = 0 .. N - 1
      BY <1>1, <1>2, <1>6, <2>1
    <2>3. Grown(b, n, arc)
      BY <1>5, <1>6, <2>1 DEF Grown
    <2>4. \A a \in D : \E s \in Reachable(graph)' : a = StateAddress(s)'
      BY <1>1, <1>3, <1>4
    <2>5. MapInv'
      BY <1>1, <1>3, <2>1, <2>2, <2>4 DEF MapInv
    <2> QED
      BY <2>3, <2>5
  <1>7. CASE b \notin D
    <2>1. n = N /\ AddState(b, n)
      BY <1>7 DEF Adds
    <2>2. state_map' = [x \in D \cup {b} |-> IF x = b THEN n ELSE state_map[x]]
      BY <2>1 DEF AddState
    <2>3. basic_final' = [x \in DOMAIN basic_final \cup {n} |-> IF x = n THEN FinalWeightAt(b) ELSE basic_final[x]]
      BY <2>1 DEF AddState
    <2>4. IsFiniteSet(D \cup {b}) /\ Cardinality(D \cup {b}) = N + 1
      BY <1>1, <1>7, FS_AddElement
    <2> DEFINE E == DOMAIN state_map'
               M == Cardinality(E)
    <2>5. E = D \cup {b} /\ M = N + 1 /\ IsFiniteSet(E)
      BY <2>2, <2>4
    <2>6. (\A a \in D : state_map'[a] = state_map[a]) /\ state_map'[b] = N
      BY <1>7, <2>1, <2>2
    <2>7. /\ 0 .. M - 1 = (0 .. N - 1) \cup {N} /\ N \notin 0 .. N - 1
      BY <1>1, <2>5
    <2>8. DOMAIN basic_arcs' = 0 .. M - 1 /\ DOMAIN basic_final' = 0 .. M - 1
      BY <1>1, <1>2, <2>1, <2>3, <2>7
    <2>9. basic_arcs'[n] = << >>
      BY <1>1, <1>2, <2>1, <2>7
    <2>10. Grown(b, n, arc)
      BY <1>5, <2>1, <2>5, <2>6, <2>9 DEF Grown
    <2> HIDE DEF E, M, N, D
    <2>11. \A a \in E : \E s \in Reachable(graph)' : a = StateAddress(s)'
      BY <1>1, <1>3, <1>4, <2>5
    <2>12. \A a \in E : state_map'[a] \in 0 .. M - 1
      BY <1>1, <2>5, <2>6, <2>7
    <2>13. \A a, c \in E : state_map'[a] = state_map'[c] => a = c
      BY <1>1, <2>5, <2>6, <2>7
    <2>14. \A i \in 0 .. M - 1 : \E a \in E : state_map'[a] = i
      BY <1>1, <2>5, <2>6, <2>7
    <2>15. \A a \in E : basic_final'[state_map'[a]] = FinalWeightAt(a)'
      BY <1>1, <1>3, <2>1, <2>3, <2>5, <2>6, <2>7
    <2>16. 0 \in E
      BY <1>1, <2>5
    <2>17. MapInv'
      BY <2>5, <2>8, <2>11, <2>12, <2>13, <2>14, <2>15, <2>16 DEF MapInv, E, M
    <2> QED
      BY <2>10, <2>17
  <1> QED
    BY <1>6, <1>7 DEF D

\* What one step finds: the target u of a transition of the current state r.
Discovers(r, u) ==
    /\ IsCurrent(r) /\ u \in States(graph) /\ << r, u >> \in Edges
    /\ DOMAIN state_map' = DOMAIN state_map \cup {StateAddress(u)}
    /\ Waiting' = IF StateAddress(u) \in DOMAIN state_map THEN Waiting ELSE Waiting \cup {StateAddress(u)}
    /\ \A a \in DOMAIN state_map' : InWork(a)' <=> a = StateAddress(r)

LEMMA AddStep ==
    ASSUME BackInv, AddTransition, Addressable
    PROVE  /\ MapInv' /\ WorkInv'
           /\ \E r \in States(graph) : \E u \in States(graph) : Discovers(r, u)
  <1> DEFINE t == At(wtransition_table, Head(pending))
             b == t.target
             n == IF b \in DOMAIN state_map THEN state_map[b] ELSE Cardinality(DOMAIN state_map)
             arc == [in |-> symbol_table[t.input + 1], out |-> symbol_table[t.output + 1],
                     target |-> n, weight |-> IF weighted THEN t.weight ELSE 0]
  <1>1. /\ stage = "arcs" /\ pending # << >> /\ pending' = Tail(pending)
        /\ UNCHANGED << vars, stage, weighted, current >>
    BY DEF AddTransition
  <1>2. Adds(b, n, arc)
    BY DEF AddTransition, Adds
  <1>3. /\ MapInv /\ WorkInv
        /\ \A s, v \in States(graph) : StateAddress(s) = StateAddress(v) => s = v
        /\ \A s \in States(graph) : Len(placeholders[s]) \in Nat
    BY <1>1, AtWork
  <1>4. Kept
    BY <1>1, TablesKept
  <1>5. PICK r \in States(graph) : IsCurrent(r)
    BY <1>1, CurrentState
  <1>6. PICK m \in 0 .. Len(placeholders[r]) : Progress(r, m)
    BY <1>3, <1>5 DEF IsCurrent, WorkInv
  <1>7. /\ m + 1 \in 1 .. Len(placeholders[r]) /\ Head(pending) = EntryAddress(r, m + 1)
        /\ Tail(pending) \in Seq(Nat) /\ Len(Tail(pending)) = Len(placeholders[r]) - (m + 1)
        /\ \A j \in 1 .. Len(Tail(pending)) : Tail(pending)[j] = EntryAddress(r, (m + 1) + j)
    BY <1>1, <1>5, <1>6, NextTransition
  <1>8. PICK u \in Reachable(graph) : << r, u >> \in Edges /\ EntryOf(r, m + 1).target = StateAddress(u)
    BY <1>1, <1>5, <1>6, NextTransition
  <1>9. t = EntryOf(r, m + 1) /\ b = StateAddress(u) /\ u \in States(graph)
    BY <1>7, <1>8 DEF EntryOf, Reachable
  <1>10. current \in DOMAIN basic_arcs /\ current = state_map[StateAddress(r)] /\ StateAddress(r) \in DOMAIN state_map
    BY <1>3, <1>5 DEF IsCurrent, MapInv
  <1>11. arc = [in |-> symbol_table[t.input + 1], out |-> symbol_table[t.output + 1],
                target |-> n, weight |-> IF weighted THEN t.weight ELSE 0]
    OBVIOUS
  <1> HIDE DEF t, b, n, arc
  <1>12. Grown(b, n, arc) /\ MapInv'
    BY <1>2, <1>3, <1>4, <1>8, <1>9, <1>10, GrowsOnce
  <1> DEFINE D == DOMAIN state_map
  <1>13. /\ DOMAIN state_map' = D \cup {b}
         /\ \A a \in D : state_map'[a] = state_map[a]
         /\ state_map'[b] = n
         /\ basic_arcs'[current] = Append(basic_arcs[current], arc)
         /\ \A a \in D : state_map[a] # current => basic_arcs'[state_map[a]] = basic_arcs[state_map[a]]
         /\ b \notin D => basic_arcs'[n] = << >>
    BY <1>10, <1>12 DEF Grown
  <1>14. /\ b \in D => agenda' = agenda
         /\ b \notin D => agenda' = Append(agenda, b)
    BY <1>2 DEF Adds
  <1>15. /\ agenda \in Seq(D) /\ \A i, j \in 1 .. Len(agenda) : agenda[i] = agenda[j] => i = j
         /\ Len(agenda) \in Nat /\ Waiting \subseteq D
    BY <1>3 DEF WorkInv, Waiting
  <1> HIDE DEF D
  <1>16. /\ agenda' \in Seq(DOMAIN state_map')
         /\ \A i, j \in 1 .. Len(agenda') : agenda'[i] = agenda'[j] => i = j
         /\ Waiting' = IF b \in D THEN Waiting ELSE Waiting \cup {b}
    <2>1. CASE b \in D
      <3>1. DOMAIN state_map' = D
        BY <1>13, <2>1
      <3> QED
        BY <1>14, <1>15, <2>1, <3>1 DEF Waiting
    <2>2. CASE b \notin D
      <3>1. \A i \in 1 .. Len(agenda) : agenda[i] \in D
        BY <1>15
      <3>2. agenda \in Seq(D \cup {b}) /\ b \in D \cup {b}
        BY <1>15
      <3>3. /\ agenda' \in Seq(D \cup {b}) /\ Len(agenda') = Len(agenda) + 1
            /\ agenda'[Len(agenda) + 1] = b
            /\ \A i \in 1 .. Len(agenda) : agenda'[i] = agenda[i]
        BY <1>14, <2>2, <3>2
      <3>4. \A i \in 1 .. Len(agenda) + 1 : i \in 1 .. Len(agenda) \/ i = Len(agenda) + 1
        BY <1>15
      <3>5. \A i, j \in 1 .. Len(agenda') : agenda'[i] = agenda'[j] => i = j
        BY <1>15, <2>2, <3>1, <3>3, <3>4
      <3>6. Waiting' = {agenda'[k] : k \in 1 .. Len(agenda) + 1} /\ Waiting = {agenda[k] : k \in 1 .. Len(agenda)}
        BY <3>3 DEF Waiting
      <3>7. \A i \in 1 .. Len(agenda) : i \in 1 .. Len(agenda) + 1
        BY <1>15
      <3>8. Len(agenda) + 1 \in 1 .. Len(agenda) + 1
        BY <1>15
      <3>9. Waiting' = Waiting \cup {b}
        BY <3>3, <3>4, <3>6, <3>7, <3>8
      <3> QED
        BY <1>13, <2>2, <3>3, <3>5, <3>9
    <2> QED
      BY <2>1, <2>2
  <1>17. ASSUME NEW a \in D
         PROVE  (InWork(a)' <=> InWork(a)) /\ (a \in Waiting' <=> a \in Waiting)
    BY <1>1, <1>13, <1>16 DEF InWork
  <1>18. Progress(r, m + 1)'
    <2>1. InWork(StateAddress(r)) /\ StateAddress(r) \notin Waiting /\ StateAddress(r) \in D
      BY <1>5, <1>10 DEF IsCurrent, D
    <2>2. InWork(StateAddress(r))' /\ StateAddress(r) \notin Waiting' /\ StateAddress(r)' = StateAddress(r)
      BY <1>4, <1>17, <2>1 DEF Kept
    <2>3. /\ Len(pending') = Len(placeholders'[r]) - (m + 1)
          /\ \A j \in 1 .. Len(pending') : pending'[j] = EntryAddress(r, (m + 1) + j)'
      BY <1>1, <1>4, <1>7 DEF Kept
    <2>4. Built(r, m, state_map, basic_arcs[current])
      BY <1>6, <1>10 DEF Progress
    <2>5. \A k \in 1 .. m : EntryOf(r, k).target \in D
      BY <2>4 DEF Built, D
    <2>6. \A k \in 1 .. m + 1 : EntryOf(r, k)'.target \in DOMAIN state_map'
      <3>1. \A k \in 1 .. m + 1 : k \in 1 .. m \/ k = m + 1
        BY <1>6
      <3>2. EntryOf(r, m + 1).target = b
        BY <1>9 DEF b
      <3> QED
        BY <1>4, <1>13, <2>5, <3>1, <3>2 DEF Kept
    <2> DEFINE row == [k \in 1 .. m + 1 |-> ArcOf(EntryOf(r, k), state_map)']
    <2>7. basic_arcs[current] = [k \in 1 .. m |-> row[k]]
      <3>1. \A k \in 1 .. m : ArcOf(EntryOf(r, k), state_map)' = ArcOf(EntryOf(r, k), state_map)
        BY <1>1, <1>4, <1>13, <2>5 DEF Kept, ArcOf
      <3>2. \A k \in 1 .. m : row[k] = ArcOf(EntryOf(r, k), state_map)
        BY <1>6, <3>1
      <3> HIDE DEF row
      <3> QED
        BY <2>4, <3>2 DEF Built
    <2>8. arc = row[m + 1]
      <3>1. row[m + 1] = ArcOf(EntryOf(r, m + 1), state_map)'
        BY <1>6
      <3>2. EntryOf(r, m + 1)' = t /\ symbol_table' = symbol_table /\ weighted' = weighted
        BY <1>1, <1>4, <1>9 DEF Kept
      <3>3. state_map'[t.target] = n
        BY <1>13 DEF b
      <3> QED
        BY <1>11, <3>1, <3>2, <3>3 DEF ArcOf
    <2>9. row = [k \in 1 .. m + 1 |-> row[k]] /\ m \in Nat
      BY <1>6
    <2> HIDE DEF row
    <2>10. basic_arcs'[current] = row
      BY <1>13, <2>7, <2>8, <2>9, RowGrows
    <2>11. basic_arcs'[state_map'[StateAddress(r)']] = row
      BY <1>10, <1>13, <2>1, <2>2, <2>10
    <2>12. Built(r, m + 1, state_map, basic_arcs[state_map[StateAddress(r)]])'
      BY <2>6, <2>11 DEF Built, row
    <2> QED
      BY <2>2, <2>3, <2>12 DEF Progress
  <1>19. ASSUME NEW s \in States(graph), StateAddress(s) \in D, s # r
         PROVE  \E k \in 0 .. Len(placeholders[s]) : Progress(s, k)'
    <2>1. PICK k \in 0 .. Len(placeholders[s]) : Progress(s, k)
      BY <1>3, <1>19 DEF WorkInv, D
    <2>2. ~ InWork(StateAddress(s)) /\ state_map[StateAddress(s)] # current
      <3>1. ~ InWork(StateAddress(s))
        BY <1>5, <1>19 DEF IsCurrent, D
      <3> QED
        BY <1>1, <3>1 DEF InWork
    <2>3. /\ StateAddress(s)' = StateAddress(s) /\ placeholders' = placeholders /\ symbol_table' = symbol_table
          /\ weighted' = weighted /\ \A i : EntryOf(s, i)' = EntryOf(s, i)
      BY <1>1, <1>4 DEF Kept
    <2>4. basic_arcs'[state_map'[StateAddress(s)']] = basic_arcs[state_map[StateAddress(s)]]
      BY <1>13, <1>19, <2>2, <2>3
    <2>5. Built(s, k, state_map, basic_arcs[state_map[StateAddress(s)]])
      BY <2>1 DEF Progress
    <2>6. \A i \in 1 .. k : EntryOf(s, i).target \in D
      BY <2>5 DEF Built, D
    <2>7. \A i \in 1 .. k : ArcOf(EntryOf(s, i), state_map)' = ArcOf(EntryOf(s, i), state_map)
      BY <1>13, <2>3, <2>6 DEF ArcOf
    <2>8. \A i \in 1 .. k : EntryOf(s, i)'.target \in DOMAIN state_map'
      BY <1>13, <2>3, <2>6
    <2>9. basic_arcs'[state_map'[StateAddress(s)']] = [i \in 1 .. k |-> ArcOf(EntryOf(s, i), state_map)']
      BY <2>4, <2>5, <2>7 DEF Built
    <2>10. Built(s, k, state_map, basic_arcs[state_map[StateAddress(s)]])'
      BY <2>8, <2>9 DEF Built
    <2>11. ~ InWork(StateAddress(s))' /\ (StateAddress(s)' \in Waiting' <=> StateAddress(s) \in Waiting)
      BY <1>17, <1>19, <2>2, <2>3
    <2> QED
      BY <2>1, <2>2, <2>3, <2>10, <2>11 DEF Progress
  <1>20. ASSUME NEW s \in States(graph), StateAddress(s) \notin D, StateAddress(s) \in DOMAIN state_map'
         PROVE  Progress(s, 0)'
    <2>1. StateAddress(s) = b /\ b \notin D
      BY <1>13, <1>20
    <2>2. StateAddress(s)' = b
      BY <1>4, <2>1 DEF Kept
    <2>3. basic_arcs'[state_map'[StateAddress(s)']] = << >>
      BY <1>13, <2>1, <2>2
    <2>4. Built(s, 0, state_map, basic_arcs[state_map[StateAddress(s)]])'
      BY <2>3 DEF Built
    <2>5. b \in Waiting'
      BY <1>16, <2>1
    <2>6. ~ InWork(StateAddress(s))'
      <3>1. n = Cardinality(DOMAIN state_map)
        BY <1>2, <2>1 DEF Adds, D
      <3>2. state_map'[b] = n /\ current' = current
        BY <1>1, <1>13
      <3>3. current \in 0 .. Cardinality(DOMAIN state_map) - 1
        BY <1>3, <1>10 DEF MapInv
      <3>4. Cardinality(DOMAIN state_map) \in Nat
        BY <1>1, AtWork
      <3>5. current # n
        BY <3>1, <3>3, <3>4
      <3> QED
        BY <2>2, <3>2, <3>5 DEF InWork
    <2> QED
      BY <2>2, <2>4, <2>5, <2>6 DEF Progress
  <1>21. WorkInv'
    <2>1. \A s \in States(graph) : StateAddress(s) \in DOMAIN state_map' =>
            \E k \in 0 .. Len(placeholders[s]) : Progress(s, k)'
      <3>1. m + 1 \in 0 .. Len(placeholders[r])
        BY <1>7
      <3>2. \A s \in States(graph) : 0 \in 0 .. Len(placeholders[s])
        BY <1>3
      <3> QED
        BY <1>18, <1>19, <1>20, <3>1, <3>2
    <2>2. \A s \in States(graph)' : StateAddress(s)' \in DOMAIN state_map' =>
            \E k \in 0 .. Len(placeholders'[s]) : Progress(s, k)'
      BY <1>4, <2>1 DEF Kept
    <2>3. \E a \in DOMAIN state_map' \ Waiting' : current' = state_map'[a]
      <3>1. StateAddress(r) \in D /\ StateAddress(r) \notin Waiting
        BY <1>5 DEF IsCurrent, D
      <3>2. StateAddress(r) \notin Waiting'
        BY <1>17, <3>1
      <3> QED
        BY <1>1, <1>10, <1>13, <3>1, <3>2
    <2>4. pending' \in Seq(Nat)
      BY <1>1, <1>7
    <2>5. stage' # "back"
      BY <1>1
    <2> QED
      BY <1>16, <2>2, <2>3, <2>4, <2>5 DEF WorkInv
  <1>22. Discovers(r, u)
    <2>1. ASSUME NEW a \in D
          PROVE  InWork(a)' <=> a = StateAddress(r)
      <3>1. PICK s \in States(graph) : a = StateAddress(s)
        BY <1>3, <2>1 DEF MapInv, D, Reachable
      <3>2. InWork(a) <=> s = r
        BY <1>5, <2>1, <3>1 DEF IsCurrent, D
      <3> QED
        BY <1>3, <1>17, <3>1, <3>2
    <2>2. ASSUME b \notin D
          PROVE  ~ InWork(StateAddress(u))' /\ StateAddress(u) # StateAddress(r)
      <3>1. n = Cardinality(DOMAIN state_map)
        BY <1>2, <2>2 DEF Adds, D
      <3>2. state_map'[StateAddress(u)] = n /\ current' = current /\ StateAddress(u)' = StateAddress(u)
        BY <1>1, <1>4, <1>9, <1>13 DEF Kept
      <3>3. current \in 0 .. Cardinality(DOMAIN state_map) - 1
        BY <1>3, <1>10 DEF MapInv
      <3>4. Cardinality(DOMAIN state_map) \in Nat
        BY <1>1, AtWork
      <3>5. current # n
        BY <3>1, <3>3, <3>4
      <3> QED
        BY <1>9, <1>10, <2>2, <3>2, <3>5 DEF InWork, D
    <2>3. ASSUME NEW a \in DOMAIN state_map'
          PROVE  InWork(a)' <=> a = StateAddress(r)
      <3>1. CASE a \in D
        BY <2>1, <3>1
      <3>2. CASE a \notin D
        <4>1. a = StateAddress(u) /\ b \notin D
          BY <1>9, <1>13, <2>3, <3>2
        <4>2. StateAddress(u)' = StateAddress(u)
          BY <1>4 DEF Kept
        <4>3. InWork(StateAddress(u))' <=> InWork(a)'
          BY <4>1, <4>2 DEF InWork
        <4> QED
          BY <2>2, <4>1, <4>3
      <3> QED
        BY <3>1, <3>2
    <2>4. DOMAIN state_map' = DOMAIN state_map \cup {StateAddress(u)}
      BY <1>9, <1>13 DEF D
    <2>5. Waiting' = IF StateAddress(u) \in DOMAIN state_map THEN Waiting ELSE Waiting \cup {StateAddress(u)}
      BY <1>9, <1>16 DEF D
    <2> QED
      BY <1>5, <1>8, <1>9, <2>3, <2>4, <2>5 DEF Discovers
  <1> QED
    BY <1>9, <1>12, <1>21, <1>22

LEMMA BackStep == BackInv /\ [BackNext]_allVars => BackInv'
  <1> SUFFICES ASSUME BackInv, [BackNext]_allVars
               PROVE  BackInv'
    OBVIOUS
  <1>1. /\ WrittenInv /\ RootInv /\ weighted \in BOOLEAN
        /\ stage \in {"before", "agenda", "arcs", "back", "undefined"}
        /\ stage = "before" => DOMAIN state_map = {} /\ DOMAIN basic_final = {}
        /\ stage # "before" => pc = "done"
    BY DEF BackInv
  <1>2. CASE ForwardStep
    <2>1. pc # "done" /\ stage = "before"
      BY <1>1, <1>2 DEF ForwardStep, GetStatesAndSymbols, SkipSimpleState, PackState, PackingDone,
                        WriteIndexTable, WriteTransitionTable
    <2>2. [Next]_vars /\ UNCHANGED backVars
      BY <1>2 DEF ForwardStep, Next
    <2>3. WrittenInv' /\ RootInv'
      BY <1>1, <2>2, WrittenStep, RootStep
    <2>4. UNCHANGED << stage, weighted, state_map, basic_final >>
      BY <2>2 DEF backVars
    <2> QED
      BY <1>1, <2>1, <2>3, <2>4 DEF BackInv
  <1>3. CASE ~ ForwardStep
    <2>1. \/ StartBack \/ PopAgenda \/ AddTransition \/ StateExpanded
          \/ BackDone \/ UNCHANGED allVars
      BY <1>3 DEF BackNext, Ended
    <2>2. UNCHANGED << vars, weighted >>
      BY <2>1 DEF StartBack, PopAgenda, AddTransition, StateExpanded, BackDone, allVars, backVars
    <2>3. WrittenInv' /\ RootInv'
      BY <1>1, <2>2, WrittenStep, RootStep
    <2>4. weighted' \in BOOLEAN
      BY <1>1, <2>2
    <2>5. pc' = pc
      BY <2>2 DEF vars
    <2>6. CASE UNCHANGED allVars
      <3>1. UNCHANGED << stage, state_map, basic_final >>
        BY <2>6 DEF allVars, backVars
      <3>2. stage' # "before" /\ Addressable' => MapInv' /\ WorkInv'
        <4>1. Addressable' = Addressable
          BY <2>2, TablesKept DEF Kept
        <4> QED
          BY <2>6, <3>1, <4>1, OtherBackSteps
      <3> QED
        BY <1>1, <2>3, <2>4, <2>5, <3>1, <3>2 DEF BackInv
    <2>7. CASE ~ UNCHANGED allVars
      <3>1. stage' \in {"agenda", "arcs", "back", "undefined"} /\ pc = "done"
        BY <1>1, <2>1, <2>7 DEF StartBack, PopAgenda, AddTransition, StateExpanded, BackDone
      <3>2. ASSUME Addressable'
            PROVE  MapInv' /\ WorkInv'
        <4>1. Addressable
          BY <2>2, <3>2, TablesKept DEF Kept
        <4>2. BackDone => stage # "before"
          BY DEF BackDone
        <4> QED
          BY <2>1, <2>7, <4>1, <4>2, StartStep, PopStep, AddStep, ExpandedStep, OtherBackSteps
      <3>3. stage' # "before"
        BY <3>1
      <3> QED
        BY <2>3, <2>4, <2>5, <3>1, <3>2, <3>3 DEF BackInv
    <2> QED
      BY <2>6, <2>7
  <1> QED
    BY <1>2, <1>3

LEMMA BackInvariant == BackSpec => []BackInv
  BY InitBack, BackStep, PTL DEF BackSpec

(* AgendaNamesStates: every address the agenda loop meets is the address of *)
(* a state that can be reached, so get_transitions_from_state never starts  *)
(* in the middle of something; the numbers given to the addresses are       *)
(* different and without gaps.  For every graph, every packing of its       *)
(* states and both kinds of weights.                                        *)
THEOREM AgendaNamesStatesHolds == BackSpec => [](Addressable => AgendaNamesStates)
  <1>1. BackInv => (Addressable => AgendaNamesStates)
    <2> SUFFICES ASSUME BackInv, Addressable, stage # "before"
                 PROVE  AgendaNamesStates
      BY DEF AgendaNamesStates
    <2>1. MapInv /\ WorkInv
      BY AtWork
    <2> DEFINE n == Cardinality(DOMAIN state_map)
    <2>2. DOMAIN state_map \subseteq {StateAddress(s) : s \in Reachable(graph)}
      BY <2>1 DEF MapInv
    <2>3. ToSet(agenda) \subseteq DOMAIN state_map
      BY <2>1 DEF WorkInv, ToSet
    <2>4. IsInjective(state_map)
      BY <2>1 DEF MapInv, IsInjective
    <2>5. {state_map[a] : a \in DOMAIN state_map} = 0 .. n - 1
      <3>1. /\ \A a \in DOMAIN state_map : state_map[a] \in 0 .. n - 1
            /\ \A i \in 0 .. n - 1 : \E a \in DOMAIN state_map : state_map[a] = i
        BY <2>1 DEF MapInv
      <3> HIDE DEF n
      <3> QED
        BY <3>1
    <2> QED
      BY <2>2, <2>3, <2>4, <2>5 DEF AgendaNamesStates
  <1> QED
    BY <1>1, BackInvariant, PTL

-----------------------------------------------------------------------------
(* The agenda loop explores the graph.                                      *)

LEMMA UnfinishedStates ==
    ASSUME WorkInv
    PROVE  /\ StatesUnfinished = {s \in States(graph) :
                StateAddress(s) \in Waiting \/ (StateAddress(s) \in DOMAIN state_map /\ InWork(StateAddress(s)))}
           /\ Waiting \subseteq DOMAIN state_map
  <1>1. agenda \in Seq(DOMAIN state_map)
    BY DEF WorkInv
  <1>2. ToSet(agenda) = Waiting /\ Waiting \subseteq DOMAIN state_map
    BY <1>1 DEF ToSet, Waiting
  <1> QED
    BY <1>2 DEF StatesUnfinished, InWork

LEMMA ExploreInit == BackInit => Explore!Init
  BY DEF BackInit, Explore!Init, Converting

LEMMA ExploreStep ==
    ASSUME BackInv, BackInv', Addressable, [BackNext]_allVars
    PROVE  [Explore!Next]_(Explore!vars)
  <1> DEFINE found == IF Converting THEN StatesFound ELSE {0}
             finished == IF Converting THEN StatesFound \ StatesUnfinished ELSE {}
  <1>1. SUFFICES \/ UNCHANGED << Edges, found, finished >>
                 \/ \E s \in found : \/ /\ s \in found \ finished
                                        /\ found' \in {found \cup S : S \in SUBSET Explore!Successors(s)}
                                        /\ UNCHANGED << Edges, finished >>
                                     \/ /\ s \in found \ finished
                                        /\ found' = found \cup Explore!Successors(s)
                                        /\ finished' = finished \cup {s}
                                        /\ UNCHANGED Edges
    BY DEF Explore!Next, Explore!Find, Explore!Finish, Explore!vars
  <1>2. \A s, u : u \in Explore!Successors(s) <=> << s, u >> \in Edges
    <2>1. \A d \in Edges : d = << d[1], d[2] >>
      BY DEF Edges
    <2> QED
      BY <2>1 DEF Explore!Successors
  <1>3. CASE ForwardStep
    <2>1. stage = "before" /\ stage' = stage /\ graph' = graph
      <3>1. pc # "done" /\ graph' = graph
        BY <1>3 DEF ForwardStep, GetStatesAndSymbols, SkipSimpleState, PackState, PackingDone,
                    WriteIndexTable, WriteTransitionTable, inputVars
      <3> QED
        BY <1>3, <3>1 DEF BackInv, ForwardStep, backVars
    <2>2. UNCHANGED << Edges, found, finished >>
      BY <2>1 DEF Converting, Edges
    <2> QED
      BY <2>2
  <1>4. CASE ~ ForwardStep
    <2>1. StartBack \/ PopAgenda \/ AddTransition \/ StateExpanded \/ BackDone \/ UNCHANGED allVars
      BY <1>4 DEF BackNext, Ended
    <2>2. UNCHANGED << vars, weighted >>
      BY <2>1 DEF StartBack, PopAgenda, AddTransition, StateExpanded, BackDone, allVars, backVars
    <2>3. Kept
      BY <2>2, TablesKept
    <2>4. /\ Edges' = Edges /\ States(graph)' = States(graph) /\ Addressable'
          /\ \A s : StateAddress(s)' = StateAddress(s)
      BY <2>3 DEF Kept
    <2>5. StatesFound' = {s \in States(graph) : StateAddress(s) \in DOMAIN state_map'}
      BY <2>4 DEF StatesFound
    <2>6. stage' # "before" => MapInv' /\ WorkInv'
      BY <2>4 DEF BackInv
    <2>7. stage' # "before" =>
            StatesUnfinished' = {s \in States(graph) :
              StateAddress(s) \in Waiting' \/ (StateAddress(s) \in DOMAIN state_map' /\ InWork(StateAddress(s))')}
      <3> SUFFICES ASSUME stage' # "before"
                   PROVE  StatesUnfinished' = {s \in States(graph) :
                            StateAddress(s) \in Waiting' \/ (StateAddress(s) \in DOMAIN state_map' /\ InWork(StateAddress(s))')}
        OBVIOUS
      <3>1. agenda' \in Seq(DOMAIN state_map')
        BY <2>6 DEF WorkInv
      <3>2. ToSet(agenda') = Waiting'
        BY <3>1 DEF ToSet, Waiting
      <3>3. StatesUnfinished' = {s \in States(graph)' : StateAddress(s)' \in
              Waiting' \cup {a \in DOMAIN state_map' : stage' \in {"arcs", "undefined"} /\ state_map'[a] = current'}}
        BY <3>2 DEF StatesUnfinished
      <3>4. \A s \in States(graph) :
              InWork(StateAddress(s))' <=> stage' \in {"arcs", "undefined"} /\ current' = state_map'[StateAddress(s)]
        BY <2>4 DEF InWork
      <3> QED
        BY <2>4, <3>3, <3>4
    <2>8. stage # "before" =>
            /\ MapInv /\ WorkInv
            /\ StatesUnfinished = {s \in States(graph) :
                 StateAddress(s) \in Waiting \/ (StateAddress(s) \in DOMAIN state_map /\ InWork(StateAddress(s)))}
            /\ Waiting \subseteq DOMAIN state_map
      BY AtWork, UnfinishedStates
    <2>9. CASE UNCHANGED allVars
      <3>1. UNCHANGED << stage, agenda, state_map, current >>
        BY <2>9 DEF allVars, backVars
      <3>2. StatesFound' = StatesFound /\ Converting' = Converting
        BY <2>5, <3>1 DEF StatesFound, Converting
      <3>3. StatesUnfinished' = StatesUnfinished
        BY <2>4, <3>1 DEF StatesUnfinished
      <3> QED
        BY <2>4, <3>2, <3>3
    <2>10. CASE StartBack
      <3>1. /\ stage = "before" /\ stage' = "agenda" /\ pc = "done" /\ agenda' = << 0 >> /\ AddState(0, 0)
        BY <2>10 DEF StartBack
      <3>2. WrittenInv /\ RootInv /\ DOMAIN state_map = {}
        BY <3>1 DEF BackInv
      <3>3. DOMAIN state_map' = {0}
        BY <3>1, <3>2 DEF AddState
      <3>4. 0 \in States(graph) /\ StateAddress(0) = 0 /\ \A s \in States(graph) : StateAddress(s) = 0 => s = 0
        BY <3>1, <3>2, RootAddress, AddressUnique
      <3>5. StatesFound' = {0}
        BY <2>5, <3>3, <3>4
      <3>6. 0 \in Waiting'
        BY <3>1 DEF Waiting
      <3>7. 0 \in StatesUnfinished'
        BY <2>7, <3>1, <3>4, <3>6
      <3>8. ~ Converting /\ Converting'
        BY <3>1 DEF Converting
      <3>9. found' = found /\ finished' = finished
        BY <3>5, <3>7, <3>8
      <3> QED
        BY <2>4, <3>9
    <2>11. CASE BackDone
      <3>1. stage = "agenda" /\ stage' = "back" /\ UNCHANGED << agenda, state_map >>
        BY <2>11 DEF BackDone
      <3>2. Converting /\ Converting' /\ StatesFound' = StatesFound
        BY <2>5, <3>1 DEF Converting, StatesFound
      <3>3. StatesUnfinished' = StatesUnfinished
        BY <2>4, <3>1 DEF StatesUnfinished
      <3> QED
        BY <2>4, <3>2, <3>3
    <2>12. CASE PopAgenda
      <3> DEFINE a == Last(agenda)
      <3>1. /\ stage = "agenda" /\ stage' \in {"arcs", "undefined"} /\ agenda # << >> /\ agenda' = Front(agenda)
            /\ state_map' = state_map /\ current' = state_map[a]
        BY <2>12 DEF PopAgenda
      <3>2. MapInv /\ WorkInv /\ agenda \in Seq(DOMAIN state_map) /\ a = agenda[Len(agenda)]
        BY <2>8, <3>1 DEF WorkInv, Last
      <3> HIDE DEF a
      <3>3. /\ Len(agenda) \in Nat \ {0} /\ Len(Front(agenda)) = Len(agenda) - 1
            /\ \A k \in 1 .. Len(agenda) - 1 : Front(agenda)[k] = agenda[k]
        BY <3>1, <3>2, FrontFacts
      <3>4. \A k \in 1 .. Len(agenda) : k = Len(agenda) \/ k \in 1 .. Len(agenda) - 1
        BY <3>3
      <3>5. \A k \in 1 .. Len(agenda) - 1 : k \in 1 .. Len(agenda)
        BY <3>3
      <3>6. Waiting = {agenda[k] : k \in 1 .. Len(agenda)} /\ Waiting' = {agenda'[k] : k \in 1 .. Len(agenda) - 1}
        BY <3>1, <3>3 DEF Waiting
      <3>7. Waiting = Waiting' \cup {a}
        BY <3>1, <3>2, <3>3, <3>4, <3>5, <3>6
      <3>8. a \in DOMAIN state_map /\ \A c \in DOMAIN state_map : InWork(c)' <=> c = a
        <4>1. a \in DOMAIN state_map
          BY <2>8, <3>1, <3>7
        <4>2. \A c \in DOMAIN state_map : state_map[a] = state_map[c] <=> c = a
          BY <3>2, <4>1 DEF MapInv
        <4> QED
          BY <3>1, <4>1, <4>2 DEF InWork
      <3>9. \A c : ~ InWork(c)
        BY <3>1 DEF InWork
      <3>10. ASSUME NEW s \in States(graph)
             PROVE  s \in StatesUnfinished' <=> s \in StatesUnfinished
        <4>1. s \in StatesUnfinished <=> StateAddress(s) \in Waiting
          BY <2>8, <3>1, <3>9
        <4>2. InWork(StateAddress(s))' <=> stage' \in {"arcs", "undefined"} /\ current' = state_map'[StateAddress(s)]
          BY <2>4 DEF InWork
        <4>3. StateAddress(s) \in DOMAIN state_map => (InWork(StateAddress(s))' <=> StateAddress(s) = a)
          BY <3>8, <4>2 DEF InWork
        <4>4. s \in StatesUnfinished' <=> StateAddress(s) \in Waiting' \/ StateAddress(s) = a
          BY <2>7, <3>1, <3>8, <4>3
        <4> QED
          BY <3>7, <4>1, <4>4
      <3>11. StatesUnfinished' = StatesUnfinished
        BY <2>4, <3>10 DEF StatesUnfinished
      <3>12. Converting /\ Converting' /\ StatesFound' = StatesFound
        BY <2>5, <3>1 DEF Converting, StatesFound
      <3> QED
        BY <2>4, <3>11, <3>12
    <2>13. CASE AddTransition
      <3>1. stage = "arcs" /\ stage' = stage
        BY <2>13 DEF AddTransition
      <3>2. PICK r \in States(graph), u \in States(graph) : Discovers(r, u)
        BY <2>13, AddStep
      <3>3. /\ IsCurrent(r) /\ << r, u >> \in Edges
            /\ DOMAIN state_map' = DOMAIN state_map \cup {StateAddress(u)}
            /\ Waiting' = IF StateAddress(u) \in DOMAIN state_map THEN Waiting ELSE Waiting \cup {StateAddress(u)}
            /\ \A a \in DOMAIN state_map' : InWork(a)' <=> a = StateAddress(r)
        BY <3>2 DEF Discovers
      <3>4. /\ MapInv /\ WorkInv /\ \A s, t \in States(graph) : StateAddress(s) = StateAddress(t) => s = t
        BY <3>1, AtWork
      <3>5. Converting /\ Converting'
        BY <3>1 DEF Converting
      <3>6. StatesFound' = StatesFound \cup {u}
        BY <2>5, <3>3, <3>4 DEF StatesFound
      <3>7. /\ \A s \in States(graph) : s \in StatesFound <=> StateAddress(s) \in DOMAIN state_map
            /\ StatesFound \subseteq States(graph)
        BY DEF StatesFound
      <3>8. ASSUME NEW s \in States(graph)
            PROVE  s \in StatesUnfinished <=> StateAddress(s) \in Waiting \/ s = r
        BY <2>8, <3>1, <3>3 DEF IsCurrent
      <3>9. ASSUME NEW s \in States(graph)
            PROVE  s \in StatesUnfinished' <=> StateAddress(s) \in Waiting' \/ s = r
        <4>1. InWork(StateAddress(s))' <=> stage' \in {"arcs", "undefined"} /\ current' = state_map'[StateAddress(s)]
          BY <2>4 DEF InWork
        <4>2. StateAddress(s) \in DOMAIN state_map' => (InWork(StateAddress(s))' <=> s = r)
          BY <3>3, <3>4, <4>1 DEF InWork
        <4>3. StateAddress(r) \in DOMAIN state_map'
          BY <3>3 DEF IsCurrent
        <4> QED
          BY <2>7, <3>1, <4>2, <4>3
      <3>10. StatesUnfinished \subseteq States(graph) /\ StatesUnfinished' \subseteq States(graph)
        BY <2>4 DEF StatesUnfinished
      <3>11. r \in StatesFound /\ r \in StatesUnfinished
        BY <3>3, <3>7, <3>8 DEF IsCurrent
      <3>12. StatesFound' \ StatesUnfinished' = StatesFound \ StatesUnfinished
        BY <3>3, <3>4, <3>6, <3>7, <3>8, <3>9, <3>10
      <3>13. {u} \in SUBSET Explore!Successors(r)
        BY <1>2, <3>3
      <3>14. found' = found \cup {u} /\ finished' = finished /\ r \in found \ finished
        BY <3>5, <3>6, <3>11, <3>12
      <3> QED
        BY <2>4, <3>13, <3>14
    <2>14. CASE StateExpanded
      <3>1. /\ stage = "arcs" /\ pending = << >> /\ stage' = "agenda"
            /\ UNCHANGED << agenda, state_map, current >>
        BY <2>14 DEF StateExpanded
      <3>2. PICK r \in States(graph) : IsCurrent(r)
        BY <3>1, CurrentState
      <3>3. /\ MapInv /\ WorkInv /\ WrittenInv /\ pc = "done"
            /\ Len(placeholders[r]) \in Nat
        BY <3>1, AtWork
      <3>4. PICK m \in 0 .. Len(placeholders[r]) : Progress(r, m)
        BY <3>2, <3>3 DEF IsCurrent, WorkInv
      <3>5. m = Len(placeholders[r])
        <4>1. InWork(StateAddress(r))
          BY <3>2 DEF IsCurrent
        <4>2. Len(pending) = 0 /\ Len(pending) = Len(placeholders[r]) - m
          BY <3>1, <3>4, <4>1 DEF Progress
        <4> QED
          BY <3>3, <4>2
      <3>6. ASSUME NEW u, << r, u >> \in Edges
            PROVE  u \in StatesFound
        <4>1. /\ u \in States(graph)
              /\ \E k \in 1 .. Len(placeholders[r]) : EntryOf(r, k).target = StateAddress(u)
          BY <3>3, <3>6, TransitionsLead DEF Leads
        <4>2. \A k \in 1 .. Len(placeholders[r]) : EntryOf(r, k).target \in DOMAIN state_map
          BY <3>4, <3>5 DEF Progress, Built
        <4> QED
          BY <4>1, <4>2 DEF StatesFound
      <3>7. Explore!Successors(r) \subseteq StatesFound
        BY <1>2, <3>6
      <3>8. Converting /\ Converting' /\ StatesFound' = StatesFound
        BY <2>5, <3>1 DEF Converting, StatesFound
      <3>9. Waiting' = Waiting
        BY <3>1 DEF Waiting
      <3>10. ASSUME NEW s \in States(graph)
             PROVE  /\ s \in StatesUnfinished <=> StateAddress(s) \in Waiting \/ s = r
                    /\ s \in StatesUnfinished' <=> StateAddress(s) \in Waiting
        <4>1. ~ InWork(StateAddress(s))'
          BY <3>1 DEF InWork
        <4> QED
          BY <2>7, <2>8, <3>1, <3>2, <3>9, <4>1 DEF IsCurrent
      <3>11. r \in StatesFound /\ StateAddress(r) \notin Waiting /\ StatesFound \subseteq States(graph)
        BY <3>2 DEF IsCurrent, StatesFound
      <3>12. finished' = finished \cup {r}
        <4>1. StatesFound' \ StatesUnfinished' = (StatesFound \ StatesUnfinished) \cup {r}
          BY <3>8, <3>10, <3>11
        <4> QED
          BY <3>8, <4>1
      <3>13. r \in found \ finished /\ found' = found \cup Explore!Successors(r)
        BY <3>7, <3>8, <3>10, <3>11
      <3> QED
        BY <2>4, <3>12, <3>13
    <2> QED
      BY <2>1, <2>9, <2>10, <2>11, <2>12, <2>13, <2>14
  <1> QED
    BY <1>3, <1>4

(* ExploresGraph: the agenda loop, read through the addresses, is an        *)
(* exploration of the graph of the original transducer: no step finds a     *)
(* state that is not a successor of the one being expanded, and none is     *)
(* left before all its successors are found.                                *)
THEOREM ExploresGraphHolds == BackSpec /\ []Addressable => ExploresGraph
  <1>1. BackInit => Explore!Init
    BY ExploreInit
  <1>2. BackInv /\ BackInv' /\ Addressable /\ [BackNext]_allVars => [Explore!Next]_(Explore!vars)
    BY ExploreStep
  <1> QED
    BY <1>1, <1>2, BackInvariant, PTL DEF BackSpec, ExploresGraph, Explore!Exploring

-----------------------------------------------------------------------------
(* There and back.                                                          *)

LEMMA RangeOf == \A f : \A y : y \in Range(f) <=> \E k \in DOMAIN f : y = f[k]
  BY DEF Range

(* Two sequences with the same elements in another order are one bag.       *)
Rearranged(f, g, n, p) ==
    /\ n \in Nat /\ p \in [1 .. n -> 1 .. n]
    /\ \A i, j \in 1 .. n : p[i] = p[j] => i = j
    /\ \A k \in 1 .. n : \E i \in 1 .. n : p[i] = k
    /\ DOMAIN f = 1 .. n /\ DOMAIN g = 1 .. n
    /\ \A k \in 1 .. n : f[k] = g[p[k]]

LEMMA SameBag ==
    ASSUME NEW f, NEW g, NEW n, NEW p, Rearranged(f, g, n, p)
    PROVE  ToBag(f) = ToBag(g)
  <1> DEFINE D == 1 .. n
             I(x) == {i \in D : f[i] = x}
             J(x) == {i \in D : g[i] = x}
  <1>1. IsFiniteSet(D)
    BY IntervalSize DEF Rearranged
  <1>2. /\ p \in [D -> D] /\ DOMAIN f = D /\ DOMAIN g = D
        /\ \A i, j \in D : p[i] = p[j] => i = j
        /\ \A k \in D : \E i \in D : p[i] = k
        /\ \A k \in D : f[k] = g[p[k]]
    BY DEF Rearranged
  <1> HIDE DEF D
  <1>3. Range(f) = Range(g)
    <2>1. \A y : (y \in Range(f) <=> \E k \in D : y = f[k]) /\ (y \in Range(g) <=> \E k \in D : y = g[k])
      <3>1. \A y : y \in Range(f) <=> \E k \in DOMAIN f : y = f[k]
        BY RangeOf, Zenon
      <3>2. \A y : y \in Range(g) <=> \E k \in DOMAIN g : y = g[k]
        BY RangeOf, Zenon
      <3>3. DOMAIN f = D /\ DOMAIN g = D
        BY <1>2
      <3> QED
        BY <3>1, <3>2, <3>3, Zenon
    <2>2. ASSUME NEW y, y \in Range(f)
          PROVE  y \in Range(g)
      <3>1. PICK k \in D : y = f[k]
        BY <2>1, <2>2
      <3>2. p[k] \in D /\ y = g[p[k]]
        BY <1>2, <3>1
      <3> QED
        BY <2>1, <3>2
    <2>3. ASSUME NEW y, y \in Range(g)
          PROVE  y \in Range(f)
      <3>1. PICK k \in D : y = g[k]
        BY <2>1, <2>3
      <3>2. PICK i \in D : p[i] = k
        BY <1>2
      <3>3. y = f[i]
        BY <1>2, <3>1, <3>2
      <3> QED
        BY <2>1, <3>3
    <2> QED
      BY <2>2, <2>3
  <1>4. ASSUME NEW x
        PROVE  Cardinality(I(x)) = Cardinality(J(x))
    <2> DEFINE h == [i \in I(x) |-> p[i]]
    <2>1. h \in [I(x) -> J(x)]
      BY <1>2
    <2>2. \A i, j \in I(x) : h[i] = h[j] => i = j
      BY <1>2
    <2>3. ASSUME NEW k \in J(x)
          PROVE  \E i \in I(x) : h[i] = k
      <3>1. PICK i \in D : p[i] = k
        BY <1>2
      <3>2. i \in I(x)
        BY <1>2, <3>1
      <3>3. h[i] = k
        BY <3>1, <3>2
      <3> QED
        BY <3>2, <3>3
    <2>4. IsFiniteSet(I(x))
      BY <1>1, FS_Subset
    <2> HIDE DEF h, I, J
    <2>5. h \in Bijection(I(x), J(x))
      BY <2>1, <2>2, <2>3 DEF Bijection, Injection, Surjection, IsInjective
    <2>6. ExistsBijection(I(x), J(x))
      BY <2>5 DEF ExistsBijection
    <2> QED
      BY <2>4, <2>6, FS_Bijection
  <1>5. ToBag(f) = [x \in Range(f) |-> Cardinality(I(x))] /\ ToBag(g) = [x \in Range(g) |-> Cardinality(J(x))]
    BY <1>2 DEF ToBag
  <1> HIDE DEF I, J
  <1> QED
    BY <1>3, <1>4, <1>5

(* What AddState takes for a state's final weights.                         *)
LEMMA FinalWeightRead ==
    ASSUME WrittenInv, pc = "done", Addressable, weighted \in BOOLEAN, NEW s \in States(graph)
    PROVE  FinalWeightAt(StateAddress(s)) = {IF weighted THEN w ELSE 0 : w \in graph.final[s]}
  <1> DEFINE a == StateAddress(s)
             F == graph.final[s]
  <1>1. /\ IsFinalAddress(windex_table, wtransition_table, a) <=> F # {}
        /\ F # {} => {IF SimpleState(s) THEN At(wtransition_table, a).weight
                                        ELSE At(windex_table, a).target} = F
    BY FinalityRead DEF FinalityFaithful
  <1>2. IndexesTransitionTable(a) <=> SimpleState(s)
    <2>1. CASE SimpleState(s)
      <3>1. First[s] \in Nat /\ First[s] >= 1 /\ a = First[s] + TRANSITION_TARGET_TABLE_START - 1
        BY <2>1, AddressType, FirstFacts
      <3> QED
        BY <2>1, <3>1, AddressArithmetic
    <2>2. CASE ~ SimpleState(s)
      <3>1. s \in DOMAIN start_index /\ start_index[s] \in Nat /\ a = start_index[s]
        BY <2>2, AddressType
      <3>2. /\ Len(windex_table) \in Nat /\ seen_input_symbols \in Nat
            /\ start_index[s] + seen_input_symbols < Len(windex_table)
        BY <3>1, IndexTableFacts
      <3>3. Len(windex_table) <= TRANSITION_TARGET_TABLE_START /\ TRANSITION_TARGET_TABLE_START \in Nat
        BY ConstantsAssumption DEF Addressable
      <3> HIDE DEF a
      <3>4. a \in Nat /\ a < TRANSITION_TARGET_TABLE_START
        BY <3>1, <3>2, <3>3
      <3> QED
        BY <2>2, <3>4, AddressArithmetic
    <2> QED
      BY <2>1, <2>2
  <1> HIDE DEF a, F
  <1>3. CASE F = {}
    BY <1>1, <1>3 DEF FinalWeightAt, a, F
  <1>4. CASE F # {}
    <2>1. PICK w \in F : F = {w}
      BY <1>4, FinalWeightUnique DEF F
    <2>2. FinalWeightAt(a) = IF weighted THEN F ELSE {0}
      BY <1>1, <1>2, <1>4 DEF FinalWeightAt
    <2> QED
      BY <2>1, <2>2 DEF a, F
  <1> QED
    BY <1>3, <1>4

LEMMA ArcExcept ==
    ASSUME NEW t \in Arc, NEW x, NEW y
    PROVE  [t EXCEPT !.target = x, !.weight = y] = [in |-> t.in, out |-> t.out, target |-> x, weight |-> y]
  <1> DEFINE r == [t EXCEPT !.target = x, !.weight = y]
  <1> USE DEF Arc
  <1>1. DOMAIN r = {"in", "out", "target", "weight"}
    OBVIOUS
  <1>2. r.weight = y /\ r.target = x /\ r.in = t.in /\ r.out = t.out
    OBVIOUS
  <1>3. r = [f \in DOMAIN r |-> r[f]]
    OBVIOUS
  <1> HIDE DEF r
  <1>4. r = [f \in {"in", "out", "target", "weight"} |-> r[f]]
    BY <1>1, <1>3
  <1>5. r = [in |-> t.in, out |-> t.out, target |-> x, weight |-> y]
    BY <1>2, <1>4
  <1> QED
    BY <1>5 DEF r

(* The transition that an entry becomes is the state's own.                 *)
LEMMA ArcKept ==
    ASSUME WrittenInv, pc = "done", NEW s \in States(graph), NEW k \in 1 .. Len(placeholders[s])
    PROVE  LET t == graph.arcs[s][WriteOrder(placeholders[s])[k]]
           IN  ArcOf(EntryOf(s, k), state_map) =
                 [t EXCEPT !.target = state_map[StateAddress(t.target)],
                           !.weight = IF weighted THEN t.weight ELSE 0]
  <1> DEFINE i == WriteOrder(placeholders[s])[k]
             t == graph.arcs[s][i]
             p == placeholders[s][i]
             e == EntryOf(s, k)
  <1>1. i \in 1 .. Len(placeholders[s])
    BY WriteOrderFacts
  <1> HIDE DEF i
  <1>2. i \in DOMAIN placeholders[s] /\ i \in DOMAIN graph.arcs[s] /\ NamesKept(s, i)
    <2>1. i \in DOMAIN placeholders[s]
      BY <1>1, WriteOrderFacts
    <2> QED
      BY <2>1, NumbersName
  <1>3. t \in Arc
    <2>1. graph.arcs[s] \in Seq(Arc)
      BY AtTheEnd, GraphsAssumption
    <2> QED
      BY <1>2, <2>1
  <1>4. e = TransitionEntry(p)
    BY EntryRead DEF EntryOf, i
  <1>5. /\ p.target = t.target /\ p.weight = t.weight
        /\ symbol_table[p.input + 1] = t.in /\ symbol_table[p.output + 1] = t.out
    BY <1>2 DEF NamesKept
  <1> HIDE DEF t, p, e
  <1>6. e.input = p.input /\ e.output = p.output /\ e.target = StateAddress(p.target) /\ e.weight = p.weight
    BY <1>4 DEF TransitionEntry, Transition
  <1>7. ArcOf(e, state_map) = [in |-> t.in, out |-> t.out, target |-> state_map[StateAddress(t.target)],
                               weight |-> IF weighted THEN t.weight ELSE 0]
    BY <1>5, <1>6 DEF ArcOf
  <1>8. [t EXCEPT !.target = state_map[StateAddress(t.target)], !.weight = IF weighted THEN t.weight ELSE 0]
          = [in |-> t.in, out |-> t.out, target |-> state_map[StateAddress(t.target)],
             weight |-> IF weighted THEN t.weight ELSE 0]
    <2>1. \A x, y : [t EXCEPT !.target = x, !.weight = y] = [in |-> t.in, out |-> t.out, target |-> x, weight |-> y]
      BY <1>3, ArcExcept
    <2> QED
      BY <2>1
  <1>9. ArcOf(e, state_map) = [t EXCEPT !.target = state_map[StateAddress(t.target)],
                                        !.weight = IF weighted THEN t.weight ELSE 0]
    BY <1>7, <1>8
  <1> QED
    BY <1>9 DEF t, i, e

(* At the end everything that was met was expanded.                         *)
LEMMA AllBuilt ==
    ASSUME BackInv, stage = "back", Addressable
    PROVE  /\ \A s \in States(graph) : StateAddress(s) \in DOMAIN state_map =>
                Built(s, Len(placeholders[s]), state_map, basic_arcs[state_map[StateAddress(s)]])
           /\ \A s \in States(graph) : StateAddress(s) \in DOMAIN state_map <=> s \in Reachable(graph)
  <1>1. /\ WrittenInv /\ pc = "done" /\ MapInv /\ WorkInv
        /\ 0 \in States(graph) /\ StateAddress(0) = 0
        /\ \A s, t \in States(graph) : StateAddress(s) = StateAddress(t) => s = t
        /\ \A s \in States(graph) : Len(placeholders[s]) \in Nat
    BY AtWork
  <1>2. Waiting = {}
    BY <1>1 DEF WorkInv, Waiting
  <1>3. ASSUME NEW s \in States(graph), StateAddress(s) \in DOMAIN state_map
        PROVE  Built(s, Len(placeholders[s]), state_map, basic_arcs[state_map[StateAddress(s)]])
    <2>1. PICK m \in 0 .. Len(placeholders[s]) : Progress(s, m)
      BY <1>1, <1>3 DEF WorkInv
    <2>2. ~ InWork(StateAddress(s))
      BY DEF InWork
    <2>3. m = Len(placeholders[s])
      BY <1>2, <2>1, <2>2 DEF Progress
    <2> QED
      BY <2>1, <2>3 DEF Progress
  <1> DEFINE S == {s \in States(graph) : StateAddress(s) \in DOMAIN state_map}
  <1>4. 0 \in S
    BY <1>1 DEF MapInv
  <1>5. ASSUME NEW s \in S, NEW u, << s, u >> \in Edges
        PROVE  u \in S
    <2>1. Leads(s)
      BY <1>1, TransitionsLead
    <2>2. u \in States(graph) /\ \E k \in 1 .. Len(placeholders[s]) : EntryOf(s, k).target = StateAddress(u)
      BY <1>5, <2>1 DEF Leads
    <2>3. \A k \in 1 .. Len(placeholders[s]) : EntryOf(s, k).target \in DOMAIN state_map
      BY <1>3 DEF Built
    <2> QED
      BY <2>2, <2>3
  <1>6. Reachable(graph) \subseteq S
    <2>1. S \in SUBSET States(graph)
      OBVIOUS
    <2> HIDE DEF S
    <2> QED
      BY <1>1, <1>4, <1>5, <2>1, ReachableClosed
  <1>7. ASSUME NEW s \in S
        PROVE  s \in Reachable(graph)
    <2>1. PICK r \in Reachable(graph) : StateAddress(s) = StateAddress(r)
      BY <1>1 DEF MapInv
    <2>2. r \in States(graph)
      BY DEF Reachable
    <2> QED
      BY <1>1, <2>1, <2>2
  <1> QED
    BY <1>3, <1>6, <1>7

(* RoundTrip: converting to the optimized-lookup format and back loses      *)
(* nothing: the states that can be reached, their transitions with names    *)
(* and weights, and the finality of each of them are again what they were.  *)
THEOREM RoundTripHolds == BackSpec => [](Addressable => RoundTrip)
  <1>1. ASSUME BackInv, Addressable, stage = "back"
        PROVE  RoundTrip
    <2> USE <1>1
    <2> DEFINE number(s) == state_map[StateAddress(s)]
               image(t) == [t EXCEPT !.target = number(t.target),
                                     !.weight = IF weighted THEN t.weight ELSE 0]
               R == Reachable(graph)
               D == DOMAIN state_map
    <2>1. /\ WrittenInv /\ pc = "done" /\ MapInv /\ weighted \in BOOLEAN
          /\ \A s, t \in States(graph) : StateAddress(s) = StateAddress(t) => s = t
      BY AtWork DEF BackInv
    <2>2. /\ \A s \in States(graph) : StateAddress(s) \in D =>
               Built(s, Len(placeholders[s]), state_map, basic_arcs[number(s)])
          /\ \A s \in States(graph) : StateAddress(s) \in D <=> s \in R
      BY AllBuilt
    <2>3. R \subseteq States(graph)
      BY DEF Reachable
    <2>4. D = {StateAddress(s) : s \in R}
      <3>1. \A a \in D : \E s \in R : a = StateAddress(s)
        BY <2>1 DEF MapInv
      <3>2. \A s \in R : StateAddress(s) \in D
        BY <2>2, <2>3
      <3> HIDE DEF D, R
      <3> QED
        BY <3>1, <3>2
    <2>5. Cardinality(D) = Cardinality(R)
      <3> DEFINE f == [s \in R |-> StateAddress(s)]
      <3>1. \A s, t \in R : StateAddress(s) = StateAddress(t) => s = t
        BY <2>1, <2>3
      <3> HIDE DEF D, R
      <3>2. f \in [R -> D]
        BY <2>4
      <3>3. \A s, t \in R : f[s] = f[t] => s = t
        BY <3>1
      <3>4. \A a \in D : \E s \in R : f[s] = a
        BY <2>4
      <3> HIDE DEF f
      <3>5. f \in Bijection(R, D)
        BY <3>2, <3>3, <3>4 DEF Bijection, Injection, Surjection, IsInjective
      <3>6. ExistsBijection(R, D)
        BY <3>5 DEF ExistsBijection
      <3>7. IsFiniteSet(R)
        <4>1. States(graph) = 0 .. graph.size - 1 /\ graph.size \in Nat
          BY <2>1, AtTheEnd
        <4>2. IsFiniteSet(0 .. graph.size - 1)
          BY <4>1, FS_Interval
        <4> QED
          BY <2>3, <4>1, <4>2, FS_Subset
      <3> QED
        BY <3>6, <3>7, FS_Bijection
    <2>6. ASSUME NEW s \in R
          PROVE  ToBag(basic_arcs[number(s)]) =
                   ToBag([k \in DOMAIN graph.arcs[s] |-> image(graph.arcs[s][k])])
      <3> DEFINE n == Len(placeholders[s])
                 p == WriteOrder(placeholders[s])
                 f == basic_arcs[number(s)]
                 g == [k \in DOMAIN graph.arcs[s] |-> image(graph.arcs[s][k])]
      <3>1. s \in States(graph)
        BY <2>3
      <3>2. /\ n \in Nat /\ p \in [1 .. n -> 1 .. n]
            /\ \A i, j \in 1 .. n : p[i] = p[j] => i = j
            /\ \A k \in 1 .. n : \E j \in 1 .. n : p[j] = k
            /\ DOMAIN graph.arcs[s] = 1 .. n
        BY <2>1, <3>1, WriteOrderFacts, NumbersName
      <3>3. f = [k \in 1 .. n |-> ArcOf(EntryOf(s, k), state_map)]
        BY <2>2, <2>3 DEF Built
      <3>4. \A k \in 1 .. n : ArcOf(EntryOf(s, k), state_map) = image(graph.arcs[s][p[k]])
        BY <2>1, <3>1, ArcKept
      <3> HIDE DEF n, p, f
      <3>5. DOMAIN f = 1 .. n /\ DOMAIN g = 1 .. n
        BY <3>2, <3>3
      <3>6. \A k \in 1 .. n : p[k] \in DOMAIN graph.arcs[s]
        BY <3>2
      <3>7. \A k \in 1 .. n : f[k] = g[p[k]]
        BY <3>3, <3>4, <3>6
      <3> HIDE DEF g
      <3>8. ToBag(f) = ToBag(g)
        <4>1. Rearranged(f, g, n, p)
          BY <3>2, <3>5, <3>7 DEF Rearranged
        <4> QED
          BY <4>1, SameBag
      <3> QED
        BY <3>8 DEF f, g
    <2>7. ASSUME NEW s \in R
          PROVE  basic_final[number(s)] = {IF weighted THEN w ELSE 0 : w \in graph.final[s]}
      <3>1. s \in States(graph) /\ StateAddress(s) \in D
        BY <2>2, <2>3
      <3>2. basic_final[number(s)] = FinalWeightAt(StateAddress(s))
        BY <2>1, <3>1 DEF MapInv
      <3> QED
        BY <2>1, <3>1, <3>2, FinalWeightRead
    <2> HIDE DEF number, image
    <2>8. /\ D = {StateAddress(s) : s \in R}
          /\ Cardinality(D) = Cardinality(R)
          /\ \A s \in R :
               /\ ToBag(basic_arcs[number(s)]) = ToBag([k \in DOMAIN graph.arcs[s] |-> image(graph.arcs[s][k])])
               /\ basic_final[number(s)] = {IF weighted THEN w ELSE 0 : w \in graph.final[s]}
      BY <2>4, <2>5, <2>6, <2>7
    <2> QED
      BY <2>8 DEF RoundTrip, number, image
  <1>2. BackInv => (Addressable => RoundTrip)
    BY <1>1 DEF RoundTrip
  <1> QED
    BY <1>2, BackInvariant, PTL

=============================================================================

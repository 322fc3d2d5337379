------------------------------ MODULE OlTables ------------------------------
(***************************************************************************)
(* The optimized-lookup transducer format: how a basic transducer's symbols *)
(* are numbered, how its states are described while they are converted      *)
(* (StatePlaceholder), and how the two tables - the transition index table  *)
(* and the transition table - are read.  The module holds no variable; the  *)
(* converter (OlConvert), the converter back (OlToBasic) and the lookup     *)
(* (OlLookup) are built from it.                                            *)
(*                                                                          *)
(* A basic transducer g is a record: g.arcs[s] is the sequence of the       *)
(* transitions of state s, each a record [in, out, target, weight] over     *)
(* symbol names; g.final[s] is the set holding the final weight of s, empty *)
(* when s is not final.  Its states are 0 .. g.size - 1 and state 0 is the  *)
(* start state.                                                             *)
(***************************************************************************)
EXTENDS Naturals, Sequences, SequencesExt, FiniteSetsExt

CONSTANTS
    SymbolOrder,            \* symbol names in the order of std::set<std::string>
    Epsilon,                \* internal_epsilon
    FlagNames,              \* names that are flag diacritics (or insertions)
    NO_SYMBOL_NUMBER,       \* the greatest SymbolNumber
    NO_TABLE_INDEX,         \* the greatest TransitionTableIndex
    TRANSITION_TARGET_TABLE_START   \* addresses from here on are in the transition table

ASSUME ConstantsAssumption ==
    /\ SymbolOrder \in Seq(STRING)
    /\ Epsilon \in STRING
    /\ NO_SYMBOL_NUMBER \in Nat
    /\ NO_TABLE_INDEX \in Nat
    /\ TRANSITION_TARGET_TABLE_START \in Nat
    /\ Len(SymbolOrder) < NO_SYMBOL_NUMBER
    /\ IsInjective(SymbolOrder)
    /\ Epsilon \notin FlagNames
    /\ NO_TABLE_INDEX > 1

\* The elements of a finite set S in the strict order R, a set of pairs: the
\* k-th one has k - 1 elements of S before it.
Ordered(S, R) ==
    [k \in 1 .. Cardinality(S) |->
      CHOOSE x \in S : Cardinality({y \in S : << y, x >> \in R}) = k - 1]

\* The numbers of S in ascending order (iterating over a std::set).
Ascending(S) == Ordered(S, {p \in S \X S : p[1] < p[2]})

\* The elements of seq at the positions in I, in their order.
Choose(seq, I) == LET a == Ascending(I) IN [k \in DOMAIN a |-> seq[a[k]]]

-----------------------------------------------------------------------------
(* The basic transducer that is converted. *)

States(g) == 0 .. g.size - 1

InputNames(g) == UNION {{g.arcs[s][k].in : k \in DOMAIN g.arcs[s]} : s \in States(g)}

OutputNames(g) == UNION {{g.arcs[s][k].out : k \in DOMAIN g.arcs[s]} : s \in States(g)}

-----------------------------------------------------------------------------
(* Numbering the symbols: get_states_and_symbols.                           *)

AllNames == {SymbolOrder[i] : i \in 1 .. Len(SymbolOrder)}

\* The names of S without epsilon, in the order of the std::set.
InOrder(S) == Choose(SymbolOrder, {i \in DOMAIN SymbolOrder : SymbolOrder[i] \in S \ {Epsilon}})

\* Mistaken variant: the flag diacritics before the input symbols.
CollectSymbolsFlagsFirst(inputs, outputs) ==
    << Epsilon >>
      \o InOrder(inputs \cap FlagNames)
      \o InOrder(inputs \ FlagNames)
      \o InOrder(outputs \ inputs)

\* Epsilon, the input symbols, the flag diacritics used as input, and the
\* symbols that only occur as output, in this order.
CollectSymbols(inputs, outputs) ==
    << Epsilon >>
      \o InOrder(inputs \ FlagNames)
      \o InOrder(inputs \cap FlagNames)
      \o InOrder(outputs \ inputs)

\* The header's input_symbol_count: epsilon and the other input symbols; flag
\* diacritics are not counted, because they are indexed as epsilon.
CollectSeenInputs(inputs) == 1 + Len(InOrder(inputs \ FlagNames))

\* string_symbol_map[x]: operator[] of std::map gives 0 for a missing key.
SymbolNumberOf(table, x) ==
    IF \E i \in 1 .. Len(table) : table[i] = x
      THEN (CHOOSE i \in 1 .. Len(table) : table[i] = x) - 1
      ELSE 0

NumbersOf(table, names) == {i - 1 : i \in {j \in 1 .. Len(table) : table[j] \in names}}

-----------------------------------------------------------------------------
(* StatePlaceholder: arcs is the sequence of a state's transitions, already *)
(* with symbol numbers, flags the set of the numbers of flag diacritics.    *)

Inputs(arcs) == {arcs[k].input : k \in DOMAIN arcs}

\* Epsilons and flags both index to 0.
IndexOffset(x, flags) == IF x \in flags THEN 0 ELSE x

Offsets(arcs, flags) == {IndexOffset(x, flags) : x \in Inputs(arcs)}

\* The indexing type add_input arrives at: the start state is never simple;
\* another state is when all its transitions index to one entry.
IsSimple(s, arcs, flags) == s # 0 /\ Cardinality(Offsets(arcs, flags)) <= 1

\* first_transition: every state before s takes one entry for its finality
\* and one for each of its transitions.
FirstTransition(arcs) ==
    LET first[s \in DOMAIN arcs] == IF s = 0 THEN 0 ELSE first[s - 1] + 1 + Len(arcs[s - 1])
    IN  first

\* Mistaken variant: the flag transitions, which come first, are not counted.
SymbolOffsetWithoutFlags(symbol, arcs, flags) ==
    Cardinality({k \in DOMAIN arcs : arcs[k].input \notin flags /\ arcs[k].input < symbol})

\* Where the transitions with this symbol start among those of the state:
\* epsilons and flags come first, then the other symbols in ascending order.
SymbolOffset(symbol, arcs, flags) ==
    IF symbol = 0 \/ symbol \in flags
      THEN 0
      ELSE Cardinality({k \in DOMAIN arcs : \/ arcs[k].input = 0
                                            \/ arcs[k].input \in flags
                                            \/ arcs[k].input < symbol})

-----------------------------------------------------------------------------
(* Table entries.  Tables are indexed from 0 in the code, so the entry at   *)
(* address i is the (i+1)-th of the sequence; an address in the transition  *)
(* table may carry TRANSITION_TARGET_TABLE_START.                           *)

IndexEntry(symbol, target) == [input |-> symbol, target |-> target]

BlankIndex == IndexEntry(NO_SYMBOL_NUMBER, NO_TABLE_INDEX)

\* The final weight is stored in place of the first transition's address.
FinalIndex(weight) == IndexEntry(NO_SYMBOL_NUMBER, weight)

Transition(input, output, target, weight) ==
    [input |-> input, output |-> output, target |-> target, weight |-> weight]

\* Marks the boundary before a state's transitions and the state's finality.
FinalityMarker(final, weight) ==
    Transition(NO_SYMBOL_NUMBER, NO_SYMBOL_NUMBER, IF final THEN 1 ELSE NO_TABLE_INDEX, weight)

IndexesTransitionTable(i) == i >= TRANSITION_TARGET_TABLE_START

TableAddress(i) ==
    IF IndexesTransitionTable(i) THEN i - TRANSITION_TARGET_TABLE_START ELSE i

\* The entry of a table at address i.
At(table, i) == table[TableAddress(i) + 1]

IndexFinal(e) == e.input = NO_SYMBOL_NUMBER /\ e.target # NO_TABLE_INDEX

TransitionFinal(e) ==
    e.input = NO_SYMBOL_NUMBER /\ e.output = NO_SYMBOL_NUMBER /\ e.target = 1

Matches(e, symbol) == e.input # NO_SYMBOL_NUMBER /\ e.input = symbol

-----------------------------------------------------------------------------
(* Reading the tables: the part of find_index, find_transitions,            *)
(* try_epsilon_indices and try_epsilon_transitions that chooses entries.    *)

\* The longest run of entries from address i on whose input symbol is in S.
Run(transitions, i, S) ==
    LET from == TableAddress(i)
        stop == Min({k \in from .. Len(transitions) :
                       k = Len(transitions) \/ At(transitions, k).input \notin S})
    IN  SubSeq(transitions, from + 1, stop)

\* The address the transitions of state address a with this symbol start at,
\* as a set: empty when the index table has no entry for the symbol.
FindIndex(index, a, symbol) ==
    IF IndexesTransitionTable(a) THEN {a + 1}
    ELSE {At(index, a + 1 + symbol).target :
            e \in {x \in {symbol} : Matches(At(index, a + 1 + symbol), x)}}

\* The transitions a lookup takes from state address a: with an input symbol,
\* and without input (epsilons and flag diacritics).
FindTransitions(index, transitions, a, symbol) ==
    UNION {{Run(transitions, i, {symbol})} : i \in FindIndex(index, a, symbol)}

TryEpsilons(index, transitions, a, flags) ==
    UNION {{Run(transitions, i, {0} \cup flags)} : i \in FindIndex(index, a, 0)}

\* Finality of a state address.
IsFinalAddress(index, transitions, a) ==
    IF IndexesTransitionTable(a) THEN TransitionFinal(At(transitions, a))
                                 ELSE IndexFinal(At(index, a))

=============================================================================

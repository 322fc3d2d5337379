------------------------------ MODULE OlConvert ------------------------------
(***************************************************************************)
(* hfst_basic_transducer_to_hfst_ol: the conversion of a basic transducer  *)
(* into the optimized-lookup format.  The states that need an entry in the *)
(* transition index table are packed into it one after another: a state is *)
(* placed at the first position where neither its finality marker nor any  *)
(* of its index entries lands on a position already used, so the entries   *)
(* of different states interleave.  Then both tables are written.          *)
(***************************************************************************)
EXTENDS OlTables

CONSTANTS
    Graphs,                 \* the basic transducers that may be converted
    FloorJumpThreshold      \* floor_jump_threshold

Arc == [in : STRING, out : STRING, target : Nat, weight : Nat]

ASSUME GraphsAssumption ==
    \A g \in Graphs :
      /\ g.size \in Nat \ {0}
      /\ g.arcs \in [States(g) -> Seq(Arc)]
      /\ \A s \in States(g) : \A k \in DOMAIN g.arcs[s] : g.arcs[s][k].target \in States(g)
      /\ InputNames(g) \cup OutputNames(g) \subseteq AllNames \cup {Epsilon}
      /\ g.final \in [States(g) -> SUBSET Nat]
      /\ \A s \in States(g) : NO_TABLE_INDEX \notin g.final[s] /\ \A v, w \in g.final[s] : v = w

ASSUME FloorAssumption == FloorJumpThreshold \in Nat

VARIABLES
    graph,                  \* the basic transducer
    harmonizer,             \* {}, or {S}: use the alphabet built from the symbols S
    pc,                     \* what is to be done next
    symbol_table,
    seen_input_symbols,
    flag_symbols,
    placeholders,           \* state -> its transitions with symbol numbers
    it,                     \* the state placeholder the packing loop is at
    start_index,            \* packed state -> its position in the index table
    used_indices,           \* used position -> << state, offset or NO_SYMBOL_NUMBER >>
    first_available_index,
    previous_first_index,
    floor_stuck_counter,
    windex_table,
    wtransition_table

inputVars == << graph, harmonizer >>
symbolVars == << symbol_table, seen_input_symbols, flag_symbols, placeholders >>
packVars == << it, start_index, used_indices, first_available_index,
               previous_first_index, floor_stuck_counter >>
tableVars == << windex_table, wtransition_table >>
vars == << inputVars, pc, symbolVars, packVars, tableVars >>

Init ==
    /\ graph \in Graphs
    /\ harmonizer \in {{}, {AllNames}}
    /\ pc = "symbols"
    /\ symbol_table = << >>
    /\ seen_input_symbols = 1
    /\ flag_symbols = {}
    /\ placeholders = [s \in {} |-> << >>]
    /\ it = 0
    /\ start_index = [s \in {} |-> 0]
    /\ used_indices = [p \in {} |-> << 0, 0 >>]
    /\ first_available_index = 0
    /\ previous_first_index = 0
    /\ floor_stuck_counter = 0
    /\ windex_table = << >>
    /\ wtransition_table = << >>

-----------------------------------------------------------------------------
(* get_states_and_symbols: number the symbols, with the harmonizer's table  *)
(* when there is one, then describe every state with these numbers.         *)

NumberedArcs(g, table) ==
    [s \in States(g) |->
      [k \in 1 .. Len(g.arcs[s]) |->
        [input  |-> SymbolNumberOf(table, g.arcs[s][k].in),
         output |-> SymbolNumberOf(table, g.arcs[s][k].out),
         target |-> g.arcs[s][k].target,
         weight |-> g.arcs[s][k].weight]]]

GetStatesAndSymbols ==
    LET inputs  == IF harmonizer = {} THEN InputNames(graph)  ELSE UNION harmonizer
        outputs == IF harmonizer = {} THEN OutputNames(graph) ELSE UNION harmonizer
    IN  /\ pc = "symbols"
        /\ \E table \in {CollectSymbols(inputs, outputs)} :
             /\ symbol_table' = table
             /\ flag_symbols' = NumbersOf(table, inputs \cap FlagNames)
             /\ placeholders' = NumberedArcs(graph, table)
        /\ seen_input_symbols' = CollectSeenInputs(inputs)
        /\ pc' = "pack"
        /\ UNCHANGED << inputVars, packVars, tableVars >>

-----------------------------------------------------------------------------
(* The packing loop.                                                        *)

SimpleState(s) == IsSimple(s, placeholders[s], flag_symbols)

StateOffsets(s) == Offsets(placeholders[s], flag_symbols)

\* The positions state s takes when its finality marker is at position i.
Slots(s, i) == {i} \cup {i + o + 1 : o \in StateOffsets(s)}

\* Mistaken variant: only the position of the finality marker is looked at.
FitsMarkerOnly(s, i) == i \notin DOMAIN used_indices

Fits(s, i) == Slots(s, i) \cap DOMAIN used_indices = {}

\* Mistaken variants: the marker has an offset like the entries, or names the
\* start state.
AssignUnmarked(s, i) ==
    [p \in DOMAIN used_indices \cup Slots(s, i) |->
      IF p \notin Slots(s, i) THEN used_indices[p] ELSE << s, p - i - 1 >>]

AssignMarkerToStart(s, i) ==
    [p \in DOMAIN used_indices \cup Slots(s, i) |->
      IF p \notin Slots(s, i) THEN used_indices[p]
      ELSE IF p = i THEN << 0, NO_SYMBOL_NUMBER >> ELSE << s, p - i - 1 >>]

\* assign: the finality marker and one entry for each offset.
Assign(s, i) ==
    [p \in DOMAIN used_indices \cup Slots(s, i) |->
      IF p \notin Slots(s, i) THEN used_indices[p]
      ELSE << s, IF p = i THEN NO_SYMBOL_NUMBER ELSE p - i - 1 >>]

\* A position is no longer tried as a start when it is used, or when at least
\* 85% (packing_aggression) of the positions after it are.
Unsuitable(used, position, symbols) ==
    \/ position \in DOMAIN used
    \/ 100 * Cardinality({k \in 1 .. symbols : position + k \in DOMAIN used}) >= 85 * symbols

\* A position above all the used ones.
Beyond(used) == IF DOMAIN used = {} THEN 0 ELSE Max(DOMAIN used) + 1

\* Where the floor goes when it is stuck, the last state having been packed at i.
\* Mistaken variant: back to the beginning.
FloorJumpBack(i) == 0

FloorJump(i) == i + 1

\* The floor of the search after a state was packed at position i: it moves up
\* past unsuitable positions; when it did not move for more than
\* FloorJumpThreshold states, it jumps behind the last start.
AdvanceFloor(used, i) ==
    \E floor \in first_available_index .. first_available_index + Beyond(used) :
      /\ ~ Unsuitable(used, floor, seen_input_symbols)
      /\ \A j \in first_available_index .. floor - 1 : Unsuitable(used, j, seen_input_symbols)
      /\ \/ /\ floor # previous_first_index
            /\ first_available_index' = floor
            /\ previous_first_index' = floor
            /\ floor_stuck_counter' = 0
         \/ /\ floor = previous_first_index
            /\ floor_stuck_counter > FloorJumpThreshold
            /\ first_available_index' = FloorJump(i)
            /\ previous_first_index' = FloorJump(i)
            /\ floor_stuck_counter' = 0
         \/ /\ floor = previous_first_index
            /\ floor_stuck_counter <= FloorJumpThreshold
            /\ first_available_index' = floor
            /\ floor_stuck_counter' = floor_stuck_counter + 1
            /\ UNCHANGED previous_first_index

\* Mistaken variant: the loop goes on without advancing.
SkipSimpleStateStuck == pc = "pack" /\ it < graph.size /\ SimpleState(it) /\ UNCHANGED vars

SkipSimpleState ==
    /\ pc = "pack"
    /\ it < graph.size
    /\ SimpleState(it)
    /\ it' = it + 1
    /\ UNCHANGED << inputVars, pc, symbolVars, start_index, used_indices,
                    first_available_index, previous_first_index,
                    floor_stuck_counter, tableVars >>

PackState ==
    /\ pc = "pack"
    /\ it < graph.size
    /\ ~ SimpleState(it)
    /\ \E i \in first_available_index .. first_available_index + Beyond(used_indices) :
         /\ Fits(it, i)
         /\ \A j \in first_available_index .. i - 1 : ~ Fits(it, j)
         /\ start_index' = [s \in DOMAIN start_index \cup {it} |->
                              IF s = it THEN i ELSE start_index[s]]
         /\ used_indices' = Assign(it, i)
         /\ AdvanceFloor(used_indices', i)
    /\ it' = it + 1
    /\ UNCHANGED << inputVars, pc, symbolVars, tableVars >>

PackingDone ==
    /\ pc = "pack"
    /\ it = graph.size
    /\ pc' = "index"
    /\ UNCHANGED << inputVars, symbolVars, packVars, tableVars >>

-----------------------------------------------------------------------------
(* Writing the tables.                                                      *)

IndexTableEntry(p) ==
    IF p \notin DOMAIN used_indices THEN BlankIndex
    ELSE LET s == used_indices[p][1]
             symbol == used_indices[p][2]
         IN  IF symbol # NO_SYMBOL_NUMBER
             THEN IndexEntry(symbol,
                    FirstTransition(placeholders)[s]
                      + SymbolOffset(symbol, placeholders[s], flag_symbols)
                      + TRANSITION_TARGET_TABLE_START)
             ELSE IF graph.final[s] = {} THEN BlankIndex
             ELSE FinalIndex(CHOOSE w \in graph.final[s] : TRUE)

\* Mistaken variant: no padding.
WriteIndexTableUnpadded ==
    /\ pc = "index"
    /\ windex_table' = [p \in 1 .. Beyond(used_indices) |-> IndexTableEntry(p - 1)]
    /\ pc' = "transitions"
    /\ UNCHANGED << inputVars, symbolVars, packVars, wtransition_table >>

\* One entry for every position up to the greatest used one, then a padding of
\* as many blank entries as there are input symbols.
WriteIndexTable ==
    /\ pc = "index"
    /\ windex_table' =
         [p \in 1 .. Beyond(used_indices) + seen_input_symbols |->
           IF p <= Beyond(used_indices) THEN IndexTableEntry(p - 1) ELSE BlankIndex]
    /\ pc' = "transitions"
    /\ UNCHANGED << inputVars, symbolVars, packVars, wtransition_table >>

\* How a transition refers to a state: simple states by the transition table
\* entry before their transitions, the others by their index table position.
StateAddress(s) ==
    IF SimpleState(s)
      THEN FirstTransition(placeholders)[s] + TRANSITION_TARGET_TABLE_START - 1
      ELSE start_index[s]

\* The order in which the transitions of a state are written: epsilons, flag
\* diacritics, other symbols; among the flags and among the others by number,
\* and with one symbol in the order in which they were added.
WriteClass(x) == IF x = 0 THEN 0 ELSE IF x \in flag_symbols THEN 1 ELSE 2

SymbolBefore(x, y) ==
    WriteClass(x) < WriteClass(y) \/ (WriteClass(x) = WriteClass(y) /\ x < y)

WrittenBefore(arcs) ==
    {p \in (DOMAIN arcs) \X (DOMAIN arcs) :
       \/ SymbolBefore(arcs[p[1]].input, arcs[p[2]].input)
       \/ arcs[p[1]].input = arcs[p[2]].input /\ p[1] < p[2]}

WriteOrder(arcs) == Ordered(DOMAIN arcs, WrittenBefore(arcs))

\* The entry for a transition: it leads to the address of its target.
TransitionEntry(t) == Transition(t.input, t.output, StateAddress(t.target), t.weight)

StateTransitions(s) ==
    LET order == WriteOrder(placeholders[s])
    IN  [k \in DOMAIN order |-> TransitionEntry(placeholders[s][order[k]])]

\* Mistaken variant: the final weight is left out.
StateMarkerUnweighted(s) == IF s = 0 THEN << >> ELSE << FinalityMarker(graph.final[s] # {}, 0) >>

\* The start state has no finality marker here: its index entry has it.
StateMarker(s) ==
    IF s = 0 THEN << >>
    ELSE << FinalityMarker(graph.final[s] # {},
              IF graph.final[s] = {} THEN 0 ELSE CHOOSE w \in graph.final[s] : TRUE) >>

\* The table after the first n states were written.
WrittenStates ==
    LET table[n \in 0 .. graph.size] ==
          IF n = 0 THEN << >> ELSE table[n - 1] \o StateMarker(n - 1) \o StateTransitions(n - 1)
    IN  table

WriteTransitionTable ==
    /\ pc = "transitions"
    /\ wtransition_table' =
         WrittenStates[graph.size] \o << FinalityMarker(FALSE, NO_TABLE_INDEX) >>
    /\ pc' = "done"
    /\ UNCHANGED << inputVars, symbolVars, packVars, windex_table >>

Converted == pc = "done" /\ UNCHANGED vars

Next ==
    \/ GetStatesAndSymbols
    \/ SkipSimpleState
    \/ PackState
    \/ PackingDone
    \/ WriteIndexTable
    \/ WriteTransitionTable
    \/ Converted

\* The conversion is one sequential function: it keeps running until it returns.
Spec == Init /\ [][Next]_vars /\ WF_vars(Next)

-----------------------------------------------------------------------------
(* Properties.                                                              *)

NumberedArc == [input : Nat, output : Nat, target : Nat, weight : Nat]

\* Type correctness of the converter's state (the symbol table is described by
\* SymbolsInOrder, the two tables by TransitionsFaithful).
TypeOK ==
    /\ graph \in Graphs
    /\ harmonizer \in {{}, {AllNames}}
    /\ pc \in {"symbols", "pack", "index", "transitions", "done"}
    /\ seen_input_symbols \in Nat
    /\ flag_symbols \in SUBSET Nat
    /\ pc # "symbols" => placeholders \in [States(graph) -> Seq(NumberedArc)]
    /\ it \in 0 .. graph.size
    /\ DOMAIN start_index \subseteq 0 .. it - 1
    /\ start_index \in [DOMAIN start_index -> Nat]
    /\ used_indices \in [DOMAIN used_indices -> Nat \X Nat]
    /\ DOMAIN used_indices \subseteq Nat
    /\ first_available_index \in Nat
    /\ previous_first_index \in Nat
    /\ floor_stuck_counter \in Nat

\* "Symbols must be in the following order in an optimized-lookup transducer":
\* epsilon, the input symbols, then flag diacritics and symbols never used as
\* input.  Every symbol of a transition has a number of its own, and the number
\* a transition is indexed by is below seen_input_symbols, the count that
\* bounds the encoder's symbols, the padding and the search for free positions.
SymbolsInOrder ==
    pc # "symbols" =>
      /\ symbol_table[1] = Epsilon
      /\ IsInjective(symbol_table)
      /\ InputNames(graph) \cup OutputNames(graph) \subseteq ToSet(symbol_table) \cup {Epsilon}
      /\ \A s \in States(graph) : Offsets(placeholders[s], flag_symbols) \subseteq 0 .. seen_input_symbols - 1
      /\ \A x \in 1 .. seen_input_symbols - 1 : symbol_table[x + 1] \notin FlagNames

\* Every position of the index table that the packing loop marked as used
\* belongs to exactly the state it names: it is the finality marker at the
\* start of a packed state, or the entry of one of its offsets; and every
\* packed state still owns its marker and all its entries, however many states
\* were packed between and around them.
IndexOwnership ==
    /\ \A s \in DOMAIN start_index :
         /\ start_index[s] \in DOMAIN used_indices
         /\ used_indices[start_index[s]] = << s, NO_SYMBOL_NUMBER >>
         /\ \A o \in StateOffsets(s) :
              /\ start_index[s] + o + 1 \in DOMAIN used_indices
              /\ used_indices[start_index[s] + o + 1] = << s, o >>
    /\ \A p \in DOMAIN used_indices :
         LET s == used_indices[p][1]
             o == used_indices[p][2]
         IN  /\ s \in DOMAIN start_index
             /\ \/ o = NO_SYMBOL_NUMBER /\ p = start_index[s]
                \/ o \in StateOffsets(s) /\ p = start_index[s] + o + 1

\* Reading the index table for symbol x at a packed state hits an entry marked
\* x exactly when the state has a transition indexed by x, and the entry is the
\* state's own.  The entries of other states are in between, so this is what
\* find_index relies on when it only compares the entry's symbol with x.
NoFalseHit ==
    \A s \in DOMAIN start_index : \A x \in 0 .. NO_SYMBOL_NUMBER - 1 :
      LET p == start_index[s] + 1 + x
      IN  /\ (p \in DOMAIN used_indices /\ used_indices[p][2] = x) <=> x \in StateOffsets(s)
          /\ x \in StateOffsets(s) => used_indices[p][1] = s

\* The entries for the transitions of state s with symbol x, in their order.
OwnTransitions(s, x) ==
    LET own == Choose(placeholders[s], {k \in DOMAIN placeholders[s] : placeholders[s][k].input = x})
    IN  [k \in DOMAIN own |-> TransitionEntry(own[k])]

\* What is read when the entries are those of one of these runs, if any.
Found(runs) == IF runs = {} THEN << >> ELSE CHOOSE r \in runs : TRUE

\* A lookup that follows the tables from the address of state s finds, for
\* every input symbol, the transitions of s with that symbol, in their order,
\* each leading to the address of its target; and without input all epsilon
\* and flag transitions of s and no others.  Covers index entries, symbol
\* offsets, finality markers and addresses at once.
TransitionsFaithful ==
    pc = "done" =>
      \A s \in States(graph) :
        LET a == StateAddress(s)
            eps == {0} \cup flag_symbols
            read == Found(TryEpsilons(windex_table, wtransition_table, a, flag_symbols))
        IN  /\ \A x \in (1 .. seen_input_symbols - 1) \ flag_symbols :
                 Found(FindTransitions(windex_table, wtransition_table, a, x)) = OwnTransitions(s, x)
            /\ Len(read) = Cardinality({k \in DOMAIN placeholders[s] : placeholders[s][k].input \in eps})
            /\ \A y \in eps : Choose(read, {i \in DOMAIN read : read[i].input = y}) = OwnTransitions(s, y)

\* The finality of every state, and its weight, is what its address shows.
FinalityFaithful ==
    pc = "done" =>
      \A s \in States(graph) :
        LET a == StateAddress(s)
        IN  /\ IsFinalAddress(windex_table, wtransition_table, a) <=> graph.final[s] # {}
            /\ graph.final[s] # {} =>
                 {IF SimpleState(s) THEN At(wtransition_table, a).weight
                                    ELSE At(windex_table, a).target} = graph.final[s]

\* The padding after the last used position is long enough for a lookup: for
\* every state in the index table and every symbol the input encoder knows,
\* the entry that is read exists.
LookupReadsInTable ==
    pc = "done" =>
      \A s \in DOMAIN start_index : \A x \in 0 .. seen_input_symbols - 1 :
        start_index[s] + 1 + x < Len(windex_table)

\* The floor of the search for a start position never moves down, although it
\* is set in three ways (a scan, a jump behind the last start, not at all).
FloorNeverFalls == [][first_available_index' >= first_available_index]_vars

\* Both search loops find a position for every state: conversion ends.
ConversionEnds == <>(pc = "done")

=============================================================================

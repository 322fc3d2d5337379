------------------------------ MODULE OlToBasic ------------------------------
(***************************************************************************)
(* hfst_ol_to_hfst_basic_transducer: the conversion of an optimized-lookup *)
(* transducer back into a basic transducer, run here on the tables that    *)
(* OlConvert has just written.  States are discovered through an agenda of *)
(* addresses; each new address gets the next state number.                 *)
(***************************************************************************)
EXTENDS OlConvert

VARIABLES
    stage,                  \* what the conversion back does next
    weighted,               \* the header's Weighted flag
    agenda,                 \* stack of addresses still to be expanded
    state_map,              \* address -> state number
    current,                \* number of the state being expanded
    pending,                \* addresses of its transitions not yet added, ascending
    basic_arcs,             \* state number -> transitions added so far
    basic_final             \* state number -> final weight, as a set

backVars == << stage, weighted, agenda, state_map, current, pending, basic_arcs, basic_final >>
allVars == << vars, backVars >>

BackInit ==
    /\ Init
    /\ stage = "before"
    /\ weighted \in BOOLEAN
    /\ agenda = << >>
    /\ state_map = [a \in {} |-> 0]
    /\ current = 0
    /\ pending = << >>
    /\ basic_arcs = [n \in {} |-> << >>]
    /\ basic_final = [n \in {} |-> {}]

-----------------------------------------------------------------------------
(* get_transitions_from_state: every symbol of the header's symbol count is  *)
(* looked up, the ones never used as input as well.                          *)

AllSymbols == 0 .. Len(symbol_table) - 1

\* is_like_epsilon: a flag diacritic of the alphabet, used as input or not.
LikeEpsilon == NumbersOf(symbol_table, FlagNames)

InIndexTable(i) == i < Len(windex_table)

\* The addresses of the transitions of the run from i on whose symbol is in S.
RunAddresses(i, S) ==
    {i + k - 1 : k \in 1 .. Len(Run(wtransition_table, i, S))}

\* Mistaken variant: the flag diacritics at index 0 are forgotten.
FromIndexWithoutFlags(a) ==
    UNION {RunAddresses(At(windex_table, a + 1 + x).target, {x}) :
             x \in {y \in AllSymbols \ LikeEpsilon :
                     InIndexTable(a + 1 + y) /\ Matches(At(windex_table, a + 1 + y), y)}}

FromIndex(a) ==
    LET hit(x) == InIndexTable(a + 1 + x) /\ Matches(At(windex_table, a + 1 + x), x)
        target(x) == At(windex_table, a + 1 + x).target
        plain == {x \in AllSymbols \ LikeEpsilon : hit(x)}
    IN  (UNION {RunAddresses(target(x), {x}) : x \in plain})
          \cup (IF hit(0) THEN {i \in RunAddresses(target(0), {0} \cup LikeEpsilon) :
                                  At(wtransition_table, i).input \in LikeEpsilon}
                          ELSE {})

\* Mistaken variant: the run is not ended by the next state's finality marker.
GetTransitionsFromRun(a) ==
    IF IndexesTransitionTable(a)
      THEN RunAddresses(a + 1, AllSymbols) \cup RunAddresses(a + 2 + Cardinality(RunAddresses(a + 1, AllSymbols)), AllSymbols)
      ELSE FromIndex(a)

GetTransitionsFromState(a) ==
    IF IndexesTransitionTable(a)
      THEN RunAddresses(a + 1, AllSymbols)
      ELSE FromIndex(a)

\* The lookup of some symbol reads behind the end of the index table.
ReadsOutside(a) ==
    /\ ~ IndexesTransitionTable(a)
    /\ \E x \in AllSymbols \ LikeEpsilon : ~ InIndexTable(a + 1 + x)

-----------------------------------------------------------------------------
(* The agenda loop.                                                         *)

FinalWeightAt(a) ==
    IF ~ IsFinalAddress(windex_table, wtransition_table, a) THEN {}
    ELSE IF ~ weighted THEN {0}
    ELSE IF IndexesTransitionTable(a) THEN {At(wtransition_table, a).weight}
                                      ELSE {At(windex_table, a).target}

\* Mistaken variant: the number is used before it is incremented.
AddStatePostIncrement(a, n) ==
    LET m == IF n = 0 THEN 0 ELSE n - 1
    IN  /\ state_map' = [x \in DOMAIN state_map \cup {a} |-> IF x = a THEN m ELSE state_map[x]]
        /\ basic_final' = [x \in DOMAIN basic_final \cup {m} |->
                             IF x = m THEN FinalWeightAt(a) ELSE basic_final[x]]

\* hfst_ol_to_hfst_basic_add_state, for the next state number n.
AddState(a, n) ==
    /\ state_map' = [x \in DOMAIN state_map \cup {a} |-> IF x = a THEN n ELSE state_map[x]]
    /\ basic_final' = [x \in DOMAIN basic_final \cup {n} |->
                         IF x = n THEN FinalWeightAt(a) ELSE basic_final[x]]

StartBack ==
    /\ pc = "done"
    /\ stage = "before"
    /\ AddState(0, 0)
    /\ agenda' = << 0 >>
    /\ basic_arcs' = [n \in {0} |-> << >>]
    /\ stage' = "agenda"
    /\ UNCHANGED << vars, weighted, current, pending >>

\* Takes an address from the agenda and collects its transitions.  An entry
\* read outside the index table can be anything: it matches nothing, or the
\* conversion goes on with something that is not a transition.
PopAgenda ==
    /\ stage = "agenda"
    /\ agenda # << >>
    /\ agenda' = Front(agenda)
    /\ current' = state_map[Last(agenda)]
    /\ pending' = Ascending(GetTransitionsFromState(Last(agenda)))
    /\ stage' \in {"arcs"} \cup (IF ReadsOutside(Last(agenda)) THEN {"undefined"} ELSE {})
    /\ UNCHANGED << vars, weighted, state_map, basic_arcs, basic_final >>

\* Mistaken variant: the iterator over the transitions is not advanced.
AddTransitionStuck == stage = "arcs" /\ pending # << >> /\ UNCHANGED allVars

AddTransition ==
    LET t == At(wtransition_table, Head(pending))
        n == IF t.target \in DOMAIN state_map THEN state_map[t.target]
                                              ELSE Cardinality(DOMAIN state_map)
        arc == [in |-> symbol_table[t.input + 1], out |-> symbol_table[t.output + 1],
                target |-> n, weight |-> IF weighted THEN t.weight ELSE 0]
    IN  /\ stage = "arcs"
        /\ pending # << >>
        /\ pending' = Tail(pending)
        /\ \/ /\ t.target \in DOMAIN state_map
              /\ UNCHANGED << state_map, basic_final, agenda >>
           \/ /\ t.target \notin DOMAIN state_map
              /\ AddState(t.target, n)
              /\ agenda' = Append(agenda, t.target)
        /\ basic_arcs' = [s \in DOMAIN basic_arcs \cup {n} |->
                           IF s = current THEN Append(basic_arcs[s], arc)
                           ELSE IF s \in DOMAIN basic_arcs THEN basic_arcs[s] ELSE << >>]
        /\ UNCHANGED << vars, stage, weighted, current >>

StateExpanded ==
    /\ stage = "arcs"
    /\ pending = << >>
    /\ stage' = "agenda"
    /\ UNCHANGED << vars, weighted, agenda, state_map, current, pending, basic_arcs, basic_final >>

BackDone ==
    /\ stage = "agenda"
    /\ agenda = << >>
    /\ stage' = "back"
    /\ UNCHANGED << vars, weighted, agenda, state_map, current, pending, basic_arcs, basic_final >>

ForwardStep ==
    /\ \/ GetStatesAndSymbols \/ SkipSimpleState \/ PackState
       \/ PackingDone \/ WriteIndexTable \/ WriteTransitionTable
    /\ UNCHANGED backVars

Ended == stage \in {"back", "undefined"} /\ UNCHANGED allVars

BackNext ==
    \/ ForwardStep
    \/ StartBack
    \/ PopAgenda
    \/ AddTransition
    \/ StateExpanded
    \/ BackDone
    \/ Ended

\* Both conversions are sequential functions called one after the other.
BackSpec == BackInit /\ [][BackNext]_allVars /\ WF_allVars(BackNext)

-----------------------------------------------------------------------------
(* Properties.                                                              *)

\* The states that are in every set that holds the start state and is closed
\* under the transitions.
Reachable(g) ==
    {s \in States(g) : \A S \in SUBSET States(g) :
       0 \in S /\ (\A r \in S : \A k \in DOMAIN g.arcs[r] : g.arcs[r][k].target \in S) => s \in S}

\* The address of every state that was discovered is the address of one state
\* of the original transducer (so the entry before its transitions is a
\* finality marker and get_transitions_from_state never reaches its "Oops"),
\* different addresses have different numbers, and every number is in use.
AgendaNamesStates ==
    stage # "before" =>
      /\ DOMAIN state_map \subseteq {StateAddress(s) : s \in Reachable(graph)}
      /\ ToSet(agenda) \subseteq DOMAIN state_map
      /\ IsInjective(state_map)
      /\ {state_map[a] : a \in DOMAIN state_map} = 0 .. Cardinality(DOMAIN state_map) - 1

\* Converting to the optimized-lookup format and back gives the reachable part
\* of the original transducer up to the numbers of the states: the same
\* transitions (as bags: none lost, none twice) with the same symbol names and
\* the same final states; weights are kept when the format is weighted.
RoundTrip ==
    stage = "back" =>
      LET number(s) == state_map[StateAddress(s)]
          image(t) == [t EXCEPT !.target = number(t.target),
                                !.weight = IF weighted THEN t.weight ELSE 0]
      IN  /\ DOMAIN state_map = {StateAddress(s) : s \in Reachable(graph)}
          /\ Cardinality(DOMAIN state_map) = Cardinality(Reachable(graph))
          /\ \A s \in Reachable(graph) :
               /\ ToBag(basic_arcs[number(s)]) =
                    ToBag([k \in DOMAIN graph.arcs[s] |-> image(graph.arcs[s][k])])
               /\ basic_final[number(s)] = {IF weighted THEN w ELSE 0 : w \in graph.final[s]}

\* The agenda finds the states of the original transducer in the way of an
\* exploration of its graph: read through the addresses, no step finds a state
\* that is not a successor of the one being expanded, and a state is left only
\* when all its successors have been found.
StatesFound == {s \in States(graph) : StateAddress(s) \in DOMAIN state_map}
StatesUnfinished ==
    {s \in States(graph) : StateAddress(s) \in
       ToSet(agenda) \cup {a \in DOMAIN state_map : stage \in {"arcs", "undefined"} /\ state_map[a] = current}}
Converting == stage # "before"

\* From every state of the original transducer to the targets of its transitions.
Edges == UNION {{<< s, graph.arcs[s][k].target >> : k \in DOMAIN graph.arcs[s]} : s \in States(graph)}

Explore == INSTANCE Exploration WITH
    root <- 0,
    edges <- Edges,
    found <- IF Converting THEN StatesFound ELSE {0},
    finished <- IF Converting THEN StatesFound \ StatesUnfinished ELSE {}

ExploresGraph == Explore!Exploring

\* The agenda loop comes to an end although transducers have cycles.
RoundTripEnds == <>(stage \in {"back", "undefined"})

=============================================================================

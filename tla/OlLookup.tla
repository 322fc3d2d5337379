------------------------------ MODULE OlLookup ------------------------------
(***************************************************************************)
(* Transducer::lookup_fd: depth-first lookup in the tables OlConvert wrote. *)
(* get_analyses, the epsilon loops and the transition loops call each      *)
(* other recursively and share the members of the Transducer object: the   *)
(* weight and the flag values of the current path, the output tape, the    *)
(* states visited by flag transitions, found_transition and the remaining  *)
(* recursion depth.  Every call must leave them as it found them, also     *)
(* when it is cut short by the result limit, the time limit or the depth.  *)
(*                                                                         *)
(* The recursion is an explicit stack with one frame for each call of      *)
(* get_analyses; a frame's stage says where in the call it is.             *)
(***************************************************************************)
EXTENDS OlConvert, FlagDiacritics

CONSTANTS
    FlagOperation,          \* flag diacritic name -> its operation
    Features,               \* the features of these operations
    UnknownName, IdentityName, DefaultName,
    MAX_RECURSION_DEPTH,
    Limits,                 \* values of the limit argument, -1 for none
    MaxInput,               \* bound on the length of an input tape
    MaxCalls                \* bound on the lookups with one Transducer object

ASSUME LookupAssumption ==
    /\ MAX_RECURSION_DEPTH \in Nat
    /\ Limits \subseteq Int
    /\ MaxInput \in Nat

\* The wildcards are neither epsilon nor flag diacritics, and a symbol number
\* is left for a character that is not in the alphabet.
ASSUME AlphabetAssumption ==
    /\ {UnknownName, IdentityName, DefaultName} \cap (FlagNames \cup {Epsilon}) = {}
    /\ Len(SymbolOrder) + 1 < NO_SYMBOL_NUMBER

VARIABLES
    calls,                  \* lookups so far
    input_tape,
    max_lookups,
    timed,                  \* max_time > 0
    overspent,              \* the lookup was cut short: the clock has passed max_time
    stack,                  \* calls of get_analyses in progress, innermost last
    flag_state,
    current_weight,
    traversal_states,
    found_transition,
    recursion_depth_left,
    output_tape,
    lookup_paths

callVars == << calls, input_tape, max_lookups, timed >>
pathVars == << flag_state, current_weight, traversal_states, output_tape >>
lookupVars == << callVars, overspent, stack, pathVars, found_transition,
                 recursion_depth_left, lookup_paths >>
lookupAll == << vars, lookupVars >>

NoFlags == [f \in Features |-> 0]

LookupInit ==
    /\ Init
    /\ calls = 0
    /\ input_tape = << >>
    /\ max_lookups = -1
    /\ timed = FALSE
    /\ overspent = FALSE
    /\ stack = << >>
    /\ flag_state = NoFlags
    /\ current_weight = 0
    /\ traversal_states = {}
    /\ found_transition = FALSE
    /\ recursion_depth_left = MAX_RECURSION_DEPTH
    /\ output_tape = << >>
    /\ lookup_paths = {}

-----------------------------------------------------------------------------
(* The alphabet.                                                            *)

SpecialSymbol(name) ==
    IF \E i \in 1 .. Len(symbol_table) : symbol_table[i] = name
      THEN SymbolNumberOf(symbol_table, name)
      ELSE NO_SYMBOL_NUMBER

orig_symbol_count == Len(symbol_table)
FlagSymbols == NumbersOf(symbol_table, FlagNames)
OperationOf(x) == FlagOperation[symbol_table[x + 1]]
Wildcards == {SpecialSymbol(DefaultName), SpecialSymbol(IdentityName), SpecialSymbol(UnknownName)}
               \ {NO_SYMBOL_NUMBER}

\* The symbols find_index or find_transitions are called with for an input
\* symbol: itself, or identity and unknown when the alphabet does not have it.
SymbolsFor(x) ==
    LET present(y) == IF y = NO_SYMBOL_NUMBER THEN << >> ELSE << y >>
    IN  IF x < orig_symbol_count THEN << x >>
        ELSE present(SpecialSymbol(IdentityName)) \o present(SpecialSymbol(UnknownName))

\* What initialize_input makes of a string: the numbers of the input symbols
\* that the encoder finds, and the number after all symbols for a character
\* that begins none.  No string spells the name of a wildcard.
InputTapes ==
    LET special == {UnknownName, IdentityName, DefaultName}
        known == {x \in 1 .. seen_input_symbols - 1 : symbol_table[x + 1] \notin special}
    IN  UNION {[1 .. n -> known \cup {orig_symbol_count}] : n \in 0 .. MaxInput}

-----------------------------------------------------------------------------
(* Frames.                                                                  *)

Frame(at, pos, out) ==
    [at |-> at, pos |-> pos, out |-> out, stage |-> "enter", cursor |-> 0,
     symbols |-> << >>, defaulted |-> FALSE, flags |-> NoFlags]

Top == Last(stack)
Entry == At(wtransition_table, Top.cursor)
AtEnd(f) == f.pos = Len(input_tape)
SetTop(f) == stack' = Append(Front(stack), f)
Pop == stack' = Front(stack)

\* Tape.write
Write(tape, i, x) ==
    [k \in 1 .. Max({Len(tape), i + 1}) |->
      IF k = i + 1 THEN x ELSE IF k <= Len(tape) THEN tape[k] ELSE NO_SYMBOL_NUMBER]

\* A transition is taken: its output is written, its weight added, and
\* get_analyses is called for its target.
Call(caller, output, pos) ==
    /\ output_tape' = Write(output_tape, caller.out, output)
    /\ current_weight' = current_weight + Entry.weight
    /\ stack' = Append(Append(Front(stack), caller), Frame(Entry.target, pos, caller.out + 1))

Running == pc = "done" /\ stack # << >>

-----------------------------------------------------------------------------
(* lookup_fd                                                                *)

\* Mistaken variant: the visited states of an earlier call are kept.
LookupFdKeepingTally ==
    /\ pc = "done"
    /\ stack = << >>
    /\ calls < MaxCalls
    /\ calls' = calls + 1
    /\ input_tape' \in InputTapes
    /\ max_lookups' \in Limits
    /\ timed' \in BOOLEAN
    /\ overspent' = FALSE
    /\ lookup_paths' = {}
    /\ stack' = << Frame(0, 0, 0) >>
    /\ UNCHANGED << vars, pathVars, found_transition, recursion_depth_left >>

LookupFd ==
    /\ pc = "done"
    /\ stack = << >>
    /\ calls < MaxCalls
    /\ calls' = calls + 1
    /\ input_tape' \in InputTapes
    /\ max_lookups' \in Limits
    /\ timed' \in BOOLEAN
    /\ overspent' = FALSE
    /\ traversal_states' = {}
    /\ lookup_paths' = {}
    /\ stack' = << Frame(0, 0, 0) >>
    /\ UNCHANGED << vars, flag_state, current_weight, output_tape, found_transition,
                    recursion_depth_left >>

\* initialize_input fails on a byte that starts no UTF-8 character: no results.
RejectInput ==
    /\ pc = "done"
    /\ stack = << >>
    /\ calls < MaxCalls
    /\ calls' = calls + 1
    /\ input_tape' = << >>
    /\ max_lookups' \in Limits
    /\ timed' = FALSE
    /\ overspent' = TRUE
    /\ lookup_paths' = {}
    /\ UNCHANGED << vars, stack, pathVars, found_transition, recursion_depth_left >>

\* The clock passes max_time while the lookup is running.
TimePasses ==
    /\ Running
    /\ timed
    /\ ~ overspent
    /\ overspent' = TRUE
    /\ UNCHANGED << vars, callVars, stack, pathVars, found_transition,
                    recursion_depth_left, lookup_paths >>

-----------------------------------------------------------------------------
(* get_analyses                                                             *)

\* Mistaken variant: one result too many.
EnoughTooLate == max_lookups >= 0 /\ Cardinality(lookup_paths) > max_lookups

Enough == max_lookups >= 0 /\ Cardinality(lookup_paths) >= max_lookups

\* One of the early returns at the beginning.
BackOut ==
    /\ Running
    /\ Top.stage = "enter"
    /\ recursion_depth_left = 0 \/ Enough \/ overspent
    /\ found_transition' = FALSE
    /\ Pop
    /\ UNCHANGED << vars, callVars, overspent, pathVars, recursion_depth_left, lookup_paths >>

\* note_analysis: the output tape up to the first NO_SYMBOL_NUMBER.
Analysis(tape, weight) ==
    << SubSeq(tape, 1, Min({k \in 1 .. Len(tape) : tape[k] = NO_SYMBOL_NUMBER}) - 1), weight >>

FinalWeight(a) ==
    IF IndexesTransitionTable(a) THEN At(wtransition_table, a).weight ELSE At(windex_table, a).target

\* Collects the result at the end of the input, then turns to the epsilons.
EnterState ==
    LET f == Top
        tape == Write(output_tape, f.out, NO_SYMBOL_NUMBER)
        start == FindIndex(windex_table, f.at, 0)
    IN  /\ Running
        /\ f.stage = "enter"
        /\ recursion_depth_left > 0
        /\ ~ Enough
        /\ ~ overspent
        /\ recursion_depth_left' = recursion_depth_left - 1
        /\ output_tape' = IF AtEnd(f) THEN tape ELSE output_tape
        /\ lookup_paths' =
             IF AtEnd(f) /\ IsFinalAddress(windex_table, wtransition_table, f.at)
               THEN lookup_paths \cup {Analysis(tape, current_weight + FinalWeight(f.at))}
               ELSE lookup_paths
        /\ found_transition' = FALSE
        /\ IF start = {}
             THEN SetTop([f EXCEPT !.stage = "input"])
             ELSE SetTop([f EXCEPT !.stage = "epsilons", !.cursor = CHOOSE c \in start : TRUE])
        /\ UNCHANGED << vars, callVars, overspent, flag_state, current_weight, traversal_states >>

-----------------------------------------------------------------------------
(* try_epsilon_transitions and try_epsilon_indices                          *)

TryEpsilon ==
    /\ Running
    /\ Top.stage = "epsilons"
    /\ Entry.input = 0
    /\ Call([Top EXCEPT !.stage = "after epsilon"], Entry.output, Top.pos)
    /\ UNCHANGED << vars, callVars, overspent, flag_state, traversal_states,
                    found_transition, recursion_depth_left, lookup_paths >>

\* Mistaken variant: the weight is not taken back.
AfterEpsilonKeepingWeight ==
    /\ Running
    /\ Top.stage = "after epsilon"
    /\ found_transition' = TRUE
    /\ SetTop([Top EXCEPT !.stage = "epsilons", !.cursor = @ + 1])
    /\ UNCHANGED << vars, callVars, overspent, pathVars, recursion_depth_left, lookup_paths >>

AfterEpsilon ==
    /\ Running
    /\ Top.stage = "after epsilon"
    /\ found_transition' = TRUE
    /\ current_weight' = current_weight - Entry.weight
    /\ SetTop([Top EXCEPT !.stage = "epsilons", !.cursor = @ + 1])
    /\ UNCHANGED << vars, callVars, overspent, flag_state, traversal_states, output_tape,
                    recursion_depth_left, lookup_paths >>

\* What is remembered of a flag transition: its target and the flags before it.
FlagReachable(f) == << At(wtransition_table, f.cursor).target, f.flags >>

AtFlag == Running /\ Top.stage = "epsilons" /\ Entry.input \in FlagSymbols

\* Mistaken variant: the result of apply_operation is ignored.
TryFlagUnchecked ==
    LET f == [Top EXCEPT !.stage = "after flag", !.flags = flag_state]
    IN  /\ AtFlag
        /\ FlagReachable(f) \notin traversal_states
        /\ flag_state' = Apply(flag_state, OperationOf(Entry.input))
        /\ traversal_states' = traversal_states \cup {FlagReachable(f)}
        /\ Call(f, Entry.output, f.pos)
        /\ UNCHANGED << vars, callVars, overspent, found_transition,
                        recursion_depth_left, lookup_paths >>

TryFlag ==
    LET f == [Top EXCEPT !.stage = "after flag", !.flags = flag_state]
    IN  /\ AtFlag
        /\ Allowed(flag_state, OperationOf(Entry.input))
        /\ FlagReachable(f) \notin traversal_states
        /\ flag_state' = Apply(flag_state, OperationOf(Entry.input))
        /\ traversal_states' = traversal_states \cup {FlagReachable(f)}
        /\ Call(f, Entry.output, f.pos)
        /\ UNCHANGED << vars, callVars, overspent, found_transition,
                        recursion_depth_left, lookup_paths >>

\* Mistaken variant: the skipped transition is looked at again.
SkipFlagStuck ==
    /\ AtFlag
    /\ \/ ~ Allowed(flag_state, OperationOf(Entry.input))
       \/ FlagReachable([Top EXCEPT !.flags = flag_state]) \in traversal_states
    /\ UNCHANGED lookupAll

\* The flag is not allowed, or "We've been here before at this input".
SkipFlag ==
    /\ AtFlag
    /\ \/ ~ Allowed(flag_state, OperationOf(Entry.input))
       \/ FlagReachable([Top EXCEPT !.flags = flag_state]) \in traversal_states
    /\ SetTop([Top EXCEPT !.cursor = @ + 1])
    /\ UNCHANGED << vars, callVars, overspent, pathVars, found_transition,
                    recursion_depth_left, lookup_paths >>

\* Mistaken variant: the flags are not put back.
AfterFlagKeepingFlags ==
    /\ Running
    /\ Top.stage = "after flag"
    /\ found_transition' = TRUE
    /\ current_weight' = current_weight - Entry.weight
    /\ traversal_states' = traversal_states \ {FlagReachable(Top)}
    /\ SetTop([Top EXCEPT !.stage = "epsilons", !.cursor = @ + 1])
    /\ UNCHANGED << vars, callVars, overspent, flag_state, output_tape,
                    recursion_depth_left, lookup_paths >>

AfterFlag ==
    /\ Running
    /\ Top.stage = "after flag"
    /\ found_transition' = TRUE
    /\ current_weight' = current_weight - Entry.weight
    /\ traversal_states' = traversal_states \ {FlagReachable(Top)}
    /\ flag_state' = Top.flags
    /\ SetTop([Top EXCEPT !.stage = "epsilons", !.cursor = @ + 1])
    /\ UNCHANGED << vars, callVars, overspent, output_tape, recursion_depth_left, lookup_paths >>

EpsilonsDone ==
    /\ Running
    /\ Top.stage = "epsilons"
    /\ Entry.input # 0
    /\ Entry.input \notin FlagSymbols
    /\ found_transition' = (found_transition \/ ~ IndexesTransitionTable(Top.at))
    /\ SetTop([Top EXCEPT !.stage = "input"])
    /\ UNCHANGED << vars, callVars, overspent, pathVars, recursion_depth_left, lookup_paths >>

-----------------------------------------------------------------------------
(* The rest of get_analyses, with find_index and find_transitions           *)

NoMoreInput ==
    /\ Running
    /\ Top.stage = "input"
    /\ AtEnd(Top)
    /\ recursion_depth_left' = recursion_depth_left + 1
    /\ Pop
    /\ UNCHANGED << vars, callVars, overspent, pathVars, found_transition, lookup_paths >>

ReadInput ==
    /\ Running
    /\ Top.stage = "input"
    /\ ~ AtEnd(Top)
    /\ SetTop([Top EXCEPT !.stage = "find", !.pos = @ + 1,
                          !.symbols = SymbolsFor(input_tape[Top.pos + 1])])
    /\ UNCHANGED << vars, callVars, overspent, pathVars, found_transition,
                    recursion_depth_left, lookup_paths >>

\* find_index for the next symbol.  The entry of a symbol that is never an
\* input (unknown may be one) can lie outside the table: anything may happen.
FindSymbol ==
    LET x == Head(Top.symbols)
        outside == ~ IndexesTransitionTable(Top.at) /\ Top.at + 1 + x >= Len(windex_table)
        start == IF outside THEN {} ELSE FindIndex(windex_table, Top.at, x)
    IN  /\ Running
        /\ Top.stage = "find"
        /\ Top.symbols # << >>
        /\ IF start = {}
             THEN SetTop([Top EXCEPT !.symbols = Tail(@)])
             ELSE SetTop([Top EXCEPT !.stage = "transitions", !.cursor = CHOOSE c \in start : TRUE])
        /\ pc' \in {"done"} \cup (IF outside THEN {"undefined"} ELSE {})
        /\ UNCHANGED << inputVars, symbolVars, packVars, tableVars, callVars, overspent,
                        pathVars, found_transition, recursion_depth_left, lookup_paths >>

\* The default symbol is tried when nothing was found.
TryDefault ==
    /\ Running
    /\ Top.stage = "find"
    /\ Top.symbols = << >>
    /\ ~ Top.defaulted
    /\ SpecialSymbol(DefaultName) # NO_SYMBOL_NUMBER
    /\ ~ found_transition
    /\ SetTop([Top EXCEPT !.symbols = << SpecialSymbol(DefaultName) >>, !.defaulted = TRUE])
    /\ UNCHANGED << vars, callVars, overspent, pathVars, found_transition,
                    recursion_depth_left, lookup_paths >>

LeaveState ==
    /\ Running
    /\ Top.stage = "find"
    /\ Top.symbols = << >>
    /\ Top.defaulted \/ SpecialSymbol(DefaultName) = NO_SYMBOL_NUMBER \/ found_transition
    /\ output_tape' = Write(output_tape, Top.out, NO_SYMBOL_NUMBER)
    /\ recursion_depth_left' = recursion_depth_left + 1
    /\ Pop
    /\ UNCHANGED << vars, callVars, overspent, flag_state, current_weight, traversal_states,
                    found_transition, lookup_paths >>

\* Wildcards on the output side are replaced by the input symbol.
OutputFor(output, pos) == IF output \in Wildcards THEN input_tape[pos] ELSE output

TakeTransition ==
    /\ Running
    /\ Top.stage = "transitions"
    /\ Entry.input = Head(Top.symbols)
    /\ traversal_states' = {}
    /\ Call([Top EXCEPT !.stage = "after transition"], OutputFor(Entry.output, Top.pos), Top.pos)
    /\ UNCHANGED << vars, callVars, overspent, flag_state, found_transition,
                    recursion_depth_left, lookup_paths >>

\* Mistaken variant: the other transitions with the symbol are not tried.
AfterTransitionFirstOnly ==
    /\ Running
    /\ Top.stage = "after transition"
    /\ current_weight' = current_weight - Entry.weight
    /\ found_transition' = TRUE
    /\ SetTop([Top EXCEPT !.stage = "find", !.symbols = Tail(@)])
    /\ UNCHANGED << vars, callVars, overspent, flag_state, traversal_states, output_tape,
                    recursion_depth_left, lookup_paths >>

AfterTransition ==
    /\ Running
    /\ Top.stage = "after transition"
    /\ current_weight' = current_weight - Entry.weight
    /\ found_transition' = TRUE
    /\ SetTop([Top EXCEPT !.stage = "transitions", !.cursor = @ + 1])
    /\ UNCHANGED << vars, callVars, overspent, flag_state, traversal_states, output_tape,
                    recursion_depth_left, lookup_paths >>

TransitionsDone ==
    /\ Running
    /\ Top.stage = "transitions"
    /\ Entry.input # Head(Top.symbols)
    /\ found_transition' = (found_transition \/ ~ IndexesTransitionTable(Top.at))
    /\ SetTop([Top EXCEPT !.stage = "find", !.symbols = Tail(@)])
    /\ UNCHANGED << vars, callVars, overspent, pathVars, recursion_depth_left, lookup_paths >>

-----------------------------------------------------------------------------
GetAnalyses ==
    \/ BackOut \/ EnterState
    \/ TryEpsilon \/ AfterEpsilon \/ TryFlag \/ SkipFlag \/ AfterFlag \/ EpsilonsDone
    \/ NoMoreInput \/ ReadInput \/ FindSymbol \/ TryDefault \/ LeaveState
    \/ TakeTransition \/ AfterTransition \/ TransitionsDone

Build ==
    /\ \/ GetStatesAndSymbols \/ SkipSimpleState \/ PackState
       \/ PackingDone \/ WriteIndexTable \/ WriteTransitionTable
    /\ UNCHANGED lookupVars

LookupEnded ==
    /\ pc = "undefined" \/ (pc = "done" /\ stack = << >> /\ calls = MaxCalls)
    /\ UNCHANGED lookupAll

LookupNext == Build \/ LookupFd \/ RejectInput \/ TimePasses \/ GetAnalyses \/ LookupEnded

\* The lookup is one thread that runs until it returns.  Nothing is assumed of
\* the clock, nor that another lookup is started.
LookupSpec ==
    /\ LookupInit
    /\ [][LookupNext]_lookupAll
    /\ WF_lookupAll(Build)
    /\ WF_lookupAll(GetAnalyses)

-----------------------------------------------------------------------------
(* What a lookup should find: the paths of the transducer, not of its tables. *)

\* A path so far: the state it is in, the input read, the flag values, its
\* output and weight, and the << state, flags >> pairs since the last input.
Path(s, pos, flags, out, weight, seen) ==
    [s |-> s, pos |-> pos, flags |-> flags, out |-> out, weight |-> weight, seen |-> seen]

MatchesInput(s, arc, x) ==
    \/ arc.input \in ToSet(SymbolsFor(x))
    \/ /\ arc.input = SpecialSymbol(DefaultName)
       /\ Inputs(placeholders[s]) \cap ToSet(SymbolsFor(x)) = {}

\* The paths one transition longer than p.
Extend(p, arc) ==
    IF arc.input = 0 \/ arc.input \in FlagSymbols
      THEN LET op == OperationOf(arc.input)
               flags == IF arc.input = 0 THEN p.flags ELSE Apply(p.flags, op)
           IN  {Path(arc.target, p.pos, flags, Append(p.out, arc.output), p.weight + arc.weight,
                     p.seen \cup {<< p.s, p.flags >>}) :
                  a \in {x \in {arc} : x.input = 0 \/ Allowed(p.flags, op)}}
      ELSE {Path(arc.target, p.pos + 1, p.flags,
                 Append(p.out, OutputFor(arc.output, p.pos + 1)), p.weight + arc.weight, {}) :
              a \in {x \in {arc} : p.pos < Len(input_tape)
                                  /\ MatchesInput(p.s, x, input_tape[p.pos + 1])}}

\* The paths with at most n transitions; Keep selects the ones to go on with.
PathsUpTo(n, Keep(_)) ==
    LET next(p) == UNION {Extend(p, placeholders[p.s][k]) : k \in DOMAIN placeholders[p.s]}
        paths[i \in 0 .. n] ==
          IF i = 0 THEN {Path(0, 0, NoFlags, << >>, 0, {})}
          ELSE paths[i - 1] \cup {q \in UNION {next(p) : p \in paths[i - 1]} : Keep(q)}
    IN  paths[n]

AnalysesOf(paths) ==
    UNION {{<< p.out, p.weight + w >> : w \in graph.final[p.s]} :
             p \in {q \in paths : q.pos = Len(input_tape)}}

AllAnalyses == AnalysesOf(PathsUpTo(MAX_RECURSION_DEPTH - 1, LAMBDA p : TRUE))

\* The analyses by paths that never come back to a state with the same flag
\* values without reading input.
LoopFreeAnalyses ==
    AnalysesOf(PathsUpTo(MAX_RECURSION_DEPTH - 1, LAMBDA p : << p.s, p.flags >> \notin p.seen))

-----------------------------------------------------------------------------
(* Properties.                                                              *)

Idle == pc = "done" /\ stack = << >>
Finished == Idle /\ calls > 0

\* Every result is the output and the weight of a path of the transducer that
\* reads the whole input and whose flag diacritics agree - also when earlier
\* lookups with the same object were cut short, and although the output tape,
\* the weight and the flags are shared by all branches of the search.
ResultsSound == Finished => lookup_paths \subseteq AllAnalyses

\* A lookup that is not stopped by its limits finds every analysis that is
\* reached without a loop and within the recursion depth.
ResultsComplete ==
    Finished /\ ~ overspent /\ ~ Enough => LoopFreeAnalyses \subseteq lookup_paths

\* No more results than asked for, whichever branches they come from.
LimitHonoured == max_lookups >= 0 => Cardinality(lookup_paths) <= max_lookups

\* Between lookups the shared members are as in a new object: nothing of the
\* path, the flags or the depth of an earlier lookup is left, however it ended.
LeavesNoTrace ==
    Idle => /\ flag_state = NoFlags
            /\ current_weight = 0
            /\ recursion_depth_left = MAX_RECURSION_DEPTH

\* Stages of a frame whose call of get_analyses for a transition is in progress,
\* and the weight of these transitions.
Calling == {"after epsilon", "after flag", "after transition"}

StackWeight ==
    LET sum[k \in 0 .. Len(stack)] ==
          IF k = 0 THEN 0
          ELSE sum[k - 1] + (IF stack[k].stage \in Calling
                               THEN At(wtransition_table, stack[k].cursor).weight ELSE 0)
    IN  sum[Len(stack)]

\* While a lookup runs, the members belong to the path on the stack: the
\* remaining depth counts the calls in progress and the weight is the sum of
\* the transitions being followed.
SharedStateMatchesStack ==
    /\ recursion_depth_left + Cardinality({k \in DOMAIN stack : stack[k].stage # "enter"})
         = MAX_RECURSION_DEPTH
    /\ current_weight = StackWeight
    /\ \A k \in 1 .. Len(stack) - 1 : stack[k].stage \in Calling

\* Every lookup returns: loops of epsilons and flags are cut by the depth.
LookupReturns == stack # << >> ~> (stack = << >> \/ pc = "undefined")

=============================================================================

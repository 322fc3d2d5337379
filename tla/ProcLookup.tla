----------------------------- MODULE ProcLookup -----------------------------
(***************************************************************************)
(* LookupState of hfst-proc: all paths of a transducer that read the       *)
(* symbols given so far, extended breadth first in the tables OlConvert    *)
(* wrote, and the choice of the analyses that are printed.  ProcAnalysis   *)
(* uses it as a set of accepted sequences; here it is the search itself.   *)
(***************************************************************************)
EXTENDS OlConvert, FlagDiacritics

CONSTANTS
    FlagOperation,          \* flag diacritic name -> its operation
    Features,               \* the features of these operations
    BlankName,              \* " "
    UpperName,              \* lower case name -> upper case name
    BoundaryNames,          \* names that are compound boundaries
    Settings,               \* options: [fold, compounds, analyses, classes]
    MaxSteps                \* bound on the symbols of one lookup

\* The alphabet holds empty names for epsilon and for the flag diacritics, which
\* have no case.
ASSUME LettersAssumption ==
    \A n \in DOMAIN UpperName : {n, UpperName[n]} \cap (FlagNames \cup {Epsilon}) = {}

VARIABLES
    options,                \* the member of Settings hfst-proc was started with
    stage,                  \* "idle", "epsilons", "ready" or "undefined"
    paths,
    i,                      \* the path try_epsilons is at
    consumed,               \* history: the symbols since the last reset
    printed                 \* {} or {analyses}: what preprocess_finals left of the finals

searchVars == << stage, paths, i, consumed, printed >>
procLookupVars == << vars, options, searchVars >>

ProcLookupInit ==
    /\ Init
    /\ options \in Settings
    /\ stage = "idle"
    /\ paths = << >>
    /\ i = 1
    /\ consumed = << >>
    /\ printed = {}

-----------------------------------------------------------------------------
(* ProcTransducerAlphabet: the symbols of the file, a blank, and the upper *)
(* case of every lower case symbol that has none.                          *)

WithBlank ==
    symbol_table \o (IF Contains(symbol_table, BlankName) THEN << >> ELSE << BlankName >>)

NeedsUpper(n) == n \in DOMAIN UpperName /\ ~ Contains(WithBlank, UpperName[n])

Alphabet ==
    LET lower == Choose(WithBlank, {k \in DOMAIN WithBlank : NeedsUpper(WithBlank[k])})
    IN  WithBlank \o [k \in DOMAIN lower |-> UpperName[lower[k]]]

FlagSymbols == NumbersOf(symbol_table, FlagNames)
OperationOf(x) == FlagOperation[symbol_table[x + 1]]
Silent(x) == x = 0 \/ x \in FlagSymbols

IsUpper(x) == \E n \in DOMAIN UpperName : UpperName[n] = Alphabet[x + 1]

\* The symbol itself when its lower case is not in the alphabet.
ToLower(x) ==
    LET lower == {n \in DOMAIN UpperName : UpperName[n] = Alphabet[x + 1] /\ Contains(Alphabet, n)}
    IN  IF lower = {} THEN x ELSE SymbolNumberOf(Alphabet, CHOOSE n \in lower : TRUE)

AltInput(x) == IF options.fold /\ IsUpper(x) THEN ToLower(x) ELSE NO_SYMBOL_NUMBER

-----------------------------------------------------------------------------
(* LookupPath: follow.  The final weight counts once the path is at a      *)
(* final state it was led to; the first path is not.                       *)

InitialPath == [index |-> 0, out |-> << >>, weight |-> 0, final_weight |-> 0,
                flags |-> [f \in Features |-> 0]]

FinalAt(a) == IsFinalAddress(windex_table, wtransition_table, a)

FinalWeightOf(a) ==
    IF ~ FinalAt(a) THEN 0
    ELSE IF IndexesTransitionTable(a) THEN At(wtransition_table, a).weight
                                      ELSE At(windex_table, a).target

FollowIndex(p, e) == [p EXCEPT !.index = e.target, !.final_weight = FinalWeightOf(e.target)]

\* As a sequence: empty when the flag diacritic does not allow the transition.
FollowTransition(p, t) ==
    IF t.input \in FlagSymbols /\ ~ Allowed(p.flags, OperationOf(t.input)) THEN << >>
    ELSE << [index |-> t.target,
             out |-> IF Silent(t.output) THEN p.out ELSE Append(p.out, t.output),
             weight |-> p.weight + t.weight,
             final_weight |-> FinalWeightOf(t.target),
             flags |-> IF t.input \in FlagSymbols THEN Apply(p.flags, OperationOf(t.input))
                                                  ELSE p.flags] >>

FollowAll(p, run) == FlattenSeq([k \in DOMAIN run |-> FollowTransition(p, run[k])])

\* A path is at the entry before the transitions of a state, or at a transition.
FirstEntry(p) ==
    IF At(wtransition_table, p.index).input = NO_SYMBOL_NUMBER THEN p.index + 1 ELSE p.index

-----------------------------------------------------------------------------
(* LookupState.                                                            *)

\* Mistaken variant: flag diacritics end the epsilons.
EpsilonPathsWithoutFlags(p) ==
    IF IndexesTransitionTable(p.index)
      THEN FollowAll(p, Run(wtransition_table, FirstEntry(p), {0}))
      ELSE IF Matches(At(windex_table, p.index + 1), 0)
             THEN << FollowIndex(p, At(windex_table, p.index + 1)) >> ELSE << >>

\* try_epsilon_index and try_epsilon_transitions
EpsilonPaths(p) ==
    IF IndexesTransitionTable(p.index)
      THEN FollowAll(p, Run(wtransition_table, FirstEntry(p), {0} \cup FlagSymbols))
      ELSE IF Matches(At(windex_table, p.index + 1), 0)
             THEN << FollowIndex(p, At(windex_table, p.index + 1)) >> ELSE << >>

TryTransitions(p, x) == FollowAll(p, Run(wtransition_table, FirstEntry(p), {x}))

TryIndex(p, x) ==
    LET e == At(windex_table, p.index + x + 1)
    IN  IF Matches(e, x) THEN TryTransitions(FollowIndex(p, e), x) ELSE << >>

\* The index entry that try_index reads is behind the table.
OutsideTable(p, x) ==
    ~ IndexesTransitionTable(p.index) /\ p.index + x + 1 >= Len(windex_table)

TryInput(p, x) == IF IndexesTransitionTable(p.index) THEN TryTransitions(p, x) ELSE TryIndex(p, x)

Tried(x) == IF AltInput(x) = NO_SYMBOL_NUMBER THEN << x >> ELSE << x, AltInput(x) >>

ApplyInput(x) ==
    IF x = 0 THEN << >>
    ELSE FlattenSeq([k \in DOMAIN paths |->
           FlattenSeq([j \in DOMAIN Tried(x) |-> TryInput(paths[k], Tried(x)[j])])])

Reset ==
    /\ pc = "done"
    /\ stage \in {"idle", "ready"}
    /\ paths' = << InitialPath >>
    /\ i' = 1
    /\ stage' = "epsilons"
    /\ consumed' = << >>
    /\ printed' = {}
    /\ UNCHANGED << vars, options >>

Ready == stage = "ready" /\ Len(consumed) < MaxSteps /\ paths # << >>

\* A token that is no symbol of the alphabet.
StepNoSymbol ==
    /\ Ready
    /\ paths' = << >>
    /\ consumed' = Append(consumed, NO_SYMBOL_NUMBER)
    /\ printed' = {}
    /\ UNCHANGED << vars, options, stage, i >>

Step(x) ==
    /\ Ready
    /\ consumed' = Append(consumed, x)
    /\ printed' = {}
    /\ IF x # 0 /\ \E k \in DOMAIN paths, j \in DOMAIN Tried(x) : OutsideTable(paths[k], Tried(x)[j])
         THEN /\ stage' = "undefined"
              /\ UNCHANGED << paths, i >>
         ELSE /\ paths' = ApplyInput(x)
              /\ i' = 1
              /\ stage' = "epsilons"
    /\ UNCHANGED << vars, options >>

\* Mistaken variant: goes on with the same path.
TryEpsilonsStuck ==
    /\ stage = "epsilons"
    /\ i <= Len(paths)
    /\ i' = IF EpsilonPaths(paths[i]) = << >> THEN i + 1 ELSE i
    /\ UNCHANGED << vars, options, stage, paths, consumed, printed >>

\* One turn of the loop of try_epsilons, which runs over what it appends.
TryEpsilons1 ==
    /\ stage = "epsilons"
    /\ i <= Len(paths)
    /\ paths' = paths \o EpsilonPaths(paths[i])
    /\ i' = i + 1
    /\ UNCHANGED << vars, options, stage, consumed, printed >>

EpsilonsDone ==
    /\ stage = "epsilons"
    /\ i > Len(paths)
    /\ stage' = "ready"
    /\ UNCHANGED << vars, options, paths, i, consumed, printed >>

-----------------------------------------------------------------------------
(* The analyses of a word.                                                 *)

Finals == {<< paths[k].out, paths[k].weight + paths[k].final_weight >> :
             k \in {j \in DOMAIN paths : FinalAt(paths[j].index)}}

IsFinal == Finals # {}

\* get_finals_set: of the final paths with one output, the one at the lowest
\* address is kept, whichever that is.
FinalsSets ==
    LET outs == {f[1] : f \in Finals}
    IN  {{<< o, w[o] >> : o \in outs} :
           w \in {v \in [outs -> {f[2] : f \in Finals}] : \A o \in outs : << o, v[o] >> \in Finals}}

\* operator< of std::vector
LexLess(s, t) ==
    \E k \in 0 .. Len(s) :
      /\ k < Len(t)
      /\ SubSeq(s, 1, k) = SubSeq(t, 1, k)
      /\ k < Len(s) => s[k + 1] < t[k + 1]

compare_weights(f, g) == f[2] < g[2] \/ (f[2] = g[2] /\ LexLess(f[1], g[1]))

num_compound_boundaries(out) ==
    Cardinality({k \in DOMAIN out : Alphabet[out[k] + 1] \in BoundaryNames})

FilterCompounds(fs) ==
    {f \in fs : options.compounds =>
                  \A g \in fs : num_compound_boundaries(f[1]) <= num_compound_boundaries(g[1])}

WeightsBelow(fs, w) == {f[2] : f \in {g \in fs : g[2] < w}}

\* Mistaken variant: one weight class too many.
KeepWeightClassesOffByOne(fs) == {f \in fs : Cardinality(WeightsBelow(fs, f[2])) <= options.classes}

KeepWeightClasses(fs) == {f \in fs : Cardinality(WeightsBelow(fs, f[2])) < options.classes}

Clip(fs) == {f \in fs : Cardinality({g \in fs : compare_weights(g, f)}) < options.analyses}

preprocess_finals(fs) == Clip(KeepWeightClasses(FilterCompounds(fs)))

\* What apply does at every token after the first: the finals are handed to
\* the formatter, if there are any.
ProcessFinals ==
    /\ stage = "ready"
    /\ consumed # << >>
    /\ IsFinal
    /\ printed = {}
    /\ \E fs \in FinalsSets : printed' = {preprocess_finals(fs)}
    /\ UNCHANGED << vars, options, stage, paths, i, consumed >>

Build ==
    /\ \/ GetStatesAndSymbols \/ SkipSimpleState \/ PackState
       \/ PackingDone \/ WriteIndexTable \/ WriteTransitionTable
    /\ UNCHANGED << options, searchVars >>

Stopped == stage = "undefined" /\ UNCHANGED procLookupVars

ProcLookupNext ==
    \/ Build
    \/ Reset
    \/ StepNoSymbol
    \/ \E x \in (0 .. Len(Alphabet) - 1) \ FlagSymbols : Step(x)
    \/ TryEpsilons1
    \/ EpsilonsDone
    \/ ProcessFinals
    \/ Stopped

\* The search runs until it returns; nothing is assumed of the tokens.
ProcLookupSpec ==
    /\ ProcLookupInit
    /\ [][ProcLookupNext]_procLookupVars
    /\ WF_procLookupVars(TryEpsilons1 \/ EpsilonsDone)

-----------------------------------------------------------------------------
(* What the search should find, in the transducer before it was converted. *)

\* A way through the transducer: its state, how much of the input it read, and
\* what a path keeps.
FirstWay == [s |-> 0, pos |-> 0, out |-> << >>, weight |-> 0, flags |-> InitialPath.flags]

Reads(w, arc) ==
    IF Silent(arc.input)
      THEN arc.input = 0 \/ Allowed(w.flags, OperationOf(arc.input))
      ELSE w.pos < Len(consumed) /\ arc.input \in {consumed[w.pos + 1], AltInput(consumed[w.pos + 1])}

Extended(w, arc) ==
    [s |-> arc.target,
     pos |-> IF Silent(arc.input) THEN w.pos ELSE w.pos + 1,
     out |-> IF Silent(arc.output) THEN w.out ELSE Append(w.out, arc.output),
     weight |-> w.weight + arc.weight,
     flags |-> IF arc.input \in FlagSymbols THEN Apply(w.flags, OperationOf(arc.input)) ELSE w.flags]

\* All ways that read the input so far; without epsilon cycles none is longer.
Ways ==
    LET longest == (Len(consumed) + 1) * graph.size
        arcs(w) == {k \in DOMAIN placeholders[w.s] : Reads(w, placeholders[w.s][k])}
        ways[n \in 0 .. longest] ==
          IF n = 0 THEN {FirstWay}
          ELSE UNION {{Extended(w, placeholders[w.s][k]) : k \in arcs(w)} : w \in ways[n - 1]}
    IN  {w \in UNION {ways[n] : n \in 0 .. longest} : w.pos = Len(consumed)}

AnalysesOfInput ==
    UNION {{<< w.out, w.weight + f >> : f \in graph.final[w.s]} : w \in Ways}

-----------------------------------------------------------------------------
(* Properties.                                                             *)

\* When a step returns, the active paths are exactly the ways through the
\* transducer that read the symbols so far, however they pass through the two
\* tables: no way is lost because it enters a state in the middle, and none is
\* made up by an index entry, a flag diacritic or the other case of a letter.
PathsFaithful ==
    stage = "ready" /\ NO_SYMBOL_NUMBER \notin ToSet(consumed) =>
      {<< p.index, p.out, p.weight, p.flags >> :
         p \in {q \in ToSet(paths) : IndexesTransitionTable(q.index) =>
                  At(wtransition_table, q.index).input = NO_SYMBOL_NUMBER}}
        = {<< StateAddress(w.s), w.out, w.weight, w.flags >> : w \in Ways}

\* "Output no more than N analyses (if the transducer is weighted, the N best
\* analyses)", and no more than N weight classes: every output comes with its
\* lowest weight, and what is not printed is no better than what is.
AnalysesBest ==
    LET lightest == {a \in AnalysesOfInput : \A b \in AnalysesOfInput : b[1] = a[1] => a[2] <= b[2]}
        candidates == FilterCompounds(lightest)
        classes(as) == {a[2] : a \in as}
    IN  \A as \in printed :
          /\ as # {} /\ as \subseteq candidates
          /\ Cardinality(as) <= options.analyses
          /\ Cardinality(classes(as)) <= options.classes
          /\ \A c \in candidates \ as :
               /\ \A a \in as : a[2] <= c[2]
               /\ \/ Cardinality(as) = options.analyses
                  \/ Cardinality(classes(as)) = options.classes /\ c[2] \notin classes(as)

\* Following epsilons comes to an end in a transducer without epsilon cycles,
\* although the loop appends to what it runs over.
StepReturns == stage = "epsilons" ~> stage = "ready"

=============================================================================

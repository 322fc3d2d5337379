-------------------------- MODULE ComposeIntersect --------------------------
(***************************************************************************)
(* HfstTransducer::compose_intersect: a lexicon is composed with the       *)
(* intersection of two-level rules without the intersection being built.   *)
(* A ComposeIntersectLexicon explores pairs of a lexicon state and a rule  *)
(* state through an agenda.  Several rules are a chain of                  *)
(* ComposeIntersectRulePairs, each of which numbers its state pairs and    *)
(* computes its transitions only when they are asked for.                  *)
(*                                                                         *)
(* A transducer has an alphabet, sets of arcs and final weights (none or   *)
(* one).  Rules are deterministic, as compose_intersect requires.          *)
(***************************************************************************)
EXTENDS Integers, Sequences, FiniteSets, SequencesExt

CONSTANTS
    SymbolOrder,            \* sequence: HfstTropicalTransducerTransitionData's numbering
    Epsilon, Identity, Boundary, FlagNames,
    Cases,                  \* calls: [lexicon, rules, invert]
    OtherSymbols,           \* symbols that a transducer need not know
    MaxPairs                \* bound on the length of the paths compared

VARIABLES
    call,                   \* the arguments
    pc,
    lexicon, rules,         \* as they are when the composition starts
    tables,                 \* the rule pairs: level -> state pairs and computed transitions
    pair_vector,            \* state of the result -> << lexicon state, rule state >>
    agenda,
    lexicon_non_epsilon_states,
    origin,                 \* state being computed
    keys,                   \* its output symbols still to be composed
    symbol,                 \* symbol the rules are asked for
    frames,                 \* calls of get_transitions: the state asked for at each level,
                            \* the outermost level first
    answer,                 \* the transitions returned by the innermost call
    pending,                \* its transitions still to be added
    result                  \* transducer

inputs == << call, lexicon, rules >>
composeVars == << inputs, pc, tables, pair_vector, agenda, lexicon_non_epsilon_states,
                  origin, keys, symbol, frames, answer, pending, result >>
asking == << symbol, frames, answer >>

States(t) == DOMAIN t.arcs
Number(x) == CHOOSE i \in DOMAIN SymbolOrder : SymbolOrder[i] = x

-----------------------------------------------------------------------------
(* Preparation in HfstTransducer::compose_intersect.                        *)

MapArcs(t, Op(_)) == [t EXCEPT !.arcs = [s \in States(t) |-> {Op(a) : a \in t.arcs[s]}]]

Invert(t) == MapArcs(t, LAMBDA a : [a EXCEPT !.in = a.out, !.out = a.in])

\* substitute(StringPair, StringPair)
SubstitutePair(t, x, y) ==
    MapArcs(t, LAMBDA a : IF << a.in, a.out >> = x THEN [a EXCEPT !.in = y[1], !.out = y[2]] ELSE a)

\* wb.concatenate(*this).concatenate(wb_copy), whatever the lexicon contains:
\* lexicon_alphabet is worked out before and not looked at.
WithBoundaries(t) ==
    LET size == Cardinality(States(t))
        arc(target, weight) == [in |-> Epsilon, out |-> Boundary, target |-> target, weight |-> weight]
    IN  [alphabet |-> t.alphabet \cup {Boundary},
         arcs |-> [s \in 0 .. size + 1 |->
                    IF s = 0 THEN {arc(1, 0)}
                    ELSE IF s = size + 1 THEN {}
                    ELSE {[a EXCEPT !.target = @ + 1] : a \in t.arcs[s - 1]}
                           \cup {arc(size + 1, w) : w \in t.final[s - 1]}],
         final |-> [s \in 0 .. size + 1 |-> IF s = size + 1 THEN {0} ELSE {}]]

\* rule_1.harmonize_(*this): what identity means beside the rule's symbols.
Harmonize(t, alphabet) ==
    LET copies(a) == IF a.in = Identity
                       THEN {a} \cup {[a EXCEPT !.in = x, !.out = x] : x \in alphabet \ t.alphabet}
                       ELSE {a}
    IN  [t EXCEPT !.alphabet = @ \cup alphabet,
                  !.arcs = [s \in States(t) |-> UNION {copies(a) : a \in t.arcs[s]}]]

\* Identity is a symbol like any other while the lexicon is composed.
HiddenIdentity == "||_IDENTITY_SYMBOL_||"
HideIdentity(t) == MapArcs(t, LAMBDA a : IF a.in = Identity
                                           THEN [a EXCEPT !.in = HiddenIdentity, !.out = HiddenIdentity]
                                           ELSE a)
ShowIdentity(t) == MapArcs(t, LAMBDA a : IF a.in = HiddenIdentity
                                           THEN [a EXCEPT !.in = Identity, !.out = Identity]
                                           ELSE a)

PreparedLexicon(c) ==
    LET first == c.rules[1].alphabet
        bounded == IF Boundary \in first THEN WithBoundaries(c.lexicon) ELSE c.lexicon
        harmonized == Harmonize(bounded, first)
    IN  HideIdentity(IF c.invert
                       THEN SubstitutePair(Invert(harmonized), << Boundary, Epsilon >>,
                                                               << Epsilon, Boundary >>)
                       ELSE harmonized)

PreparedRule(r, invert) ==
    IF invert THEN SubstitutePair(Invert(r), << Epsilon, Boundary >>, << Boundary, Epsilon >>) ELSE r

PreparedRules(c) == [k \in DOMAIN c.rules |-> PreparedRule(c.rules[k], c.invert)]

-----------------------------------------------------------------------------
(* ComposeIntersectFst: the transitions of a state with a symbol.           *)

\* CompareTransitions
Before(a, b) ==
    \/ Number(a.in) < Number(b.in)
    \/ a.in = b.in /\ Number(a.out) < Number(b.out)
    \/ a.in = b.in /\ a.out = b.out /\ a.weight < b.weight
    \/ a.in = b.in /\ a.out = b.out /\ a.weight = b.weight /\ a.target < b.target

\* The elements of a finite set S in the strict order R, a set of pairs: the
\* k-th one has k - 1 elements of S before it.
Ordered(S, R) ==
    [k \in 1 .. Cardinality(S) |->
      CHOOSE x \in S : Cardinality({y \in S : << y, x >> \in R}) = k - 1]

InOrder(T) == Ordered(T, {p \in T \X T : Before(p[1], p[2])})

\* Pairs of transitions, as two nested loops meet them.
PairsInOrder(P) ==
    Ordered(P, {d \in P \X P :
                 \/ Before(d[1][1], d[2][1])
                 \/ d[1][1] = d[2][1] /\ Before(d[1][2], d[2][2])})

IdentityArcs(t, s) == {a \in t.arcs[s] : a.in = Identity}

\* A rule's get_transitions.
RuleTransitions(r, s, x) ==
    LET listed == {a \in r.arcs[s] : a.in = x /\ x # Identity}
    IN  IF listed # {} THEN listed
        ELSE IF x \in r.alphabet THEN {}
        ELSE {[a EXCEPT !.in = x, !.out = x] : a \in IdentityArcs(r, s)}

-----------------------------------------------------------------------------
(* The arguments: symbols that have numbers, states that are numbered from 0 *)
(* on, identity on both sides of an arc, and, as compose_intersect requires, *)
(* rules in which the next state is given by the symbol pair.  There is a    *)
(* rule: for an empty list the code first makes the result empty, as its     *)
(* comment says, and then goes on to read the first rule, which is undefined. *)

Symbols == ToSet(SymbolOrder)

IsTransducer(t) ==
    /\ t = [alphabet |-> t.alphabet, arcs |-> t.arcs, final |-> t.final]
    /\ States(t) # {} /\ IsFiniteSet(States(t))
    /\ States(t) = 0 .. Cardinality(States(t)) - 1
    /\ t.alphabet \subseteq Symbols
    /\ \A s \in States(t) :
         /\ IsFiniteSet(t.arcs[s]) /\ IsFiniteSet(t.final[s]) /\ t.final[s] \subseteq Int
         /\ \A a \in t.arcs[s] :
              /\ a \in [in : Symbols, out : Symbols, target : States(t), weight : Int]
              /\ a.in = Identity <=> a.out = Identity

Deterministic(t) ==
    \A s \in States(t) : \A a, b \in t.arcs[s] : a.in = b.in /\ a.out = b.out => a = b

ASSUME ComposeAssumption ==
    /\ SymbolOrder \in Seq(Symbols)
    /\ \A i, j \in DOMAIN SymbolOrder : SymbolOrder[i] = SymbolOrder[j] => i = j
    /\ {Epsilon, Identity, Boundary, HiddenIdentity} \subseteq Symbols
    /\ Identity \notin {Epsilon, Boundary, HiddenIdentity}
    /\ \A c \in Cases :
         /\ c.rules \in Seq(ToSet(c.rules)) /\ c.rules # << >> /\ c.invert \in BOOLEAN
         /\ IsTransducer(c.lexicon)
         /\ \A k \in DOMAIN c.rules : /\ IsTransducer(c.rules[k])
                                     /\ Deterministic(PreparedRule(c.rules[k], c.invert))

-----------------------------------------------------------------------------
(* ComposeIntersectRulePair.  Level 1 is the first rule itself, level k the  *)
(* pair of rule k and level k - 1.                                          *)

NewPair == [pairs |-> << [rule |-> 0, rest |-> 0] >>, transitions |-> [k \in {} |-> {}]]

Top == Len(rules)

\* The state of every level when the outermost one is in state s.
LevelStates(tbl, s) ==
    LET state[k \in 1 .. Top] ==
          IF k = Top THEN s ELSE tbl[k + 1].pairs[state[k + 1] + 1].rest
    IN  state

\* The state of every rule.
RuleStates(tbl, s) ==
    LET state == LevelStates(tbl, s)
    IN  [k \in 1 .. Top |-> IF k = 1 THEN state[1] ELSE tbl[k].pairs[state[k] + 1].rule]

PairNumber(pairs, p) ==
    IF p \in ToSet(pairs) THEN (CHOOSE i \in DOMAIN pairs : pairs[i] = p) - 1 ELSE Len(pairs)

\* The two iterators meet at equal output symbols and then both move on.
Meet(S, T) ==
    LET rank(R, a) == Cardinality({b \in R : b.out = a.out /\ Before(b, a)})
    IN  {p \in S \X T : p[1].out = p[2].out /\ rank(S, p[1]) = rank(T, p[2])}

\* get_final_weight: the sum of the rules' weights, none if one has none.
FinalWeight(s) ==
    LET state == RuleStates(tables, s)
        sum[k \in 0 .. Top] ==
          IF k = 0 THEN {0} ELSE {v + w : v \in sum[k - 1], w \in rules[k].final[state[k]]}
    IN  sum[Top]

\* known_symbol looks into the member `symbols`, which a rule pair never fills.
KnownSymbol(x) == Top = 1 /\ x \in rules[1].alphabet

-----------------------------------------------------------------------------
(* ComposeIntersectLexicon.                                                 *)

ComposeInit ==
    /\ call \in Cases
    /\ pc = "call"
    /\ lexicon = call.lexicon
    /\ rules = call.rules
    /\ tables = << >>
    /\ pair_vector = << >>
    /\ agenda = << >>
    /\ lexicon_non_epsilon_states = {}
    /\ origin = 0
    /\ keys = << >>
    /\ symbol = Epsilon
    /\ frames = << >>
    /\ answer = {}
    /\ pending = << >>
    /\ result = [alphabet |-> {}, arcs |-> << >>, final |-> << >>]

\* Mistaken variant: a state that was found past a rule's epsilon never takes
\* an epsilon of the lexicon, as the parameter's name suggests.
MapStateWithFilter(p, allow_lexicon_epsilons) ==
    LET s == Len(pair_vector)
    IN  /\ pair_vector' = Append(pair_vector, p)
        /\ agenda' = Append(agenda, s)
        /\ lexicon_non_epsilon_states' =
             IF allow_lexicon_epsilons THEN lexicon_non_epsilon_states \cup {s}
             ELSE lexicon_non_epsilon_states

\* map_state_and_add_to_agenda; the parameter is not used.
MapStateAndAddToAgenda(p, allow_lexicon_epsilons) ==
    LET s == Len(pair_vector)
    IN  /\ pair_vector' = Append(pair_vector, p)
        /\ agenda' = Append(agenda, s)
        /\ lexicon_non_epsilon_states' = lexicon_non_epsilon_states \cup {s}

\* compose_intersect up to the call of compose_with_rules, and its beginning.
ComposeWithRules ==
    /\ pc = "call"
    /\ lexicon' = PreparedLexicon(call)
    /\ rules' = PreparedRules(call)
    /\ tables' = [k \in 2 .. Len(call.rules) |-> NewPair]
    /\ MapStateAndAddToAgenda(<< 0, 0 >>, TRUE)
    /\ result' = [alphabet |-> {Epsilon, Identity}, arcs |-> [s \in {0} |-> {}],
                  final |-> [s \in {0} |-> {}]]
    /\ pc' = "agenda"
    /\ UNCHANGED << call, origin, keys, asking, pending >>

\* A transition to be added, with the pair it leads to.
Arc(in, out, weight, lex_state, rule_state, allow) ==
    [in |-> in, out |-> out, weight |-> weight, to |-> << lex_state, rule_state >>, allow |-> allow]

\* The output symbols of a state in the order of their numbers.
SymbolsOf(s) ==
    LET outs == {a.out : a \in lexicon.arcs[pair_vector[s + 1][1]]}
    IN  Ordered(outs, {p \in outs \X outs : Number(p[1]) < Number(p[2])})

\* lexicon_skip_symbol_compose, compose and rule_skip_symbol_compose
Listed(order, ArcOf(_)) == [i \in DOMAIN order |-> ArcOf(order[i])]

LexiconSkip(T, r) ==
    Listed(InOrder(T), LAMBDA a : Arc(a.in, a.out, a.weight, a.target, r, TRUE))

RuleSkip(T, l) ==
    Listed(InOrder(T), LAMBDA a : Arc(a.in, a.out, a.weight, l, a.target, FALSE))

Compose(S, T) ==
    Listed(PairsInOrder(S \X T),
           LAMBDA p : Arc(p[1].in, p[2].out, p[1].weight + p[2].weight,
                          p[1].target, p[2].target, TRUE))

\* Mistaken variant: the state stays on the agenda.
PopAgendaStuck ==
    /\ pc = "agenda"
    /\ agenda # << >>
    /\ origin' = Head(agenda)
    /\ keys' = SymbolsOf(Head(agenda))
    /\ pc' = "symbols"
    /\ UNCHANGED << inputs, tables, pair_vector, agenda, lexicon_non_epsilon_states,
                    asking, pending, result >>

\* The beginning of compute_state for the next state of the agenda.
PopAgenda ==
    /\ pc = "agenda"
    /\ agenda # << >>
    /\ agenda' = Tail(agenda)
    /\ origin' = Head(agenda)
    /\ keys' = SymbolsOf(Head(agenda))
    /\ pc' = "symbols"
    /\ UNCHANGED << inputs, tables, pair_vector, lexicon_non_epsilon_states, asking, pending, result >>

Current == pair_vector[origin + 1]
Skipped(x) == x = Epsilon \/ (x \in FlagNames /\ ~ KnownSymbol(x))
ArcsWith(x) == {a \in lexicon.arcs[Current[1]] : a.out = x}

\* The loop over the output symbols of the lexicon state: some are skipped.
SkipSymbol ==
    LET x == Head(keys)
        allowed == x # Epsilon \/ origin \in lexicon_non_epsilon_states
    IN  /\ pc = "symbols"
        /\ pending = << >>
        /\ keys # << >>
        /\ Skipped(x)
        /\ keys' = Tail(keys)
        /\ pending' = IF allowed THEN LexiconSkip(ArcsWith(x), Current[2]) ELSE << >>
        /\ UNCHANGED << inputs, pc, tables, pair_vector, agenda, lexicon_non_epsilon_states,
                        origin, asking, result >>

\* The rules are asked for the transitions of the others, and last for their
\* epsilon transitions.
AskRules ==
    /\ pc = "symbols"
    /\ pending = << >>
    /\ \/ /\ keys # << >>
          /\ ~ Skipped(Head(keys))
          /\ symbol' = Head(keys)
          /\ keys' = Tail(keys)
       \/ /\ keys = << >>
          /\ symbol' = Epsilon
          /\ UNCHANGED keys
    /\ frames' = << Current[2] >>
    /\ pc' = "ask"
    /\ UNCHANGED << inputs, tables, pair_vector, agenda, lexicon_non_epsilon_states,
                    origin, answer, pending, result >>

\* compose or rule_skip_symbol_compose with what the rules have answered.
ComposeAnswer ==
    /\ pc = "answer"
    /\ Len(frames) = 1
    /\ pending' = IF symbol = Epsilon THEN RuleSkip(answer, Current[1])
                                      ELSE Compose(ArcsWith(symbol), answer)
    /\ frames' = << >>
    /\ pc' = IF symbol = Epsilon THEN "last" ELSE "symbols"
    /\ UNCHANGED << inputs, tables, pair_vector, agenda, lexicon_non_epsilon_states,
                    origin, keys, symbol, answer, result >>

-----------------------------------------------------------------------------
(* get_transitions of a rule or of a rule pair.                             *)

Level == Top + 1 - Len(frames)
Asked == << Last(frames), symbol >>

\* The first rule, or a set that the pair has computed before.
Return ==
    /\ pc = "ask"
    /\ \/ Level = 1 /\ answer' = RuleTransitions(rules[1], Last(frames), symbol)
       \/ /\ Level > 1
          /\ Asked \in DOMAIN tables[Level].transitions
          /\ answer' = tables[Level].transitions[Asked]
    /\ pc' = "answer"
    /\ UNCHANGED << inputs, tables, pair_vector, agenda, lexicon_non_epsilon_states,
                    origin, keys, symbol, frames, pending, result >>

\* A set that is not there yet: the rest of the rules is asked first.
Descend ==
    /\ pc = "ask"
    /\ Level > 1
    /\ Asked \notin DOMAIN tables[Level].transitions
    /\ frames' = Append(frames, tables[Level].pairs[Last(frames) + 1].rest)
    /\ UNCHANGED << inputs, pc, tables, pair_vector, agenda, lexicon_non_epsilon_states,
                    origin, keys, symbol, answer, pending, result >>

\* Mistaken variant: a new state pair takes the first number.
NumberedInFront(pairs, new) ==
    LET after[n \in 0 .. Len(new)] ==
          IF n = 0 THEN pairs
          ELSE IF new[n] \in ToSet(after[n - 1]) THEN after[n - 1]
          ELSE << new[n] >> \o after[n - 1]
    IN  after[Len(new)]

\* The state pairs with numbers, once get_state was called for each of new.
Numbered(pairs, new) ==
    LET after[n \in 0 .. Len(new)] ==
          IF n = 0 THEN pairs
          ELSE IF new[n] \in ToSet(after[n - 1]) THEN after[n - 1]
          ELSE Append(after[n - 1], new[n])
    IN  after[Len(new)]

\* compute_transition_set
ComputeTransitionSet ==
    LET k == Level + 1
        s == frames[Len(frames) - 1]
        pairs == tables[k].pairs
        own == RuleTransitions(rules[k], pairs[s + 1].rule, symbol)
        met == PairsInOrder(Meet(own, answer))
        target(p) == [rule |-> p[1].target, rest |-> p[2].target]
    IN  /\ pc = "answer"
        /\ Len(frames) > 1
        /\ frames' = Front(frames)
        /\ \E numbered \in {Numbered(pairs, [i \in DOMAIN met |-> target(met[i])])} :
             \E set \in {{[in |-> symbol, out |-> p[1].out, weight |-> p[1].weight + p[2].weight,
                           target |-> PairNumber(numbered, target(p))] : p \in ToSet(met)}} :
               /\ answer' = set
               /\ tables' = [tables EXCEPT ![k] =
                              [pairs |-> numbered,
                               transitions |->
                                 [d \in DOMAIN @.transitions \cup {<< s, symbol >>} |->
                                   IF d = << s, symbol >> THEN set ELSE @.transitions[d]]]]
        /\ UNCHANGED << inputs, pc, pair_vector, agenda, lexicon_non_epsilon_states,
                        origin, keys, symbol, pending, result >>

-----------------------------------------------------------------------------
\* add_transition, with get_state for its target.
AddTransition ==
    LET a == Head(pending)
        target == PairNumber(pair_vector, a.to)
        arc == [in |-> a.in, out |-> a.out, weight |-> a.weight, target |-> target]
    IN  /\ pc \in {"symbols", "last"}
        /\ pending # << >>
        /\ pending' = Tail(pending)
        /\ \/ /\ a.to \in ToSet(pair_vector)
              /\ UNCHANGED << pair_vector, agenda, lexicon_non_epsilon_states >>
           \/ /\ a.to \notin ToSet(pair_vector)
              /\ MapStateAndAddToAgenda(a.to, a.allow)
        /\ result' = [alphabet |-> result.alphabet \cup {a.in, a.out},
                      arcs |-> [s \in States(result) \cup {target} |->
                                 (IF s \in States(result) THEN result.arcs[s] ELSE {})
                                   \cup (IF s = origin THEN {arc} ELSE {})],
                      final |-> [s \in States(result) \cup {target} |-> {}]]
        /\ UNCHANGED << inputs, pc, tables, origin, keys, asking >>

StateComputed ==
    /\ pc = "last"
    /\ pending = << >>
    /\ pc' = "agenda"
    /\ UNCHANGED << inputs, tables, pair_vector, agenda, lexicon_non_epsilon_states,
                    origin, keys, asking, pending, result >>

\* set_final_state_weights, and the rest of compose_intersect: only the result
\* of several rules is turned round again.
SetFinalStateWeights ==
    LET final == [s \in States(result) |->
                   {v + w : v \in lexicon.final[pair_vector[s + 1][1]],
                            w \in FinalWeight(pair_vector[s + 1][2])}]
        composed == [result EXCEPT !.final = final]
    IN  /\ pc = "agenda"
        /\ agenda = << >>
        /\ result' = ShowIdentity(IF call.invert /\ Top > 1 THEN Invert(composed) ELSE composed)
        /\ pc' = "done"
        /\ UNCHANGED << inputs, tables, pair_vector, agenda, lexicon_non_epsilon_states,
                        origin, keys, asking, pending >>

ComposeEnded == pc = "done" /\ UNCHANGED composeVars

ComposeNext ==
    \/ ComposeWithRules
    \/ PopAgenda
    \/ SkipSymbol
    \/ AskRules
    \/ Return
    \/ Descend
    \/ ComputeTransitionSet
    \/ ComposeAnswer
    \/ AddTransition
    \/ StateComputed
    \/ SetFinalStateWeights
    \/ ComposeEnded

\* One sequential function.
ComposeSpec == ComposeInit /\ [][ComposeNext]_composeVars /\ WF_composeVars(ComposeNext)

-----------------------------------------------------------------------------
(* What compose_intersect should compute, from its arguments alone.         *)

\* What identity can stand for: neither epsilon nor a flag diacritic.
Universe == (ToSet(SymbolOrder) \cup OtherSymbols)
              \ ({Epsilon, Identity, HiddenIdentity} \cup FlagNames)

\* Identity arcs spelled out: every symbol that is not in the alphabet.
Concrete(t) ==
    [t EXCEPT !.arcs = [s \in States(t) |->
      {a \in t.arcs[s] : a.in # Identity} \cup
      UNION {{[a EXCEPT !.in = x, !.out = x] : x \in Universe \ t.alphabet} : a \in IdentityArcs(t, s)}]]

\* The << symbol pairs, weight >> of the complete paths with at most MaxPairs
\* arcs whose Side so far Keep accepts.
PathsOf(t, Keep(_)) ==
    LET step(p) == {[s |-> a.target, pairs |-> Append(p.pairs, << a.in, a.out >>),
                     weight |-> p.weight + a.weight] : a \in t.arcs[p.s]}
        paths[n \in 0 .. MaxPairs] ==
          IF n = 0 THEN {[s |-> 0, pairs |-> << >>, weight |-> 0]}
          ELSE paths[n - 1] \cup {q \in UNION {step(p) : p \in paths[n - 1]} : Keep(q.pairs)}
    IN  UNION {{<< p.pairs, p.weight + w >> : w \in t.final[p.s]} : p \in paths[MaxPairs]}

\* One side of a sequence of pairs, without the epsilons.
Side(pairs, i) == SelectSeq([k \in DOMAIN pairs |-> pairs[k][i]], LAMBDA x : x # Epsilon)

RelationOf(t) == {<< Side(p[1], 1), Side(p[1], 2), p[2] >> : p \in PathsOf(Concrete(t), LAMBDA q : TRUE)}

\* "If rule transducers contain word boundaries, add word boundaries to the
\* lexicon unless the lexicon already contains them."  A lexicon that only knows
\* the symbol, as one that was harmonized with the rules does, does not contain
\* them: its words are not between boundaries.  The code adds them to every
\* lexicon (WithBoundaries), so for a lexicon whose words have their own this is
\* not what it does.
Words ==
    LET relation == RelationOf(call.lexicon)
        side == IF call.invert THEN 1 ELSE 2
        Bounded(x) == Len(x) > 1 /\ x[1] = Boundary /\ x[Len(x)] = Boundary
        needed == /\ Boundary \in call.rules[1].alphabet
                  /\ \E r \in relation : ~ Bounded(r[side])
        wrap(x) == IF needed THEN << Boundary >> \o x \o << Boundary >> ELSE x
    IN  IF call.invert THEN {<< wrap(r[1]), r[2], r[3] >> : r \in relation}
                       ELSE {<< r[1], wrap(r[2]), r[3] >> : r \in relation}

\* A flag diacritic that no rule knows passes unseen.
WithFreeFlags(t) ==
    LET free == FlagNames \ UNION {call.rules[k].alphabet : k \in DOMAIN call.rules}
        loops(s) == {[in |-> x, out |-> x, weight |-> 0, target |-> s] : x \in free}
    IN  [t EXCEPT !.alphabet = @ \cup free, !.arcs = [s \in States(t) |-> t.arcs[s] \cup loops(s)]]

\* The pair strings that all rules accept, with the sum of their weights.
\* In the inverted direction the boundary belongs to the other side.
RuleStrings ==
    LET side == IF call.invert THEN 2 ELSE 1
        turned(r) == IF call.invert THEN SubstitutePair(r, << Boundary, Epsilon >>, << Epsilon, Boundary >>)
                                    ELSE r
        words == {w[IF call.invert THEN 1 ELSE 2] : w \in Words}
        keep(pairs) == \E w \in words : IsPrefix(Side(pairs, side), w)
        of(k) == PathsOf(Concrete(WithFreeFlags(turned(call.rules[k]))), keep)
        both[k \in DOMAIN call.rules] ==
          IF k = 1 THEN of(1)
          ELSE {<< d[1][1], d[1][2] + d[2][2] >> : d \in {e \in of(k) \X both[k - 1] : e[1][1] = e[2][1]}}
    IN  both[Len(call.rules)]

Composition ==
    IF call.invert
      THEN {<< Side(d[1][1], 1), d[2][2], d[1][2] + d[2][3] >> :
              d \in {e \in RuleStrings \X Words : Side(e[1][1], 2) = e[2][1]}}
      ELSE {<< d[2][1], Side(d[1][1], 2), d[1][2] + d[2][3] >> :
              d \in {e \in RuleStrings \X Words : Side(e[1][1], 1) = e[2][2]}}

-----------------------------------------------------------------------------
(* Properties.                                                              *)

\* "Compose this transducer with the intersection of transducers in v. If
\* invert is true, then compose the intersection of the transducers in v with
\* this transducer" (HfstTransducer.h): the same pairs of strings with the
\* same weights, although the intersection is never built.  It does not hold of
\* a lexicon that already contains the boundaries its rules speak of (Words).
ResultIsComposition == pc = "done" => RelationOf(result) = Composition

\* The product of the lexicon and all rules, as pairs of a state and one of its
\* successors.  Some symbols of the lexicon pass without the rules.
Passes(R, x) == x = Epsilon \/ (x \in FlagNames /\ ~ (Len(R) = 1 /\ x \in R[1].alphabet))

\* The first n of the rules R, in the states q, all take x to o; the k-th one
\* moves that way.
Agreed(R, n, q, x, o) == \A k \in 1 .. n : \E a \in RuleTransitions(R[k], q[k], x) : a.out = o
ThatWay(R, k, q, x, o) == (CHOOSE a \in RuleTransitions(R[k], q[k], x) : a.out = o).target

Outputs(R, q, x) == {o \in {a.out : a \in RuleTransitions(R[1], q[1], x)} : Agreed(R, Len(R), q, x, o)}
Move(R, q, x, o) == [k \in 1 .. Len(R) |-> ThatWay(R, k, q, x, o)]

SuccessorsOf(L, R, l, q) ==
    {<< a.target, q >> : a \in {b \in L.arcs[l] : Passes(R, b.out)}}
      \cup (UNION {{<< a.target, Move(R, q, a.out, o) >> : o \in Outputs(R, q, a.out)} :
                     a \in {b \in L.arcs[l] : ~ Passes(R, b.out)}})
      \cup {<< l, Move(R, q, Epsilon, o) >> : o \in Outputs(R, q, Epsilon)}

StateLists(R) ==
    {q \in [1 .. Len(R) -> UNION {States(R[k]) : k \in 1 .. Len(R)}] :
      \A k \in 1 .. Len(R) : q[k] \in States(R[k])}

ProductOf(c) ==
    LET L == PreparedLexicon(c)
        R == PreparedRules(c)
    IN  UNION {{<< << l, q >>, v >> : v \in SuccessorsOf(L, R, l, q)} : l \in States(L), q \in StateLists(R)}

Products == {<< c, ProductOf(c) >> : c \in Cases}
Product == (CHOOSE p \in Products : p[1] = call)[2]

PairMeaning(p) == << p[1], RuleStates(tables, p[2]) >>
Unfinished == ToSet(agenda) \cup (IF pc \in {"symbols", "ask", "answer", "last"} THEN {origin} ELSE {})
StartNode == << 0, [k \in DOMAIN call.rules |-> 0] >>

Found == IF pc = "call" THEN {StartNode} ELSE {PairMeaning(p) : p \in ToSet(pair_vector)}
Finished ==
    IF pc = "call" THEN {}
    ELSE {PairMeaning(pair_vector[s + 1]) : s \in (0 .. Len(pair_vector) - 1) \ Unfinished}

Explore == INSTANCE Exploration WITH
    root <- StartNode, edges <- Product, found <- Found, finished <- Finished

\* The states that the agenda finds are, under the numbers the rule pairs have
\* given so far, reachable states of the product of the lexicon and all rules,
\* and a state is done with only when all its successors are found: a number
\* never changes its meaning while later states are numbered.
ExploresProduct == Explore!Exploring

\* The agenda runs empty although rules have cycles: together with
\* ExploresProduct, Exploration's Spec.
ExplorationEnds == <>[](Found = Finished)

=============================================================================

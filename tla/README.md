# A TLA+ verification of HFST's lookup core

HFST (Helsinki Finite-State Technology) compiles lexicons and rules into
finite-state transducers and applies them to text. This directory holds TLA+
modules for the parts of it that carry HFST's own run-time logic: the
*optimized-lookup* format (how a transducer is packed into two tables, how it is
unpacked, how words are looked up in it, how lookups that never end are
detected), the text analysis of `hfst-proc`, the intersecting composition of
a lexicon with two-level rules, and the state of an `hfst-xfst` session. Algebraic
operations on transducers are done by the vendored libraries under `back-ends/`
and are not part of it.

## 1. Inventory

| Part | State it keeps | Operations | What makes it correct |
|---|---|---|---|
| Converter (`ConvertOlTransducer.cc`, `optimized-lookup/convert.{h,cc}`) | symbol table, state placeholders, map of used index positions, search floor | number the symbols, pack states into the index table, write both tables | a reader of the tables finds exactly the transitions and finality of each state; states share the index table without taking each other's entries; it ends |
| Back conversion (`ConvertOlTransducer.cc`, `Transducer::get_transitions_from_state`) | agenda, map from addresses to state numbers | expand a state, add a state, add a transition | the reachable part of the original comes back, nothing lost or doubled |
| Lookup (`optimized-lookup/transducer.cc`) | tables; as *members shared by the recursion*: flags, weight, tally of visited states, output tape, remaining depth, results | `lookup_fd`, `get_analyses`, `try_epsilon_*`, `find_*` | results are the outputs of accepting paths, all of them unless limited; an object can be reused after any outcome |
| Loop finder (`find_epsilon_loops.cc`) | the same members | `is_lookup_infinitely_ambiguous`, `find_loop_*`; left by an exception | yes exactly when the lookup loops; ends; leaves no trace |
| Flag diacritics (`HfstFlagDiacritics.h`) | value per feature | `apply_operation` | used by both searches |
| hfst-proc analysis (`tools/src/hfst-proc`) | circular token buffer, active paths, last analyses and their stream location | read a token, step, extend a word, print and move back | every token is handled once; analyses belong to their word; flush after the answer; ends |
| hfst-proc lookup (`lookup-state.cc`, `lookup-path.cc`, `transducer.cc`, `formatter.cc`) | the list of active paths: address, output, weight, flags | `reset`, `step`, `try_epsilons`, `get_finals_set`, `preprocess_finals` | the paths are the ways through the transducer that read the input so far; the printed analyses are the best; every step ends |
| hfst-proc generation, printing | the same stream | generate, print | not modelled |
| Compose-intersect (`HfstTransducer::compose_intersect`, `compose_intersect/`) | agenda, numbered pairs of lexicon and rule states; per rule pair, states numbered on demand and memoized transition sets | prepare lexicon and rules, expand a state, ask the rules | the result is the composition of the lexicon with the intersection of the rules; exactly the product's reachable states are explored; it ends |
| xfst session (`parsers/XfstCompiler.cc`) | stack and definitions (pointers to networks), the regular expression compiler's copies of definitions, lists, failure flags | define, undefine, push, pop, operations in place, on two networks, on the whole stack | an object has one owner and is alive while it is owned; both records of a definition agree; a command that fails changes nothing; commands end |
| pmatch, ospell (`optimized-lookup/`) | context stacks, search queue | match, correct | planned |
| Basic transducer, rest of `HfstTransducer`, harmonization, tokenizers, streams, rules, other parsers, tools, bindings | | | not modelled; see section 8 |

The converter is called for every transducer stored in optimized-lookup format;
lookup, loop finder and back conversion read what it wrote. `hfst-lookup` asks
the loop finder first and then calls lookup *on the same object*. `hfst-proc`
has a lookup of its own (`LookupState`) over the same format, which adds symbols
to the alphabet that the tables do not know. The tool `hfst-compose-intersect`
calls `compose_intersect`. The program is
single-threaded; what is hard in it is not concurrency but mutable state shared
by recursive calls and left through early returns, a time cutoff and an
exception; table layouts computed in several places; and a stream that is moved
back by counts worked out far from where they are used; state numbers that are
handed out while others already refer to them; and raw pointers of which it is
not written down who deletes the object. `PROJECT.json` lists
these hazards at their lines.

## 2. Modules

| Module | Models | Built on |
|---|---|---|
| `OlTables` | symbol numbering, state placeholders, index and transition entries, how tables are read | |
| `OlConvert` | `hfst_basic_transducer_to_hfst_ol` | `OlTables` |
| `OlConvertProofs` | TLAPS: the least number, ordered sets, recursive functions, symbol tables, runs of table entries; numbering and packing; what a reader finds in the written tables | `OlConvert` |
| `Exploration` | abstract: what an agenda promises | |
| `ExplorationProofs` | TLAPS proofs about `Exploration` | `Exploration` |
| `OlToBasic` | `hfst_ol_to_hfst_basic_transducer`, run on the tables just written; implements `Exploration` | `OlConvert` |
| `OlToBasicProofs` | TLAPS: converting there and back | `OlToBasic`, `OlConvertProofs` |
| `FlagDiacritics` | `FdState::apply_operation` | |
| `OlLookup` | `Transducer::lookup_fd` with its recursion, repeated on one object | `OlConvert`, `FlagDiacritics` |
| `OlFindLoop` | `is_lookup_infinitely_ambiguous`, interleaved with lookups | `OlLookup` |
| `OlLookupProofs` | TLAPS: the members shared by the recursion; the results of a lookup are paths of the transducer; searches and lookups on one object | `OlFindLoop`, `OlConvertProofs` |
| `ProcBuffer` | `Buffer<T>` | |
| `ProcAnalysis` | `TokenIOStream`, `LookupState`, `AnalysisApplicator::apply` | `ProcBuffer` |
| `ProcAnalysisProofs` | TLAPS: the circular buffer; where the tokens of the input are, and which word the analyses belong to | `ProcAnalysis` |
| `ProcLookup` | `LookupState` and `LookupPath` over the tables, and the choice of the analyses to print | `OlConvert`, `FlagDiacritics` |
| `ProcLookupProofs` | TLAPS: the active paths are the ways that read the input | `ProcLookup`, `OlConvertProofs` |
| `ComposeIntersect` | `HfstTransducer::compose_intersect` and its classes; implements `Exploration` | |
| `ComposeIntersectProofs` | TLAPS: sorted sets, what a state number of the nested rule pairs means, what the rules answer; the agenda explores the product | `ComposeIntersect` |
| `XfstCompiler` | stack, definitions and failure flags of a session | |
| `XfstCompilerProofs` | TLAPS: the session's networks and definitions | `XfstCompiler` |
| `MC*` | small instances for TLC | |

**OlConvert.** `pc` goes through `symbols`, `pack`, `index`, `transitions`,
`done`, the phases of the function. One iteration of the packing loop is one
step (`SkipSimpleState` or `PackState`, the latter with `assign`, the scan with
`unsuitable` and the adjustment of the floor). `used_indices` is the map of
`IndexPlaceholders`, from a position to the state and offset it belongs to. The
search for a start position is the least position from the floor on that fits,
which is what the `while` loop finds. Tables are always weighted, as in the
code. Variables keep the names of the source.

**Exploration.** The abstract specification of a search driven by an agenda:
states are found from states that are not finished, a state is finished when all
its successors are found, and in the end everything found is finished. Two
components implement it, each through `Explore == INSTANCE Exploration WITH ...`:
the back conversion, where `root` and `edges` are those of the original graph,
`found` are the states that have a number and `finished` those that are no longer on
the agenda (`ExploresGraph`), and compose-intersect, where the graph is the
product of lexicon and rules, computed from their arcs without any of the
numbering (`ExploresProduct`). Both refinements are about the safety part (`Exploring`),
which is proved. That everything found is finished in the end is a property of its own:
`ExplorationEnds` for compose-intersect, and `RoundTripEnds` for the back conversion, which
may also end early by a read behind a table, see below.

**OlToBasic.** The agenda is a stack and a transition is a step; `stage` says what
the conversion back does next, and is `before` while the tables are being
written. An index entry behind the end of the table (see hazards) gives either no match or the end of
the behaviour in `undefined`: its content is not determined by the code.

**OlLookup.** The recursion is unfolded: `stack` holds one frame per call of
`get_analyses` in progress with its locals (address, positions, saved flags,
cursor in the transition table, stage); `flag_state`, `current_weight`,
`traversal_states`, `found_transition`, `output_tape`, `recursion_depth_left` and
`lookup_paths` are single variables because they are members of the object. A
transition taken is one step into the call (`TryEpsilon`, `TryFlag`,
`TakeTransition`) and one after it (`AfterEpsilon`, `AfterFlag`,
`AfterTransition`), so that what the code restores, and what it does not, is
visible. `TimePasses` lets the clock pass the cutoff between any two steps.
Input (`InputTapes`) is a sequence of symbol numbers of at most `MaxInput`; a symbol
that is not in the alphabet is the number one past it, which is what
`initialize_input` makes of it. A lookup
that does not begin because the input is no UTF-8 is `RejectInput`.

**OlFindLoop.** The search of `find_loop` likewise. `FoundLoop` is the `throw`,
together with the handler in `is_lookup_infinitely_ambiguous` which resets weight
and flags. Searches and lookups alternate in any order on one object.

**ProcAnalysis.** One action per branch of the loop of `apply`. A token is a
string of a small set, of a kind that constants give (symbol, superblank,
reserved, alphabetic). A transducer is the set of the symbol sequences it
accepts, and `LookupState` the set of those that agree with what was read, with
the position; `step` matches the symbol and, when case is folded, its lower case.
What a formatter prints is abstracted to an item: an analysed word with its
tokens and accepted sequences, an unknown word, a token passed on (or dropped,
when the formatter does not preserve it) or a flush. Without `-z` a NUL leaves the
input stream failed, so nothing after it is read. The circular buffer is
modelled position by position.

**ProcLookup.** `paths` is the vector of `LookupState`, which `try_epsilons` extends
while it goes over it: one turn of its loop is one step, and `i` its index. A path
stands at an index entry, at a state's marker or at a transition, and the three
are told apart as in the code. The alphabet is the one of the tables with the blank
and the missing upper-case symbols that `ProcTransducerAlphabet` adds. Reading
such a symbol from the index table is a read behind its end, after which the
behaviour ends in stage `undefined`. `get_finals_set` compares two pointers to
decide which of two paths with one output to keep; addresses are up to the
allocator, so the choice is nondeterministic. `ProcessFinals` is
`preprocess_finals` with its three filters in their order.

**ComposeIntersect.** `compose_intersect` is modelled from its preparations (word
boundaries, hidden identity, harmonization, inversion, each by its effect on the
arcs) to the final weights. Rule pairs are nested: `get_transitions` of a pair
asks its first rule and the pair below it. The recursion is unfolded, `frames`
being the states asked for at the levels in progress, and `tables` the pairs and memoized
transition sets of each level. A deterministic rule is a precondition of the
function, and `ComposeAssumption` says so. Transitions are kept sorted by the code; `Ordered` lists
a set in a given order by counting what comes before an element, and numbers are given
by a recursive function, so that both can be proved about.

**XfstCompiler.** `heap` says what is at an address, `stack_` and `definitions_` hold
addresses. An object that is deleted leaves `Freed` behind, the pointers to it
dangle, and the next allocation may take its address. Using a freed object ends the
session as `undefined`, an exception that nothing catches as `aborted`. Objects
that nothing points to are forgotten. Networks and the library's
operations are parameters: what counts is which object a command reads, replaces
or deletes. The loop of `apply_binary_operation_iteratively` is unfolded
(`loop`); all other commands are one step. `lent` and `loaded` are history
variables: the objects that were pushed by the name of a definition, and the
definitions read from a file. The session is a script in silent mode
(`Interactive` is a constant), a file holds one network.

Definitions named as *mistaken variants* are not part of a specification: each is
a plausible slip of the definition after it, and TLC rejects the specification
with that slip (`PROJECT.json`, `mutants`). They show that every property
can fail.

## 3. Runs

`tlc -workers 2 -config X.cfg M` in this directory.

| Run | Config | Shows |
|---|---|---|
| packing | `OlConvertPacking.cfg` | ownership of index positions, no false hit, reads stay in the table, the floor only rises |
| roundtrip | `OlToBasic.cfg` | symbol order, faithful transitions and finality; state numbers and agenda agree; the agenda implements `Exploration`; converting back gives the original's reachable part; both conversions end |
| lookup | `OlLookup.cfg` | sound and complete results over repeated, limited and timed lookups; no trace left; every lookup returns |
| loops | `OlFindLoop.cfg` | right answers, no trace after the exception, lookups after a search still right, every search returns |
| proc | `ProcAnalysis.cfg` | nothing lost or repeated, analyses belong to their word, flush after the answer, ends |
| proc_lookup | `ProcLookup.cfg` | the active paths are the ways through the transducer, the analyses chosen are the best, every step ends |
| compose | `ComposeIntersect.cfg` | the result is the composition with the intersection; the agenda explores the product (`Exploration`) and runs empty |
| xfst | `XfstCompiler.cfg` | live objects with one owner, both records of a definition agree, failing commands keep the stack, operations on the whole stack end |

Four more runs (`loops_sibling`, `proc_flush`, `proc_weights`, `compose_invert`)
expect a violation; each shows that the code does not do what a comment or a
document of it says (section 6).

### Bounds and why they are enough

- *roundtrip*: three states, each with one of six rows of transitions
  that between them have repeated symbols, symbols out of order, epsilons and two
  flags, symbols that are only outputs and final states with weights: all ways to
  combine them (34,224 states). Layout depends on one state's row and on the addresses of the
  others, for which three states are enough.
- *packing*: more states with rows that differ only in their offsets, enough
  for states to be packed into holes of earlier ones and for the floor to be
  stuck and to jump (`FloorJumpThreshold` is a constant, 4 in the code and
  smaller in this run). The proofs remove these bounds.
- *lookup*: transducers that each exercise a part of the search (ambiguity, flag
  agreement, wildcards, default, an epsilon loop, a flag loop, output-only
  unknown), all inputs up to `MaxInput` over known symbols and an unknown one,
  limits -1, 0 and 2, `MaxCalls` lookups on one object. `MAX_RECURSION_DEPTH` is 5000
  in the code; here it is small so that loops reach it.
- *loops*: `MaxLoopDepth` bounds the paths of the reference definition
  `HasLoop`; it is 8, and with 12 the run gives the same result.
- *proc*: every line of up to four tokens of seven kinds that ends in a newline,
  also followed by a NUL and a second request, over a buffer of five positions,
  so that the buffer wraps in most of them (1024 in the code); three lexicons with words that
  are prefixes of each other, multiword expressions and words that begin with a
  mark. In these lines a mark is followed by a letter; otherwise a token is lost
  (hazard at `applicators.cc:163`).
- *proc_lookup*: three analysers, for epsilons before, between and after symbols,
  for flag diacritics that agree and disagree, and for compounds with weights;
  words of up to three symbols, with upper case and blank; four settings of case
  folding, compound filter, weight classes and maximal number. No analyser has an
  epsilon cycle, on which `try_epsilons` does not end, nor, except in
  `proc_weights`, two paths with one output and different weights.
- *compose*: six lexicons, with one, two and three rules, which make none, one
  and two levels of rule pairs; identity, boundaries, flags, rule epsilons, cycles
  and weights; several rules in both directions. Relations are compared on paths of up
  to `MaxPairs` symbol pairs, which covers every loop of the instances
  at least once (22,713 states). One more lexicon knows the boundary symbol without
  having boundaries around its words, as lexicons do that `hfst-compose-intersect` has
  harmonized with the rules. No lexicon has words with boundaries of their own, because
  with them `ResultIsComposition` fails (section 6).
- *xfst*: three addresses and a stack of three are enough for an operation to have
  two operands, a result and a network below them, and for an address to be reused;
  one name and two networks are enough for a definition to be replaced and for the
  two records of it to differ (about 1.2 million states).

Table constants: `NO_SYMBOL_NUMBER`, `NO_TABLE_INDEX` and
`TRANSITION_TARGET_TABLE_START` (2^16-1, 2^32-1, 2^31 in the code) are small
numbers above every number of the instances. The wrap-around of 16-bit symbol
numbers is a listed hazard and not modelled.

## 4. Fairness and deadlock

Fairness is weak and only says that a sequential function that has been called
keeps running. In `OlLookup` and
`OlFindLoop` fairness is on the steps of a call in progress; nobody is assumed
to call. `TimePasses` is never assumed to happen. In `ProcLookup` it is on the turns of
`try_epsilons`, not on the caller's next symbol, and in `XfstCompiler` on the loop
inside a command, not on commands. Converter, back conversion, compose-intersect and
`apply` are each one function that has been called, and fair as a whole.
`Exploration` has no fairness of its own: it says that everything found is
finished in the end, which compose-intersect shows from its own fairness (`ExplorationEnds`).

Where a program is finished the specification stutters explicitly, so deadlock is
checked in all runs except `xfst`: a session really ends, with `quit`, with a failed
command of a script, or with an exception.

## 5. Proofs (TLAPS)

TLC checks the small instances of section 3; the theorems hold for every value of
the constants that satisfies the assumptions.

| Theorem | Property | Invariant used |
|---|---|---|
| `OlConvertProofs`: `TypeCorrect`, `OwnershipCorrect`, `NoFalseHitCorrect` | `TypeOK`, `IndexOwnership`, `NoFalseHit` | `IndexInv` |
| `FloorCorrect` | `FloorNeverFalls` (action property) | `IndexInv` |
| `LookupReadsInTableCorrect` | `LookupReadsInTable` | `TableInv` |
| `SymbolsInOrderCorrect` | `SymbolsInOrder` | `NumberingKept` |
| `FinalityCorrect`, `TransitionsCorrect` | `FinalityFaithful`, `TransitionsFaithful` | `WrittenInv` |
| `OlToBasicProofs`: `AgendaNamesStatesHolds`, `RoundTripHolds` | `AgendaNamesStates`, `RoundTrip` | `BackInv` |
| `ExploresGraphHolds` | `ExploresGraph` (refinement of `Exploration`) | `BackInv` |
| `OlLookupProofs`: `LeavesNoTraceHolds`, `SharedStateMatchesStackHolds` | `LeavesNoTrace`, `SharedStateMatchesStack` | `LookupInv`, `FlagsInv` |
| `LimitHonouredHolds` | `LimitHonoured` | `LimitInv` |
| `ResultsSoundHolds` | `ResultsSound` | `SoundInv` |
| `SearchLeavesNoTraceHolds` (with searches for loops) | `SearchLeavesNoTrace` | `LoopInv` |
| `SoundAfterSearch` (lookups with searches between them) | `ResultsSound` | `LoopInv`, `SoundInv` |
| `ProcLookupProofs`: `PathsCorrect`, `PathsAreWaysHolds` | `PathsFaithful` | `ProcInv` |
| `ProcAnalysisProofs`: `NothingLostHolds`, `AnalysesBelongHolds`, `SafeInputHarmless` | `NothingLost`, `AnalysesBelong` | `AnalysisInv` |
| `FlushedAfterAnswerHolds` | `FlushedAfterAnswer` | `AnalysisInv` |
| `ExplorationProofs`: `EverythingFound`, `NothingElseFound` | `AllReachable` | `ExplorationInv` |
| `ComposeIntersectProofs`: `ExploresProductHolds` | `ExploresProduct` (refinement of `Exploration`) | `ComposeInv` |
| `XfstCompilerProofs`: `TypeHolds`, `OneOwnerHolds`, `DefinitionsAgreeHolds` | `TypeOK`, `OneOwner`, `DefinitionsAgree` | `SessionInv` |
| `ErrorsKeepStackHolds` | `ErrorsKeepStack` (action property) | `SessionInv` |

### Assumptions, and why the code justifies them

- `ConstantsAssumption`: the order in which symbols are numbered names each of them
  once (it is the order of a `std::set`), there are fewer of them than
  `NO_SYMBOL_NUMBER`, epsilon is no flag diacritic, and `NO_TABLE_INDEX` is not the 1
  that marks a final transition entry.
- `GraphsAssumption`: targets are states, weights are naturals, a transition's symbols
  are in the alphabet, a state has at most one final weight, and that is not the bit pattern
  `NO_TABLE_INDEX`, by which the index table says "not final".
- `FloorAssumption`, `LookupAssumption`: the threshold, the depth and `MaxInput` are
  naturals, limits are integers.
- `AlphabetAssumption`: the three wildcard symbols (unknown, identity, default) are neither flag
  diacritics nor epsilon, and there is a number for one symbol more than the alphabet has
  (`NO_SYMBOL_NUMBER` ends the input tape; the lookup gives unknown symbols of the
  input the number behind the alphabet).
- `LettersAssumption` (`ProcLookup`): epsilon and the flag diacritics have no case. hfst-proc gives
  them empty names in its symbol table (`alphabet.cc:165`, `alphabet.cc:170`) before it looks for
  upper and lower case.
- `AnalysisAssumption` (`ProcAnalysis`): the end of the input is no token, and `is_alphabetic` is false of
  it (`tokenizer.cc:128`); words of a transducer are sequences of symbols; a blank is no letter, so no
  other case of it is tried. `BufferSizeAssumption`: the buffer has at least one position.
- `ComposeAssumption` (`ComposeIntersect`): lexicon and rules are finite transducers with states numbered
  from 0 on, whose symbols the global symbol table numbers one by one; identity is on both sides of a
  transition or on neither (harmonization, `HarmonizeUnknownAndIdentitySymbols.h:66`, and
  `ComposeIntersectFst.cc:104` rely on it); there is at least one rule (without any,
  `compose_intersect` reads the first of none, `HfstTransducer.cc:4627`; section 6), and the rules are
  deterministic, which its documentation asks for (`HfstTransducer.h:1314`; that they have no
  epsilons, which it asks for as well, is not assumed).
- `XfstAssumption`: the library's operations make networks of networks.
- `Addressable` is not an assumption about constants but a hypothesis of some theorems:
  each of the two tables has at most `TRANSITION_TARGET_TABLE_START` (2^31) entries.
  An address from there on means the transition table; the code does not check that the
  tables stay below, and for larger ones the properties are false. Both tables are empty at the
  start, and the instances of all runs stay below the value given there.

### The converter (`OlConvertProofs`)

Ownership relates `used_indices` to `start_index` in both directions. It is not
inductive alone: it is stated with the states' offsets, which come into being in
`GetStatesAndSymbols`, so `IndexInv` adds that nothing is packed before that step, and it
needs the types to compare positions. The work is in `PackStep`: the new state's slots
are disjoint from all used ones (`Fits`), so the entries of earlier states keep their
owners, and the new ones have the new state as theirs. `NoFalseHit` then follows
without another induction: if the entry at `start_index[s] + 1 + x` is marked x, its
owner t has `start_index[t] + x + 1` at the same position, so both start at the same
position, whose marker names one state only. For the floor, a jump goes behind the
position that was just used, and the search for that one began at the floor.

`TableInv` adds that the used positions are finitely many, so that there is a position
behind all of them, and how long the index table is. `NumberingKept` says that the
numbers are what the symbol collection made of the names; what that is was proved of
the operators (`SymbolTable`, `NumberedNames`).

### What a reader finds (`OlConvertProofs`)

The transition table is a recursive function of the number of states written, and each
state's block is in an order that is defined by sets. Two lemmas carry the inductions
here: `LeastNumber` (a non-empty set of naturals has a least element, hence the least
counterexample) and `Recursion` (a function defined by its value at 0 and a step
exists, and is unique). The library's induction theorems cannot be used, as they take a
predicate as a parameter. `OrderedLists` and its companions show that `Ordered` lists
a finite set by a strict order without gaps.

`WrittenInv` says that every state before the current one is packed, and that each
table is the one that was written. From it: where each state's block starts
(`FirstFacts`, `TransitionTableFacts`), that within a block a symbol's transitions are
contiguous, at the offset that the index entry names (`SymbolBlocks`, `IndexFound`),
that a run of entries from there ends where the symbol's end (`BlockRead`), either
at another symbol or at a finality marker, and that epsilons and flags are the first
(`UnderBlock`).

### There and back (`OlToBasicProofs`)

`get_transitions_from_state` collects addresses of transitions by trying every symbol of
the alphabet, in two ways for the two kinds of address. `StateRead` shows that it finds
the addresses of exactly the state's own transitions: runs of plain symbols by `IndexHit`
and `BlockAddresses`, the flag diacritics in the run at index 0 that skips the epsilons found
already (`ReadFlags`), a state without index entries from its marker on
(`ReadSimple`). With `AddressUnique` (different states, different addresses) an address
stands for one state.

`BackInv` then follows the agenda loop. `MapInv`: every address met is that of a
reachable state, addresses and numbers 0 .. n-1 are in bijection, and the final weight of
each number is that of its address. `WorkInv`: for every address met there is a number m of
transitions already added, in the order in which they were written, whose targets have
been met (`Progress`); m is 0 on the agenda, the position before the
pending transitions for the current state, and everything for the others. Alone,
neither `AgendaNamesStates` nor `RoundTrip` is inductive: that an address is reachable needs
the transitions read at it to be the state's own, and `RoundTrip` says
nothing before the end. When the agenda is empty, the states met hold the start state and
are closed under transitions, so they are all that can be reached (`AllBuilt`);
transitions are the original ones in the order of writing, hence the same bag
(`SameBag`).

`ExploreStep` maps every step: `AddTransition` to `Find` (or a stutter when the target is
known), `StateExpanded` to `Finish`, all others to a stutter. With `ExplorationProofs` this
says once more that exactly what is reachable is found.

### Exploration (`ExplorationProofs`)

For every graph, finite or not, without assumptions: when everything found is finished,
what was found holds the root and is closed under the edges; and what is found lies, at any
time, in every set that holds the root and is closed under the edges. The first
needs `ExplorationInv` (only found states are finished, and no edge leads from a
finished state to one that was not found), because `AllReachable` says nothing before the
end. The second is an induction of its own, on `found` being inside the given set.

### Lookup and loop finder (`OlLookupProofs`)

The members shared by the recursion are tied to its stack. `CallsInv`: all calls but the
innermost are following a transition, and the depth left plus the calls in progress is
`MAX_RECURSION_DEPTH`, with one more while a call is at its first check. `PathInv`: the weight
is the sum over the transitions the frames follow, and every frame's address, cursor and
input position lie in the tables (here the written tables are needed, and with them
`Addressable`: a cursor that ran out of its block would add the weight of something
else). `FlagsInv`: while no frame is behind a flag transition the values are
neutral, and the first that is remembers neutral ones. None of them is in the property:
`LeavesNoTrace` only speaks of the moments between calls. `SearchInv` is `FlagsInv` for the
stack of `find_loop`, and `LoopInv` joins the two: one stack is empty while the other is in
use, and the exception's handler re-establishes what a return would have. `LimitInv` adds to
`LimitHonoured` that the results are finitely many.

### Results (`OlLookupProofs`)

`ResultsSound` compares the results with `AllAnalyses`, a definition by paths of the
transducer as it was before the conversion, without tables, addresses, shared members or a
stack. `SoundInv` says that to the stack belongs a list of such paths, one for each
frame and each one transition longer than the one before (`GoesOnBy`): the frame's address
is that of the path's state, its input position what the path has read, the output tape
begins with the path's output up to the frame's position (`OutputKept`; what is behind it may be
left from another branch, or from an earlier lookup), the cursor is within the block of
the state, on the transition that the next path takes, and for the innermost frame weight
and flags are the path's own (`TopSound`). A frame that reads input also has to know that
default transitions are tried only where no other transition reads the symbol, although
`found_transition` is a member that deeper calls overwrite (`Untried`).
Every step either stays at the path (`StaysAt`), or follows a transition
(`CallsFrom`), for which the entry at the cursor is shown to be a transition of the state with
a matching symbol (`EntryArc`, `FindSound`, from the proofs about the tables), or
returns, and then the flag values, the weight and the position are those of the path below
(`SoundReturn`: this is where the order of restoring them matters). A result is
added where the input has been read and the address is final; the tape up to the
position is then the path's output (`AnalysisFacts`). Lookups that were cut short by limit, time
or depth need no argument of their own, as the invariant does not say what has been tried.
The searches of `find_loop` leave results, tape and input alone, and a new call of either kind
begins without results, so the same invariant carries `SoundAfterSearch`.

### Active paths (`ProcLookupProofs`)

`PathsFaithful` compares the vector of paths with the ways through the transducer before the
conversion; the ways are described without tables, index entries, or the order of the search
(`IsWay`: the end of a trail of transitions, each of which the input, its other case, or the flag
values allow). It only speaks of the moments at which a step has returned. `ProcInv` says of
every moment between them (`PathsAre`) that each path stands for a way that has read the whole input, at the
address of its state or behind the state's index entry for epsilon (`OnlyWays`); that every way which has
just read the last symbol is there (`Entered`); and that for the paths before position `i`
everything that follows without input is there as well (`Processed`). `EpsilonsFollowed` is a
turn of `try_epsilons`, `SymbolApplied` a call of `apply_input`: there the ways of the longer input
are those of the shorter one extended once (`WayLonger`), and by `AllEntered` (an induction along the
trail of a way) none of these is missing when all epsilons have been followed. What is read in the
tables for a path is `EpsilonsRead` and `SymbolRead`, from the proofs about the tables: at a simple
state, at an index entry, and at the transitions behind one, where `apply_input` must find
nothing. A path that would read behind the index table, and a token that is no symbol, end what is
claimed until the next reset.

`PathsAreWaysHolds` needs nothing else. `PathsFaithful` counts up the ways of at most
(input length + 1) x states transitions, so `PathsCorrect` has the hypothesis
`NoSilentCycles` (a rank of the states falls along epsilons and flag diacritics): then no way is longer
(`TrailShort`). The transducers of the run satisfy it; with a silent cycle on the way
the search does not return at all.

### The analysis loop (`ProcAnalysisProofs`)

The three properties speak of the whole input and of all that was written, the loop works with a
ring of `BufferSize` tokens, a count worked out from two positions in it, and two remembered
values. The invariant relates them. `BufferHolds`: the ring holds the last `BufferSize` tokens that were
read, each at its slot, whichever of its two ends a position is at; it is kept by `Add`,
by `AfterNext`, and by `Back` as long as not more is taken back than is there (`AddHolds`, `NextHolds`,
`BackHolds`), and what `Unread` lists is then the text before the place reached (`UnreadIs`).
`PlaceInv`: what was written is the beginning of the text, and the word being read, with
the token in hand (`Held`), is what comes directly behind it and ends where reading has come
to. `PathInv`: the paths are the words of the transducer that begin with these tokens, hence the word is
shorter than some word of the transducer, which fits into the buffer. `FormsInv`: the remembered analyses are those of the
first n tokens of the word for some n, and the remembered stream location is as many
tokens back, around the ring, as were taken since (`DiffGrows`). Each property needs all of it: how far `PrintWord` moves back is
right because of `FormsInv`, and the tokens are found there because of `BufferHolds`. A word is written
with n tokens and the analyses of n tokens, which is `AnalysesBelong`. For
`FlushedAfterAnswer`, a NUL read while a word is open would follow a token that is part of a word
(`LastIsOfWord`).

The loop does go wrong in known cases (section 6), so the theorems have hypotheses, which are just
these cases: `Harmless` says that nothing as long as the buffer has to be taken back (`WordsFit` for words of the
transducer), that a possible word which begins with a mark and is none goes on with a letter, that input does not
end within a word, and that nothing follows a NUL without `-z`, behind which the code does not read. `SafeInputHarmless` shows that none of them
comes up for a text that ends with a separator (a newline, say), when the words of the transducer
begin with letters and are shorter than the buffer: there the properties hold without looking at the run.
The lexicons of the run `proc` are of both kinds. `FlushedAfterAnswerHolds` has `NulsOutsideWords` in addition, without which the run
`proc_flush` shows the opposite.

### Compose-intersect (`ComposeIntersectProofs`)

`ExploresProduct` reads every state pair of the agenda as a state of the lexicon and one of each
rule. Between the two are the numbers that the nested rule pairs give on demand. `Meaning` is what a
number of a level stands for: one state of every rule up to that level. Two numbers of a level
mean different things (`MeaningInjective`), since a pair is numbered once and, level by level,
its parts are already known to be different; and a number keeps its meaning while others are added
(`MeaningKept`), since pairs are only appended. These are inductions over the levels, done by
taking the least level at which the statement fails.

`ComposeInv` says of the whole run that every memoized transition set is what all rules
up to its level would answer together (`Computations`, `Answers`: one transition for each output
on which they agree, leading to the number of the states they move to), that every level in
progress asks for the rest of the level above (`FramesRight`), that the agenda holds the last numbers in
order (`AgendaInOrder`, so what is finished is an initial segment), and how far the state being
computed has got: the transitions still to be added lead to its successors (`PendingLeads`), and
the successors by all output symbols that are no longer due are known or about to be added
(`Progress`). The answer of a rule pair is right because two deterministic rules have one
transition for an output, so that the two iterators of `compute_transition_set` meet exactly at the
outputs they share (`MeetAre` and the lemmas up to `ComputedRight`). What the prepared lexicon and
rules look like follows from the arguments, step by step of the preparation (`CallPrepared`).
`ExploreStep` maps `AddTransition` to `Find`, `StateComputed` to `Finish` and
every other step to a stutter; that `ComputeTransitionSet` is a stutter is `MeaningKept` again.

### xfst session (`XfstCompilerProofs`)

`SessionInv` is `TypeOK`, `OneOwner`, `DefinitionsAgree` and that the loop of an operation on the
whole stack has room for its result. The three are inductive only together:
that a command which changes a network in place leaves definitions alone is
`OneOwner`, and that what it deletes was alive is `OneOwner` as well. `ErrorsKeepStack` is proved
command by command, by what each has popped when it fails.

### Only model-checked

- All liveness (`ConversionEnds`, `RoundTripEnds`, `LookupReturns`, `SearchReturns`, `AnalysisEnds`,
  `StepReturns`, `CommandEnds`, `ExplorationEnds`): out of this prover's reach.
- `ResultsComplete` of `OlLookup`, `AnswerCorrect` and the completeness half of
  `LookupAfterSearch` of `OlFindLoop`: they do not hold of every transducer (hazards at
  `transducer.cc:375` and `find_epsilon_loops.cc:158`), only of the instances. With the
  transducer `comeback` of `MCOlLookup` as the only one chosen, TLC finds `ResultsComplete`
  violated: a path sets a flag, clears it and enters the same state again by another flag
  transition; the tally holds that target with the same values before the flag, so the second
  entry is taken for a loop and the only analysis is missed.
- `AnalysesBest` of `ProcLookup`: it does not hold of every transducer (the run `proc_weights` shows
  one), only of the instances of its run.
- `ResultIsComposition` of `ComposeIntersect`: it does not hold of a lexicon that already
  contains word boundaries (section 6), nor with one rule and `invert`. It compares relations by the paths with at most `MaxPairs`
  pairs, and with paths that long the two sides need not agree for other transducers: a pair string of
  the result can be longer than the path of the lexicon it comes from.

## 6. Findings

| Run | What it shows |
|---|---|
| loops_sibling | `find_loop_transitions` clears the tally of the path in progress; an epsilon loop behind a branch that reads input is followed without bound |
| proc_flush | a NUL directly after a word: the NUL is written and flushed before the word's answer |
| proc_weights | `get_finals_set` compares pointers where its comment speaks of weights: of two paths with one output the worse one may be kept, and the analysis lose its place |
| compose_invert | `compose_intersect` with one rule and `invert` leaves its result upside down; with several rules it is inverted back |

Two comments of `compose_intersect` say what its code does not do, and the run `compose`
leaves both cases out:

- "If rule transducers contain word boundaries, add word boundaries to the lexicon unless the
  lexicon already contains them" (`HfstTransducer.cc:4629`). The code works out
  `lexicon_alphabet` (4635), never looks at it, and adds them to every lexicon, as
  `WithBoundaries` does. `Words`, from which `ResultIsComposition` is stated, follows the comment.
  `MCComposeIntersect` has a lexicon `bounded` whose words begin and end with `@#@`; with
  `Chosen = {"bounded already"}` in `ComposeInvert.cfg`, TLC finds `ResultIsComposition`
  violated: the prepared lexicon has two boundaries on either side, the rule accepts one, and
  the result is empty where the comment's is not. Without the second pair the property
  holds of that lexicon. "Contains" is read here as words between boundaries and not as
  the symbol's being in the alphabet: `hfst-compose-intersect` harmonizes the lexicon with the rules
  first, so that its alphabet has the symbol although its words still need boundaries,
  and for such a lexicon the code is right.
- "The intersection of an empty set of rules is the empty language, which makes the result
  empty" (4622). The code makes the transducer empty and then reads `*v.begin()` (4627) and
  `v.at(0)` (4652) all the same, the first of which is undefined. `ComposeAssumption` excludes an
  empty list, so nothing here is said of it.

Known, and without a line of documentation that they contradict, are these; the
instances of the passing runs leave them out and the hazards in `PROJECT.json` name
them at their lines: the tally of `try_epsilon_transitions` is keyed by the flag
values *before* the flag is applied, so a second way into a state can be taken for a loop;
`find_loop` ignores identity and unknown transitions; a mark that may begin a
word, followed by a token that is not alphabetic, loses that token; so may the end of
input without a newline; text is lost when more than the 1024 tokens of the buffer have to be
taken back, for a word of the transducer or for letters behind a mark; `push <name>` in xfst puts the definition's own object
on the stack, where it is changed and deleted; a substitution that fails has already
popped the stack; a definition loaded from a file is unknown to regular
expressions.

## 7. Plan

1. Done: `OlTables`, `OlConvert` with its proofs, `Exploration` with its proofs,
   `OlToBasic`, `FlagDiacritics`, `OlLookup`, `OlFindLoop`, `ProcBuffer`,
   `ProcAnalysis`, `ProcLookup`, `ComposeIntersect`, `XfstCompiler`.
2. Proofs. Done: everything the runs check of `OlConvert` and `OlToBasic` except that they
   end, the refinement `ExploresGraph`, `LeavesNoTrace`, `SharedStateMatchesStack` and
   `LimitHonoured` of `OlLookup`, `ResultsSound` of `OlLookup` also with searches between the
   lookups, `SearchLeavesNoTrace` of `OlFindLoop`, `PathsFaithful` of `ProcLookup`, everything
   about `ProcAnalysis` except that it ends, and everything
   about `XfstCompiler` except that commands end, and the refinement `ExploresProduct` of
   `ComposeIntersect`. Next: `ResultsComplete` of `OlLookup` for the transducers it is true of, and that the
   transitions of the result of `ComposeIntersect`, not only its states, are those of the product.
3. An abstract `Lookup` specification (a call answers with a set of analyses)
   which `OlLookup` implements, with a refinement mapping that forgets the stack.
4. `ProcGeneration` (`GenerationApplicator`) on the token stream of `ProcAnalysis`.
5. `Ospell`: the queue of the spelling corrector with limits, against the
   definition of weighted corrections; `PmatchRuntime`: nested network calls and
   captures on the context stack.
6. `HfstTokenizer` and the encoder's trie as pure functions against a
   longest-match reference.

## 8. Not modelled

Most of the repository's lines are outside what a model of this program
can say something about:

- Vendored libraries (`back-ends/`: foma, OpenFst, SFST, dlfcn), with generated
  lexers and parsers among them: third-party code.
- Wrappers and conversions for these libraries, and the dispatch in
  `HfstTransducer.cc`: one call of a library per operation, with no state of their
  own.
- Parsers and compilers (lexc, xre, pmatch, twolc) and the rule functions: syntax, and
  compositions of automata operations whose meaning is that of the libraries.
- Streams, headers, command lines, printing, the tools that read a
  transducer, call one operation and write it: I/O.
- Bindings: generated. Tagger: statistics.

In the modelled parts:

- optimized lookup: tokenization of input strings into symbols (`Encoder`), loading
  tables from a file, `@I.x@` insertions, which the alphabet treats as epsilon-like, 16- and
  32-bit wrap-around, floating point weights (naturals here, exact);
- hfst-proc: capitalisation of printed analyses, raw mode, escapes in
  `read_token`, generation;
- compose-intersect: minimization and `prune_alphabet`, which keep the relation;
- xfst: printing, `apply`, function definitions and aliases, `name net`, variables
  other than `quit-on-fail`, files with several networks.

----------------------------- MODULE OlFindLoop -----------------------------
(***************************************************************************)
(* Transducer::is_lookup_infinitely_ambiguous: a search for a loop that    *)
(* reads no input, along the transitions the input allows.  It uses the    *)
(* same members of the Transducer object as the lookup (OlLookup), calls   *)
(* of both alternate on one object, and it ends by an exception when it    *)
(* finds a loop.                                                           *)
(***************************************************************************)
EXTENDS OlLookup

CONSTANTS MaxLoopDepth      \* bound on the recursion of find_loop, which has none

VARIABLES
    loop_stack,             \* calls of find_loop in progress, innermost last
    answer                  \* {} until is_lookup_infinitely_ambiguous has returned

loopVars == << loop_stack, answer >>
loopAll == << lookupAll, loopVars >>

LoopInit == LookupInit /\ loop_stack = << >> /\ answer = {}

Loop == Last(loop_stack)
LoopEntry == At(wtransition_table, Loop.cursor)
SetLoop(f) == loop_stack' = Append(Front(loop_stack), f)
Searching == pc = "done" /\ loop_stack # << >>

\* Members the search never touches.
lookupOnly == << calls, input_tape, max_lookups, timed, overspent, stack,
                 recursion_depth_left, output_tape, lookup_paths >>

IsLookupInfinitelyAmbiguous ==
    /\ Idle
    /\ loop_stack = << >>
    /\ calls < MaxCalls
    /\ calls' = calls + 1
    /\ input_tape' \in InputTapes
    /\ traversal_states' = {}
    /\ lookup_paths' = {}
    /\ overspent' = TRUE
    /\ answer' = {}
    /\ loop_stack' = << Frame(0, 0, 0) >>
    /\ UNCHANGED << vars, max_lookups, timed, stack, flag_state, current_weight, output_tape,
                    found_transition, recursion_depth_left >>

\* initialize_input fails: the answer is no, and the members stay as they are.
Untokenizable == << NO_SYMBOL_NUMBER >>

RejectSearch ==
    /\ Idle
    /\ loop_stack = << >>
    /\ calls < MaxCalls
    /\ calls' = calls + 1
    /\ input_tape' = Untokenizable
    /\ overspent' = TRUE
    /\ lookup_paths' = {}
    /\ answer' = {FALSE}
    /\ UNCHANGED << vars, max_lookups, timed, stack, pathVars, found_transition,
                    recursion_depth_left, loop_stack >>

-----------------------------------------------------------------------------
(* find_loop_epsilon_transitions and find_loop_epsilon_indices              *)

EnterLoopState ==
    LET start == FindIndex(windex_table, Loop.at, 0)
    IN  /\ Searching
        /\ Loop.stage = "enter"
        /\ found_transition' = FALSE
        /\ IF start = {}
             THEN SetLoop([Loop EXCEPT !.stage = "input"])
             ELSE SetLoop([Loop EXCEPT !.stage = "epsilons", !.flags = flag_state,
                                       !.cursor = CHOOSE c \in start : TRUE])
        /\ UNCHANGED << vars, lookupOnly, flag_state, current_weight, traversal_states, answer >>

\* What is remembered of a transition without input: its target and the flags
\* before it.
EpsilonReachable(f) == << At(wtransition_table, f.cursor).target, f.flags >>

\* The transition at the cursor reads no input and, if it is a flag, is allowed.
Follows ==
    /\ Searching
    /\ Loop.stage = "epsilons"
    /\ \/ LoopEntry.input = 0
       \/ /\ LoopEntry.input \in FlagSymbols
          /\ Allowed(flag_state, OperationOf(LoopEntry.input))

\* Mistaken variant: the exception leaves the flags of the path behind.
FoundLoopKeepingFlags ==
    /\ Follows
    /\ EpsilonReachable(Loop) \in traversal_states
    /\ answer' = {TRUE}
    /\ loop_stack' = << >>
    /\ current_weight' = 0
    /\ UNCHANGED << vars, lookupOnly, flag_state, traversal_states, found_transition >>

\* throw true, caught by is_lookup_infinitely_ambiguous.
FoundLoop ==
    /\ Follows
    /\ EpsilonReachable(Loop) \in traversal_states
    /\ answer' = {TRUE}
    /\ loop_stack' = << >>
    /\ flag_state' = NoFlags
    /\ current_weight' = 0
    /\ UNCHANGED << vars, lookupOnly, traversal_states, found_transition >>

FollowEpsilon ==
    /\ Follows
    /\ EpsilonReachable(Loop) \notin traversal_states
    /\ Len(loop_stack) < MaxLoopDepth
    /\ traversal_states' = traversal_states \cup {EpsilonReachable(Loop)}
    /\ flag_state' = IF LoopEntry.input = 0 THEN flag_state
                     ELSE Apply(flag_state, OperationOf(LoopEntry.input))
    /\ loop_stack' = Append(Append(Front(loop_stack), [Loop EXCEPT !.stage = "after epsilon"]),
                            Frame(LoopEntry.target, Loop.pos, 0))
    /\ UNCHANGED << vars, lookupOnly, current_weight, found_transition, answer >>

\* Mistaken variant: the state is not forgotten when the search backs out of it.
AfterLoopEpsilonKeepingState ==
    /\ Searching
    /\ Loop.stage = "after epsilon"
    /\ flag_state' = IF LoopEntry.input = 0 THEN flag_state ELSE Loop.flags
    /\ found_transition' = (found_transition \/ LoopEntry.input = 0)
    /\ SetLoop([Loop EXCEPT !.stage = "epsilons", !.cursor = @ + 1])
    /\ UNCHANGED << vars, lookupOnly, current_weight, traversal_states, answer >>

AfterLoopEpsilon ==
    /\ Searching
    /\ Loop.stage = "after epsilon"
    /\ traversal_states' = traversal_states \ {EpsilonReachable(Loop)}
    /\ flag_state' = IF LoopEntry.input = 0 THEN flag_state ELSE Loop.flags
    /\ found_transition' = (found_transition \/ LoopEntry.input = 0)
    /\ SetLoop([Loop EXCEPT !.stage = "epsilons", !.cursor = @ + 1])
    /\ UNCHANGED << vars, lookupOnly, current_weight, answer >>

\* Mistaken variant: the transition is looked at again.
DisallowedFlagStuck ==
    /\ Searching
    /\ Loop.stage = "epsilons"
    /\ LoopEntry.input \in FlagSymbols
    /\ ~ Allowed(flag_state, OperationOf(LoopEntry.input))
    /\ UNCHANGED loopAll

DisallowedFlag ==
    /\ Searching
    /\ Loop.stage = "epsilons"
    /\ LoopEntry.input \in FlagSymbols
    /\ ~ Allowed(flag_state, OperationOf(LoopEntry.input))
    /\ SetLoop([Loop EXCEPT !.cursor = @ + 1])
    /\ UNCHANGED << vars, lookupOnly, flag_state, current_weight, traversal_states,
                    found_transition, answer >>

LoopEpsilonsDone ==
    /\ Searching
    /\ Loop.stage = "epsilons"
    /\ LoopEntry.input # 0
    /\ LoopEntry.input \notin FlagSymbols
    /\ found_transition' = (found_transition \/ ~ IndexesTransitionTable(Loop.at))
    /\ SetLoop([Loop EXCEPT !.stage = "input"])
    /\ UNCHANGED << vars, lookupOnly, flag_state, current_weight, traversal_states, answer >>

-----------------------------------------------------------------------------
(* The rest of find_loop, with find_loop_index and find_loop_transitions.   *)
(* Unlike the lookup it searches for an input symbol that is not in the     *)
(* alphabet under its own number, not as identity or unknown.               *)

ReturnFromLoop ==
    /\ loop_stack' = Front(loop_stack)
    /\ answer' = IF Len(loop_stack) = 1 THEN {FALSE} ELSE answer

LoopInputEnded ==
    /\ Searching
    /\ Loop.stage = "input"
    /\ AtEnd(Loop)
    /\ ReturnFromLoop
    /\ UNCHANGED << vars, lookupOnly, flag_state, current_weight, traversal_states, found_transition >>

LoopReadInput ==
    /\ Searching
    /\ Loop.stage = "input"
    /\ ~ AtEnd(Loop)
    /\ SetLoop([Loop EXCEPT !.stage = "find", !.pos = @ + 1,
                            !.symbols = << input_tape[Loop.pos + 1] >>])
    /\ UNCHANGED << vars, lookupOnly, flag_state, current_weight, traversal_states,
                    found_transition, answer >>

LoopFindSymbol ==
    LET x == Head(Loop.symbols)
        outside == ~ IndexesTransitionTable(Loop.at) /\ Loop.at + 1 + x >= Len(windex_table)
        start == IF outside THEN {} ELSE FindIndex(windex_table, Loop.at, x)
    IN  /\ Searching
        /\ Loop.stage = "find"
        /\ Loop.symbols # << >>
        /\ IF start = {}
             THEN SetLoop([Loop EXCEPT !.symbols = Tail(@)])
             ELSE SetLoop([Loop EXCEPT !.stage = "transitions", !.cursor = CHOOSE c \in start : TRUE])
        /\ pc' \in {"done"} \cup (IF outside THEN {"undefined"} ELSE {})
        /\ UNCHANGED << inputVars, symbolVars, packVars, tableVars, lookupOnly, flag_state,
                        current_weight, traversal_states, found_transition, answer >>

LoopTryDefault ==
    /\ Searching
    /\ Loop.stage = "find"
    /\ Loop.symbols = << >>
    /\ ~ Loop.defaulted
    /\ SpecialSymbol(DefaultName) # NO_SYMBOL_NUMBER
    /\ ~ found_transition
    /\ SetLoop([Loop EXCEPT !.symbols = << SpecialSymbol(DefaultName) >>, !.defaulted = TRUE])
    /\ UNCHANGED << vars, lookupOnly, flag_state, current_weight, traversal_states,
                    found_transition, answer >>

LeaveLoopState ==
    /\ Searching
    /\ Loop.stage = "find"
    /\ Loop.symbols = << >>
    /\ Loop.defaulted \/ SpecialSymbol(DefaultName) = NO_SYMBOL_NUMBER \/ found_transition
    /\ ReturnFromLoop
    /\ UNCHANGED << vars, lookupOnly, flag_state, current_weight, traversal_states, found_transition >>

LoopTakeTransition ==
    /\ Searching
    /\ Loop.stage = "transitions"
    /\ LoopEntry.input = Head(Loop.symbols)
    /\ Len(loop_stack) < MaxLoopDepth
    /\ traversal_states' = {}
    /\ loop_stack' = Append(Append(Front(loop_stack), [Loop EXCEPT !.stage = "after transition"]),
                            Frame(LoopEntry.target, Loop.pos, 0))
    /\ UNCHANGED << vars, lookupOnly, flag_state, current_weight, found_transition, answer >>

AfterLoopTransition ==
    /\ Searching
    /\ Loop.stage = "after transition"
    /\ found_transition' = TRUE
    /\ SetLoop([Loop EXCEPT !.stage = "transitions", !.cursor = @ + 1])
    /\ UNCHANGED << vars, lookupOnly, flag_state, current_weight, traversal_states, answer >>

LoopTransitionsDone ==
    /\ Searching
    /\ Loop.stage = "transitions"
    /\ LoopEntry.input # Head(Loop.symbols)
    /\ found_transition' = (found_transition \/ ~ IndexesTransitionTable(Loop.at))
    /\ SetLoop([Loop EXCEPT !.stage = "find", !.symbols = Tail(@)])
    /\ UNCHANGED << vars, lookupOnly, flag_state, current_weight, traversal_states, answer >>

-----------------------------------------------------------------------------
FindLoop ==
    \/ EnterLoopState \/ FoundLoop \/ FollowEpsilon \/ AfterLoopEpsilon \/ DisallowedFlag
    \/ LoopEpsilonsDone \/ LoopInputEnded \/ LoopReadInput \/ LoopFindSymbol \/ LoopTryDefault
    \/ LeaveLoopState \/ LoopTakeTransition \/ AfterLoopTransition \/ LoopTransitionsDone

\* A step of the lookup, between calls of is_lookup_infinitely_ambiguous.
LookupStep ==
    /\ loop_stack = << >>
    /\ LookupNext
    /\ answer' = IF calls' # calls THEN {} ELSE answer
    /\ UNCHANGED loop_stack

\* After a read outside the index table nothing more is known.
LoopUndefined ==
    /\ loop_stack # << >>
    /\ pc = "undefined"
    /\ UNCHANGED loopAll

LoopNext == LookupStep \/ IsLookupInfinitelyAmbiguous \/ RejectSearch \/ FindLoop \/ LoopUndefined

\* One thread: a search or a lookup that is running goes on until it returns.
LoopSpec ==
    /\ LoopInit
    /\ [][LoopNext]_loopAll
    /\ WF_loopAll(LookupStep /\ (Build \/ GetAnalyses))
    /\ WF_loopAll(FindLoop)

-----------------------------------------------------------------------------
(* Properties.                                                              *)

\* There is a path that comes back to a state with the same flag values
\* without reading input, along what a lookup of this input can follow.
HasLoop ==
    \E p \in PathsUpTo(MaxLoopDepth, LAMBDA q : << q.s, q.flags >> \notin q.seen) :
      \E k \in DOMAIN placeholders[p.s] :
        \E q \in Extend(p, placeholders[p.s][k]) : << q.s, q.flags >> \in q.seen

\* "Whether lookup of path s will have infinite results": the answer is yes
\* exactly when a lookup can loop, whatever was called before on the object.
AnswerCorrect == \A a \in answer : a <=> (input_tape # Untokenizable /\ HasLoop)

\* "We try to trap non-progressing loops": no transition without input is
\* followed while the same one is being followed with the same flags at the
\* same position of the input.  find_loop has no other bound on its recursion.
LoopsTrapped ==
    \A j, k \in DOMAIN loop_stack :
      /\ j < k
      /\ loop_stack[j].stage = "after epsilon"
      /\ loop_stack[k].stage = "after epsilon"
      /\ loop_stack[j].pos = loop_stack[k].pos
      => EpsilonReachable(loop_stack[j]) # EpsilonReachable(loop_stack[k])

\* Between calls nothing is left of the path of an earlier one, also when it
\* ended by the exception in the middle of a path with flags set.
SearchLeavesNoTrace == loop_stack = << >> => LeavesNoTrace

\* After a search, a lookup with the same object still finds what it should.
LookupAfterSearch == loop_stack = << >> => ResultsSound /\ ResultsComplete

\* Every search returns.
SearchReturns == loop_stack # << >> ~> (loop_stack = << >> \/ pc = "undefined")

=============================================================================

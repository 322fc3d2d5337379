---------------------------- MODULE XfstCompiler ----------------------------
(***************************************************************************)
(* The session state of hfst-xfst: the stack of networks, the networks     *)
(* defined by name, the definitions that the regular expression compiler   *)
(* keeps for itself, and the two flags by which a failing command ends a   *)
(* script.                                                                 *)
(*                                                                         *)
(* stack_ and definitions_ hold pointers to HfstTransducer objects, and    *)
(* commands change and delete the objects in place, so the model has a     *)
(* heap.  What a network is and what an operation of the library makes of  *)
(* it are parameters; which object an operation reads, changes or deletes, *)
(* and in which order, is what is modelled.                                *)
(***************************************************************************)
EXTENDS Integers, Sequences, FiniteSets, SequencesExt

CONSTANTS
    Address,                  \* bound: the objects that can be alive together
    MaxStack,                 \* bound: the height of the stack
    Nets,                     \* what a network can be
    Literals,                 \* the networks that regular expressions spell out
    NameOrder,                \* the names of definitions, in the order of std::map
    SymbolNet(_),             \* a name that no definition has is a symbol
    UnaryOps, UnimplementedOps, BinaryOps, IteratedOps, ReplacingOps,
    ApplyUnary(_, _),         \* the library's operations on one network,
    ApplyBinary(_, _, _),     \* and on two
    NotAutomata(_, _),        \* cross_product throws
    FlagsNotIdentities(_, _), \* compose throws
    Freed,                    \* what is left of an object that was deleted
    Interactive               \* read_interactive_text_from_stdin_

Names == {NameOrder[i] : i \in DOMAIN NameOrder}

ASSUME XfstAssumption ==
    /\ MaxStack \in Nat
    /\ NameOrder \in Seq(STRING)
    /\ Literals \subseteq Nets
    /\ Freed \notin [net : Nets, optimized : BOOLEAN]
    /\ Interactive \in BOOLEAN
    /\ \A n \in Names : SymbolNet(n) \in Nets
    /\ \A op \in UnaryOps \cup ReplacingOps \cup {"SIGMA_NET", "SUBSTITUTE_SYMBOL"}, t \in Nets :
         ApplyUnary(op, t) \in Nets
    /\ \A op \in BinaryOps \cup IteratedOps \cup {"SUBSTITUTE_NAMED"}, t, u \in Nets :
         ApplyBinary(op, t, u) \in Nets

VARIABLES
    heap,          \* what is at an address: a network, or nothing any more
    stack_,        \* addresses, the top of the stack last
    definitions_,  \* name -> address
    xre_,          \* name -> network: the definitions of the XreCompiler
    lists_,        \* names of lists
    quit_on_fail,  \* variables_["quit-on-fail"] = "ON"
    fail_flag_,
    outcome,       \* how the session stands
    loop,          \* << operation, result >> inside apply_binary_operation_iteratively
    lent,          \* history: objects that were pushed by the name of a definition
    loaded         \* history: definitions that were read from a file

vars == << heap, stack_, definitions_, xre_, lists_, quit_on_fail, fail_flag_,
           outcome, loop, lent, loaded >>

defined == << definitions_, xre_, lists_, loaded >>
settings == << quit_on_fail, outcome >>

Object == [net : Nets, optimized : BOOLEAN]

TypeOK ==
    /\ heap \in [Address -> Object \cup {Freed}]
    /\ stack_ \in Seq(Address)
    /\ Len(stack_) <= MaxStack
    /\ DOMAIN definitions_ \subseteq Names
    /\ \A n \in DOMAIN definitions_ : definitions_[n] \in Address
    /\ DOMAIN xre_ \subseteq Names
    /\ \A n \in DOMAIN xre_ : xre_[n] \in Nets
    /\ lists_ \subseteq Names
    /\ quit_on_fail \in BOOLEAN
    /\ fail_flag_ \in BOOLEAN
    /\ outcome \in {"running", "quit", "aborted", "undefined"}
    /\ loop = << >> \/ loop \in IteratedOps \X Address
    /\ lent \subseteq Address
    /\ loaded \subseteq Names

-----------------------------------------------------------------------------
(* Objects and pointers *)

Live(p) == heap[p] # Freed
Top == stack_[Len(stack_)]
Second == stack_[Len(stack_) - 1]
Pop1 == SubSeq(stack_, 1, Len(stack_) - 1)
Pop2 == SubSeq(stack_, 1, Len(stack_) - 2)

Referenced(stack, defs, lp) ==
    {stack[i] : i \in DOMAIN stack} \cup {defs[n] : n \in DOMAIN defs}
       \cup {lp[i] : i \in DOMAIN lp \ {1}}

(* An object that nothing points to any more is leaked by the code, which  *)
(* never deletes a network it pops or redefines.  Its address is not       *)
(* needed again and the model forgets it.                                  *)
Store(h) ==
    LET kept == Referenced(stack_', definitions_', loop')
    IN  heap' = [p \in Address |-> IF p \in kept THEN h[p] ELSE Freed]

Lend(set) == lent' = set \cap Referenced(stack_', definitions_', loop')

(* new returns an address that is not alive: one that a dangling pointer   *)
(* still holds, or one that nothing refers to.                             *)
Malloc ==
    LET free == {p \in Address : ~Live(p)}
        dangling == free \cap Referenced(stack_, definitions_, loop)
    IN  dangling \cup (IF free = dangling THEN {} ELSE {CHOOSE p \in free \ dangling : TRUE})

New(net) == [net |-> net, optimized |-> FALSE]
Room(k) == Len(stack_) + k <= MaxStack
WithName(f, n, v) == [m \in DOMAIN f \cup {n} |-> IF m = n THEN v ELSE f[m]]
WithoutName(f, n) == [m \in DOMAIN f \ {n} |-> f[m]]

-----------------------------------------------------------------------------
(* How a command ends *)

Running ==
    /\ outcome = "running"
    /\ loop = << >>
    /\ fail_flag_ => Interactive /\ ~quit_on_fail

Done == UNCHANGED fail_flag_

xfst_fail == fail_flag_' = (fail_flag_ \/ quit_on_fail)
xfst_lesser_fail == fail_flag_' = (fail_flag_ \/ (quit_on_fail /\ ~Interactive))

Keep == UNCHANGED << heap, stack_, lent, loop >>

(* The process ends, or a freed object is read, changed or deleted and     *)
(* nothing is known of what the program does from here on.  What the       *)
(* memory held is of no interest any more.                                 *)
End(how) ==
    /\ outcome' = how
    /\ heap' = [p \in Address |-> Freed]
    /\ stack_' = << >>
    /\ definitions_' = << >>
    /\ xre_' = << >>
    /\ lists_' = {}
    /\ loaded' = {}
    /\ loop' = << >>
    /\ lent' = IF how = "undefined" THEN lent ELSE {}
    /\ UNCHANGED << quit_on_fail, fail_flag_ >>

Undefined == End("undefined")

(* An exception that no handler catches. *)
Aborted == End("aborted")

(* A command finds fault with the stack and leaves everything as it is:    *)
(* it is empty or too low, or its top is in the optimized lookup format or *)
(* not well formed for the operation.                                      *)
LesserFail ==
    /\ Running
    /\ stack_ # << >> => Live(Top)
    /\ xfst_lesser_fail
    /\ Keep /\ UNCHANGED << defined, settings >>

(* A regular expression, a file, a name or a label is not what the command *)
(* needs, or an assertion does not hold.                                   *)
Fail ==
    /\ Running
    /\ xfst_fail
    /\ Keep /\ UNCHANGED << defined, settings >>

(* GET_TOP *)
HasTop == Running /\ stack_ # << >> /\ Live(Top) /\ ~heap[Top].optimized

TopFreed == Running /\ stack_ # << >> /\ ~Live(Top) /\ Undefined

-----------------------------------------------------------------------------
(* Definitions *)

Regex == [net : Literals] \cup [name : Names]

compile(r) ==
    IF r \in [net : Literals] THEN r.net
    ELSE IF r.name \in DOMAIN xre_ THEN xre_[r.name] ELSE SymbolNet(r.name)

(* Bug: the network itself becomes the definition and is deleted when it is popped. *)
DefineTopWithoutCopy(n) ==
    /\ HasTop
    /\ xre_' = WithName(xre_, n, heap[Top].net)
    /\ stack_' = Pop1
    /\ definitions_' = WithName(definitions_, n, Top)
    /\ loop' = loop
    /\ Store([heap EXCEPT ![Top] = Freed])
    /\ Lend(lent)
    /\ loaded' = loaded \ {n}
    /\ Done /\ UNCHANGED << lists_, settings >>

(* Bug: the regular expression compiler gets the pointer for the network. *)
DefineTopPointer(n) ==
    /\ HasTop
    /\ \E p \in Malloc :
         /\ xre_' = WithName(xre_, n, Top)
         /\ stack_' = Pop1
         /\ definitions_' = WithName(definitions_, n, p)
         /\ loop' = loop
         /\ Store([heap EXCEPT ![p] = New(heap[Top].net)])
         /\ Lend(lent)
    /\ loaded' = loaded \ {n}
    /\ Done /\ UNCHANGED << lists_, settings >>

(* define <name>: the top of the stack, copied twice *)
DefineTop(n) ==
    /\ HasTop
    /\ \E p \in Malloc :
         /\ xre_' = WithName(xre_, n, heap[Top].net)
         /\ stack_' = Pop1
         /\ definitions_' = WithName(definitions_, n, p)
         /\ loop' = loop
         /\ Store([heap EXCEPT ![p] = New(heap[Top].net)])
         /\ Lend(lent)
    /\ loaded' = loaded \ {n}
    /\ Done /\ UNCHANGED << lists_, settings >>

(* Bug: the regular expression compiler is told of a name only once. *)
DefineRegexOnce(n, r) ==
    /\ Running
    /\ n \notin lists_
    /\ \E p \in Malloc :
         /\ xre_' = IF n \in DOMAIN xre_ THEN xre_ ELSE WithName(xre_, n, compile(r))
         /\ definitions_' = WithName(definitions_, n, p)
         /\ UNCHANGED << stack_, loop >>
         /\ Store([heap EXCEPT ![p] = New(compile(r))])
         /\ Lend(lent)
    /\ loaded' = loaded \ {n}
    /\ Done /\ UNCHANGED << lists_, settings >>

(* define <name> <regex>: compiled once for definitions_ and once for xre_ *)
DefineRegex(n, r) ==
    /\ Running
    /\ n \notin lists_
    /\ \E p \in Malloc :
         /\ xre_' = WithName(xre_, n, compile(r))
         /\ definitions_' = WithName(definitions_, n, p)
         /\ UNCHANGED << stack_, loop >>
         /\ Store([heap EXCEPT ![p] = New(compile(r))])
         /\ Lend(lent)
    /\ loaded' = loaded \ {n}
    /\ Done /\ UNCHANGED << lists_, settings >>

Undefine(n) ==
    /\ Running
    /\ n \in DOMAIN definitions_
    /\ definitions_' = WithoutName(definitions_, n)
    /\ xre_' = WithoutName(xre_, n)
    /\ UNCHANGED << stack_, loop >>
    /\ Store(heap) /\ Lend(lent)
    /\ loaded' = loaded \ {n}
    /\ Done /\ UNCHANGED << lists_, settings >>

(* list <name> <symbols> looks for a definition of the name, but           *)
(* list <name> <from>-<to> does not.                                       *)
DefineList(n, range) ==
    /\ Running
    /\ n \notin DOMAIN definitions_ \/ range
    /\ lists_' = lists_ \cup {n}
    /\ Done /\ Keep /\ UNCHANGED << definitions_, xre_, loaded, settings >>

Unlist(n) ==
    /\ Running
    /\ lists_' = lists_ \ {n}
    /\ Done /\ Keep /\ UNCHANGED << definitions_, xre_, loaded, settings >>

(* load defined, a file with one network *)
LoadDefinition(n, t) ==
    /\ Running
    /\ \E p \in Malloc :
         /\ definitions_' = WithName(definitions_, n, p)
         /\ UNCHANGED << stack_, loop >>
         /\ Store([heap EXCEPT ![p] = New(t)])
         /\ Lend(lent)
    /\ loaded' = loaded \cup {n}
    /\ Done /\ UNCHANGED << xre_, lists_, settings >>

-----------------------------------------------------------------------------
(* The stack *)

(* The commands that allocate one network and leave the definitions alone. *)
PushNew(rest, net, h) ==
    \E p \in Malloc :
       /\ stack_' = Append(rest, p)
       /\ UNCHANGED << defined, settings, loop >>
       /\ Store([h EXCEPT ![p] = New(net)])
       /\ Lend(lent)
       /\ Done

ReadRegex(r) == Running /\ Room(1) /\ PushNew(stack_, compile(r), heap)

LoadStack(t, optimized) ==
    /\ Running /\ Room(1)
    /\ \E p \in Malloc :
         /\ stack_' = Append(stack_, p)
         /\ UNCHANGED << defined, settings, loop >>
         /\ Store([heap EXCEPT ![p] = [net |-> t, optimized |-> optimized]])
         /\ Lend(lent)
    /\ Done

(* push <name> pushes the object of the definition itself. *)
PushName(n) ==
    /\ Running /\ Room(1)
    /\ n \in DOMAIN definitions_
    /\ stack_' = Append(stack_, definitions_[n])
    /\ UNCHANGED << heap, loop, defined, settings >>
    /\ Lend(lent \cup {definitions_[n]})
    /\ Done

(* The defined names in the order of std::map. *)
InNameOrder(D) ==
    {f \in [1 .. Cardinality(D) -> D] : \A i, j \in 1 .. Cardinality(D) :
       i < j => \E k, l \in DOMAIN NameOrder : k < l /\ NameOrder[k] = f[i] /\ NameOrder[l] = f[j]}

(* push pushes copies of all definitions. *)
PushAll ==
    LET D == DOMAIN definitions_
        free == {p \in Address : ~Live(p)}
    IN  /\ Running /\ D # {} /\ Room(Cardinality(D))
        /\ \/ /\ \E n \in D : ~Live(definitions_[n])
              /\ Undefined
           \/ /\ \A n \in D : Live(definitions_[n])
              /\ \E all \in InNameOrder(D), q \in [1 .. Cardinality(D) -> free] :
                   /\ \A i, j \in DOMAIN q : i # j => q[i] # q[j]
                   /\ stack_' = stack_ \o q
                   /\ UNCHANGED << defined, settings, loop >>
                   /\ Store([p \in Address |->
                        IF \E i \in DOMAIN q : q[i] = p
                        THEN heap[definitions_[all[CHOOSE i \in DOMAIN q : q[i] = p]]]
                        ELSE heap[p]])
                   /\ Lend(lent)
                   /\ Done

NewStack(s) ==
    /\ stack_' = s
    /\ UNCHANGED << defined, settings, loop >>
    /\ Store(heap) /\ Lend(lent)
    /\ Done

pop == Running /\ stack_ # << >> /\ NewStack(Pop1)
clear == Running /\ NewStack(<< >>)
turn == Running /\ NewStack(Reverse(stack_))
rotate == Running /\ stack_ # << >> /\ NewStack(Reverse(stack_))

-----------------------------------------------------------------------------
(* Operations on the networks of the stack *)

(* apply_unary_operation and the commands that change the top in place *)
UnaryOperation(op) ==
    /\ HasTop
    /\ heap' = [heap EXCEPT ![Top].net = ApplyUnary(op, @)]
    /\ Done /\ UNCHANGED << stack_, loop, lent, defined, settings >>

UnaryNotImplemented(op) ==
    /\ HasTop
    /\ xfst_fail
    /\ stack_' = Append(Pop1, Top)
    /\ UNCHANGED << heap, loop, lent, defined, settings >>

(* complete_net, label_net, compile_replace_net, negate_net: a new network *)
(* is made, the top is popped and deleted                                  *)
ReplaceTop(op) ==
    /\ HasTop
    /\ PushNew(Pop1, ApplyUnary(op, heap[Top].net), [heap EXCEPT ![Top] = Freed])

(* negate_net does not ask for the format of the top. *)
NegateAborts == Running /\ stack_ # << >> /\ Live(Top) /\ heap[Top].optimized /\ Aborted

sigma_net ==
    /\ HasTop /\ Room(1)
    /\ PushNew(stack_, ApplyUnary("SIGMA_NET", heap[Top].net), heap)

(* substitute_symbol pops the top and compiles a substitution in its place *)
substitute_symbol ==
    /\ HasTop
    /\ PushNew(Pop1, ApplyUnary("SUBSTITUTE_SYMBOL", heap[Top].net), heap)

SubstituteSymbolFails ==
    /\ HasTop
    /\ stack_' = Pop1
    /\ fail_flag_' = TRUE
    /\ UNCHANGED << defined, settings, loop >>
    /\ Store(heap) /\ Lend(lent)

substitute_named(n) ==
    /\ HasTop
    /\ n \in DOMAIN definitions_
    /\ LET d == definitions_[n]
       IN  \/ ~Live(d) /\ Undefined
           \/ Live(d) /\ heap[d].optimized /\ Aborted
           \/ /\ Live(d) /\ ~heap[d].optimized
              /\ heap' = [heap EXCEPT ![Top].net = ApplyBinary("SUBSTITUTE_NAMED", @, heap[d].net)]
              /\ Done /\ UNCHANGED << stack_, loop, lent, defined, settings >>

(* Bug: the operands are pushed back in the order in which they were popped. *)
PushedBackSwapped(result, another) == << result, another >>

PushedBack(result, another) == << another, result >>

BinaryOperation(op) ==
    /\ Running
    /\ Len(stack_) >= 2
    /\ LET result == Top
           another == Second
           ready == /\ Live(result) /\ ~heap[result].optimized
                    /\ Live(another) /\ ~heap[another].optimized
           throws == op = "CROSSPRODUCT_NET" /\ NotAutomata(heap[result].net, heap[another].net)
       IN  \/ ~(Live(result) /\ Live(another)) /\ Undefined
           \/ Live(result) /\ Live(another) /\ ~ready /\ Aborted
           \/ /\ ready /\ throws
              /\ xfst_fail
              /\ stack_' = Pop2 \o PushedBack(result, another)
              /\ UNCHANGED << heap, loop, lent, defined, settings >>
           \/ /\ ready /\ ~throws
              /\ stack_' = Append(Pop2, result)
              /\ UNCHANGED << defined, settings, loop >>
              /\ Store([[heap EXCEPT ![result].net = ApplyBinary(op, @, heap[another].net)]
                           EXCEPT ![another] = Freed])
              /\ Lend(lent)
              /\ Done

(* apply_binary_operation_iteratively: result is popped; every network     *)
(* below it is combined with it and deleted; result is pushed.             *)
IterateFirst(op) ==
    /\ Running
    /\ Len(stack_) >= 2
    /\ loop' = << op, Top >>
    /\ stack_' = Pop1
    /\ UNCHANGED << heap, lent, fail_flag_, defined, settings >>

LoopResult == loop[2]

LoopReady ==
    /\ outcome = "running"
    /\ loop # << >> /\ stack_ # << >>
    /\ Live(LoopResult) /\ Live(Top)

(* Bug: the network below the result is combined with it and left there. *)
IterateNextStays ==
    /\ LoopReady
    /\ heap' = [heap EXCEPT ![LoopResult].net = ApplyBinary(loop[1], @, heap[Top].net)]
    /\ UNCHANGED << stack_, loop, lent, fail_flag_, defined, settings >>

IterateNext ==
    LET op == loop[1]
        throws == op = "COMPOSE_NET" /\ FlagsNotIdentities(heap[LoopResult].net, heap[Top].net)
    IN  /\ LoopReady
        /\ ~heap[LoopResult].optimized /\ ~heap[Top].optimized
        /\ \/ /\ ~throws
              /\ stack_' = Pop1
              /\ UNCHANGED << loop, definitions_, fail_flag_ >>
              /\ Store([[heap EXCEPT ![LoopResult].net = ApplyBinary(op, @, heap[Top].net)]
                           EXCEPT ![Top] = Freed])
           \/ /\ throws
              /\ xfst_lesser_fail
              /\ loop' = << >>
              /\ UNCHANGED << stack_, definitions_ >>
              /\ Store(heap)
        /\ Lend(lent)
        /\ UNCHANGED << xre_, lists_, loaded, settings >>

(* The types differ: the loop is left with what there is so far.  The      *)
(* minimisation that follows throws for the optimized lookup format, as    *)
(* does the operation itself when both are in it.                          *)
IterateTypesDiffer ==
    /\ LoopReady
    /\ heap[LoopResult].optimized \/ heap[Top].optimized
    /\ \/ heap[LoopResult].optimized /\ Aborted
       \/ /\ ~heap[LoopResult].optimized
          /\ xfst_lesser_fail
          /\ stack_' = Append(stack_, LoopResult)
          /\ loop' = << >>
          /\ UNCHANGED << heap, lent, defined, settings >>

IterateFreed ==
    /\ outcome = "running"
    /\ loop # << >>
    /\ ~Live(LoopResult) \/ (stack_ # << >> /\ ~Live(Top))
    /\ Undefined

IterateLast ==
    /\ outcome = "running"
    /\ loop # << >> /\ stack_ = << >>
    /\ Live(LoopResult)
    /\ stack_' = << LoopResult >>
    /\ loop' = << >>
    /\ Done /\ UNCHANGED << heap, lent, defined, settings >>

(* lookup_optimize and remove_optimization look at the top and convert     *)
(* every network of the stack.                                             *)
Convert(optimized) ==
    /\ Running
    /\ stack_ # << >> /\ Live(Top)
    /\ heap[Top].optimized # optimized
    /\ \/ (\E i \in DOMAIN stack_ : ~Live(stack_[i])) /\ Undefined
       \/ /\ \A i \in DOMAIN stack_ : Live(stack_[i])
          /\ heap' = [p \in Address |->
                IF \E i \in DOMAIN stack_ : stack_[i] = p
                THEN [heap[p] EXCEPT !.optimized = optimized] ELSE heap[p]]
          /\ Done /\ UNCHANGED << stack_, loop, lent, defined, settings >>

-----------------------------------------------------------------------------
(* The session *)

SetQuitOnFail(on) ==
    /\ Running
    /\ quit_on_fail' = on
    /\ Done /\ Keep /\ UNCHANGED << defined, outcome >>

quit == Running /\ End("quit")

Init ==
    /\ heap = [p \in Address |-> Freed]
    /\ stack_ = << >>
    /\ definitions_ = << >>
    /\ xre_ = << >>
    /\ lists_ = {}
    /\ quit_on_fail = FALSE
    /\ fail_flag_ = FALSE
    /\ outcome = "running"
    /\ loop = << >>
    /\ lent = {}
    /\ loaded = {}

DefinitionCommand ==
    \E n \in Names :
       \/ DefineTop(n)
       \/ \E r \in Regex : DefineRegex(n, r)
       \/ Undefine(n)
       \/ \E range \in BOOLEAN : DefineList(n, range)
       \/ Unlist(n)
       \/ \E t \in Literals : LoadDefinition(n, t)

StackCommand ==
    \/ \E r \in Regex : ReadRegex(r)
    \/ \E t \in Literals, optimized \in BOOLEAN : LoadStack(t, optimized)
    \/ \E n \in Names : PushName(n)
    \/ PushAll
    \/ pop \/ clear \/ turn \/ rotate

NetCommand ==
    \/ \E op \in UnaryOps : UnaryOperation(op)
    \/ \E op \in UnimplementedOps : UnaryNotImplemented(op)
    \/ \E op \in ReplacingOps : ReplaceTop(op)
    \/ NegateAborts
    \/ sigma_net
    \/ substitute_symbol
    \/ SubstituteSymbolFails
    \/ \E n \in Names : substitute_named(n)
    \/ \E op \in BinaryOps : BinaryOperation(op)
    \/ \E op \in IteratedOps : IterateFirst(op)
    \/ \E optimized \in BOOLEAN : Convert(optimized)

Loop == IterateNext \/ IterateTypesDiffer \/ IterateFreed \/ IterateLast

Next ==
    \/ DefinitionCommand
    \/ StackCommand
    \/ NetCommand
    \/ Loop
    \/ LesserFail \/ Fail \/ TopFreed
    \/ \E on \in BOOLEAN : SetQuitOnFail(on)
    \/ quit

(* Between two commands a session may stop for good; a command that has    *)
(* begun runs on, since nobody is waited for inside it.                    *)
Spec == Init /\ [][Next]_vars /\ WF_vars(Loop)

-----------------------------------------------------------------------------
(* Properties *)

(* A defined network is the one that regular expressions mean by its name: *)
(* definitions_ and the compiler's own copies are changed by the same      *)
(* commands.  Left out are the definitions whose object was pushed by      *)
(* name, and those that were loaded from a file.                           *)
DefinitionsAgree ==
    \A n \in DOMAIN definitions_ :
       definitions_[n] \notin lent /\ n \notin loaded =>
          n \in DOMAIN xre_ /\ heap[definitions_[n]] = New(xre_[n])

(* An object that was never pushed by name is alive and has one owner, a   *)
(* place on the stack, a definition or the running loop: no command        *)
(* deletes what another place still points to, and a freed object is       *)
(* touched only in a session that pushed a definition by name.             *)
OneOwner ==
  /\ outcome = "undefined" => lent # {}
  /\ \A p \in Referenced(stack_, definitions_, loop) \ lent :
       /\ Live(p)
       /\ \A i, j \in DOMAIN stack_ : stack_[i] = p /\ stack_[j] = p => i = j
       /\ \A m, n \in DOMAIN definitions_ : definitions_[m] = p /\ definitions_[n] = p => m = n
       /\ \A i \in DOMAIN stack_, n \in DOMAIN definitions_ : stack_[i] = p => definitions_[n] # p
       /\ loop # << >> /\ LoopResult = p =>
             /\ \A i \in DOMAIN stack_ : stack_[i] # p
             /\ \A n \in DOMAIN definitions_ : definitions_[n] # p

(* A command that ends a script by its failure leaves the stack as it      *)
(* found it, the networks on it included; only a failed substitution loses *)
(* the top.                                                                *)
Contents == << stack_, [i \in DOMAIN stack_ |-> heap[stack_[i]]] >>

ErrorsKeepStack ==
    [][fail_flag_' /\ ~fail_flag_ /\ loop = << >> =>
          Contents' = Contents \/ SubstituteSymbolFails]_vars

(* An operation on all networks of the stack comes to an end. *)
CommandEnds == loop # << >> ~> loop = << >> \/ outcome # "running"
=============================================================================

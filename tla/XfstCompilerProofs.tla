------------------------- MODULE XfstCompilerProofs -------------------------
(***************************************************************************)
(* Proofs about the session of hfst-xfst, for every number of objects,     *)
(* names and networks and every height of the stack.                       *)
(***************************************************************************)
EXTENDS XfstCompiler, SequenceTheorems, FiniteSetTheorems, TLAPS

\* The inductive invariant.  The result of a loop has a place of its own on
\* the stack left for it; ownership keeps definitions apart from the objects
\* that commands change in place.
SessionInv ==
    /\ TypeOK
    /\ OneOwner
    /\ DefinitionsAgree
    /\ loop # << >> => Len(stack_) < MaxStack

-----------------------------------------------------------------------------
(* Stacks. *)

LEMMA PopType ==
    ASSUME stack_ \in Seq(Address), stack_ # << >>
    PROVE  /\ Len(stack_) \in Nat \ {0}
           /\ Top \in Address
           /\ Pop1 \in Seq(Address)
           /\ Len(Pop1) = Len(stack_) - 1
           /\ \A i \in 1 .. Len(stack_) - 1 : Pop1[i] = stack_[i]
  <1>1. Len(stack_) \in Nat \ {0}
    OBVIOUS
  <1>2. Len(stack_) - 1 \in 0 .. Len(stack_)
    BY <1>1
  <1>3. Pop1 = [i \in 1 .. Len(stack_) - 1 |-> stack_[i]]
    BY <1>1 DEF Pop1
  <1>4. \A i \in 1 .. Len(stack_) - 1 : stack_[i] \in Address
    BY <1>1
  <1>5. Pop1 \in Seq(Address) /\ Len(Pop1) = Len(stack_) - 1
    BY <1>1, <1>3, <1>4, IsASeq
  <1>6. Top \in Address
    BY <1>1 DEF Top
  <1> QED
    BY <1>1, <1>3, <1>5, <1>6

LEMMA PopTwiceType ==
    ASSUME stack_ \in Seq(Address), Len(stack_) >= 2
    PROVE  /\ Len(stack_) \in Nat
           /\ Top \in Address /\ Second \in Address
           /\ Pop2 \in Seq(Address)
           /\ Len(Pop2) = Len(stack_) - 2
           /\ \A i \in 1 .. Len(stack_) - 2 : Pop2[i] = stack_[i]
  <1>1. Len(stack_) \in Nat /\ Len(stack_) - 2 \in Nat
    OBVIOUS
  <1>3. Pop2 = [i \in 1 .. Len(stack_) - 2 |-> stack_[i]]
    BY <1>1 DEF Pop2
  <1>4. \A i \in 1 .. Len(stack_) - 2 : stack_[i] \in Address
    BY <1>1
  <1>5. Pop2 \in Seq(Address) /\ Len(Pop2) = Len(stack_) - 2
    BY <1>1, <1>3, <1>4, IsASeq
  <1>6. Top \in Address /\ Second \in Address
    BY <1>1 DEF Top, Second
  <1> QED
    BY <1>1, <1>3, <1>5, <1>6

(* turn and rotate reverse the stack. *)
LEMMA ReverseType ==
    ASSUME NEW S, NEW s \in Seq(S)
    PROVE  /\ Reverse(s) \in Seq(S)
           /\ Len(Reverse(s)) = Len(s)
           /\ \A i \in 1 .. Len(s) : Reverse(s)[i] = s[Len(s) + 1 - i]
  BY DEF Reverse

-----------------------------------------------------------------------------
(* Memory. *)

(* new returns an address at which nothing is alive. *)
LEMMA MallocFree ==
    ASSUME NEW p \in Malloc
    PROVE  p \in Address /\ ~Live(p)
  BY DEF Malloc

LEMMA LiveType ==
    ASSUME TypeOK, NEW p \in Address, Live(p)
    PROVE  heap[p] \in Object /\ heap[p].net \in Nets /\ heap[p].optimized \in BOOLEAN
  BY DEF TypeOK, Live, Object

LEMMA NewType ==
    ASSUME NEW net \in Nets
    PROVE  New(net) \in Object
  BY DEF New, Object

LEMMA ObjectNotFreed == \A o \in Object : o # Freed
  BY XfstAssumption DEF Object

(* A regular expression is compiled into a network. *)
LEMMA CompileType ==
    ASSUME TypeOK, NEW r \in Regex
    PROVE  compile(r) \in Nets
  <1>1. CASE r \in [net : Literals]
    BY <1>1, XfstAssumption DEF compile
  <1>2. CASE r \notin [net : Literals]
    BY <1>2, XfstAssumption DEF compile, Regex, TypeOK
  <1> QED
    BY <1>1, <1>2

(* Everything that is pointed to is in the heap. *)
LEMMA ReferencedType ==
    ASSUME TypeOK
    PROVE  Referenced(stack_, definitions_, loop) \subseteq Address
  <1>1. \A i \in DOMAIN stack_ : stack_[i] \in Address
    BY DEF TypeOK
  <1>2. \A i \in DOMAIN loop \ {1} : loop[i] \in Address
    BY DEF TypeOK
  <1> QED
    BY <1>1, <1>2 DEF TypeOK, Referenced

(* A pointer to a deleted object was pushed by name. *)
LEMMA DanglingIsLent ==
    ASSUME OneOwner, NEW p \in Referenced(stack_, definitions_, loop), ~Live(p)
    PROVE  p \in lent
  BY DEF OneOwner

LEMMA StoreType ==
    ASSUME NEW h \in [Address -> Object \cup {Freed}], Store(h)
    PROVE  /\ heap' \in [Address -> Object \cup {Freed}]
           /\ \A p \in Address \cap Referenced(stack_', definitions_', loop') : heap'[p] = h[p]
  BY DEF Store

-----------------------------------------------------------------------------
(* Where the places of the next state come from: a position of the stack    *)
(* outside N was position m[i], a definition outside M is an old one; new   *)
(* positions and new definitions hold different addresses of F, at which    *)
(* nothing was alive.                                                       *)
Moved(F, N, M, m) ==
    /\ \A p \in F : ~Live(p)
    /\ \A i \in DOMAIN stack_' \ N : m[i] \in DOMAIN stack_ /\ stack_'[i] = stack_[m[i]]
    /\ \A i, j \in DOMAIN stack_' \ N : m[i] = m[j] => i = j
    /\ \A i \in DOMAIN stack_' \cap N : stack_'[i] \in F
    /\ \A i, j \in DOMAIN stack_' \cap N : stack_'[i] = stack_'[j] => i = j
    /\ \A n \in DOMAIN definitions_' \ M :
         n \in DOMAIN definitions_ /\ definitions_'[n] = definitions_[n]
    /\ \A n \in DOMAIN definitions_' \cap M : definitions_'[n] \in F
    /\ \A n, o \in DOMAIN definitions_' \cap M : definitions_'[n] = definitions_'[o] => n = o
    /\ \A i \in DOMAIN stack_' \cap N, n \in DOMAIN definitions_' \cap M :
         stack_'[i] # definitions_'[n]
    /\ loop' = loop \/ loop' = << >>

(* Moving objects that way leaves each with one owner. *)
LEMMA OwnersKept ==
    ASSUME TypeOK, OneOwner,
           NEW F, NEW N, NEW M, NEW m, Moved(F, N, M, m),
           lent \cap Referenced(stack_', definitions_', loop') \subseteq lent',
           \A p \in Referenced(stack_', definitions_', loop') \ lent' : Live(p)',
           outcome' # "undefined"
    PROVE  OneOwner'
  <1> DEFINE Ref == Referenced(stack_, definitions_, loop)
             NewRef == Referenced(stack_', definitions_', loop')
  <1>1. \A i \in DOMAIN stack_ : stack_[i] \in Ref
    BY DEF Referenced
  <1>2. \A n \in DOMAIN definitions_ : definitions_[n] \in Ref
    BY DEF Referenced
  <1>3. SUFFICES ASSUME NEW p \in NewRef \ lent'
                 PROVE  /\ \A i, j \in DOMAIN stack_' : stack_'[i] = p /\ stack_'[j] = p => i = j
                        /\ \A k, n \in DOMAIN definitions_' :
                             definitions_'[k] = p /\ definitions_'[n] = p => k = n
                        /\ \A i \in DOMAIN stack_', n \in DOMAIN definitions_' :
                             stack_'[i] = p => definitions_'[n] # p
                        /\ loop' # << >> /\ LoopResult' = p =>
                             /\ \A i \in DOMAIN stack_' : stack_'[i] # p
                             /\ \A n \in DOMAIN definitions_' : definitions_'[n] # p
    BY DEF OneOwner
  <1>4. p \notin lent
    BY <1>3
  <1>5. loop' # << >> => loop' = loop /\ LoopResult' = LoopResult
    BY DEF LoopResult, Moved
  <1>6. loop # << >> => LoopResult \in Ref
    BY DEF TypeOK, LoopResult, Referenced
  <1>7. CASE p \in F
    <2>1. p \notin Ref
      BY <1>4, <1>7, DanglingIsLent DEF Moved
    <2>2. \A i \in DOMAIN stack_' : stack_'[i] = p => i \in N
      BY <2>1, <1>1 DEF Moved
    <2>3. \A n \in DOMAIN definitions_' : definitions_'[n] = p => n \in M
      BY <2>1, <1>2 DEF Moved
    <2> QED
      BY <2>1, <2>2, <2>3, <1>5, <1>6 DEF Moved
  <1>8. CASE p \notin F
    <2>1. \A i \in DOMAIN stack_' : stack_'[i] = p => i \notin N
      BY <1>8 DEF Moved
    <2>2. \A n \in DOMAIN definitions_' : definitions_'[n] = p => n \notin M
      BY <1>8 DEF Moved
    <2> QED
      BY <2>1, <2>2, <1>1, <1>2, <1>4, <1>5 DEF OneOwner, Moved
  <1> QED
    BY <1>7, <1>8

(* Definitions.  A name outside M keeps its object and what regular         *)
(* expressions mean by it; its object, unless it is lent, is not touched.   *)
LEMMA DefinitionsKept ==
    ASSUME DefinitionsAgree,
           NEW M,
           \A n \in DOMAIN definitions_' \ M :
              /\ n \in DOMAIN definitions_ /\ definitions_'[n] = definitions_[n]
              /\ n \in loaded => n \in loaded'
              /\ n \in DOMAIN xre_ => n \in DOMAIN xre_' /\ xre_'[n] = xre_[n]
              /\ definitions_[n] \notin lent => heap'[definitions_[n]] = heap[definitions_[n]],
           lent \cap Referenced(stack_', definitions_', loop') \subseteq lent',
           \A n \in DOMAIN definitions_' \cap M :
              n \in loaded' \/ (n \in DOMAIN xre_' /\ heap'[definitions_'[n]] = New(xre_'[n]))
    PROVE  DefinitionsAgree'
  <1> SUFFICES ASSUME NEW n \in DOMAIN definitions_',
                      definitions_'[n] \notin lent', n \notin loaded'
               PROVE  n \in DOMAIN xre_' /\ heap'[definitions_'[n]] = New(xre_'[n])
    BY DEF DefinitionsAgree, New
  <1>1. CASE n \in M
    BY <1>1
  <1>2. CASE n \notin M
    <2>1. definitions_'[n] \notin lent
      BY DEF Referenced
    <2> QED
      BY <1>2, <2>1 DEF DefinitionsAgree
  <1> QED
    BY <1>1, <1>2

-----------------------------------------------------------------------------
(* Commands that end the session. *)
LEMMA EndStep ==
    ASSUME SessionInv, NEW how \in {"quit", "aborted", "undefined"},
           how = "undefined" => lent # {},
           End(how)
    PROVE  SessionInv'
  <1> USE DEF SessionInv, End
  <1>1. TypeOK'
    BY XfstAssumption, EmptySeq DEF TypeOK
  <1>2. OneOwner'
    BY DEF OneOwner, Referenced
  <1>3. DefinitionsAgree'
    BY DEF DefinitionsAgree
  <1> QED
    BY <1>1, <1>2, <1>3

(* Commands that leave networks and definitions alone, failing ones among   *)
(* them.                                                                    *)
LEMMA QuietStep ==
    ASSUME SessionInv,
           UNCHANGED << heap, stack_, definitions_, xre_, loop, lent, loaded, outcome >>,
           lists_' \subseteq Names, quit_on_fail' \in BOOLEAN, fail_flag_' \in BOOLEAN
    PROVE  SessionInv'
  <1>1. TypeOK'
    BY DEF SessionInv, TypeOK
  <1>2. OneOwner'
    BY DEF SessionInv, OneOwner, Referenced, Live, LoopResult
  <1>3. DefinitionsAgree'
    BY DEF SessionInv, DefinitionsAgree, New
  <1> QED
    BY <1>1, <1>2, <1>3 DEF SessionInv

(* Commands that change networks of the stack in place.  A definition has    *)
(* its object for itself unless the object was pushed by name.              *)
LEMMA InPlaceStep ==
    ASSUME SessionInv,
           UNCHANGED << stack_, definitions_, xre_, lists_, quit_on_fail, fail_flag_,
                        outcome, loop, lent, loaded >>,
           heap' \in [Address -> Object \cup {Freed}],
           \A p \in Address : Live(p) => heap'[p] # Freed,
           \A p \in Address : (\A i \in DOMAIN stack_ : stack_[i] # p) => heap'[p] = heap[p]
    PROVE  SessionInv'
  <1>1. TypeOK'
    BY DEF SessionInv, TypeOK
  <1>2. \A p \in Referenced(stack_, definitions_, loop) : Live(p) => Live(p)'
    BY ReferencedType DEF SessionInv, Live
  <1>3. OneOwner'
    BY <1>2 DEF SessionInv, OneOwner, Referenced, LoopResult
  <1>4. ASSUME NEW n \in DOMAIN definitions_, definitions_[n] \notin lent
        PROVE  heap'[definitions_[n]] = heap[definitions_[n]]
    <2>1. definitions_[n] \in Referenced(stack_, definitions_, loop)
      BY DEF Referenced
    <2>2. \A i \in DOMAIN stack_ : stack_[i] # definitions_[n]
      BY <1>4, <2>1 DEF SessionInv, OneOwner
    <2> QED
      BY <2>2 DEF SessionInv, TypeOK
  <1>5. DefinitionsAgree'
    BY <1>4 DEF SessionInv, DefinitionsAgree, New
  <1> QED
    BY <1>1, <1>3, <1>5 DEF SessionInv

(* Commands that allocate, delete and move objects; h is the memory they    *)
(* leave.                                                                   *)
LEMMA StoreStep ==
    ASSUME SessionInv, outcome = "running", UNCHANGED << outcome, lists_, quit_on_fail >>,
           fail_flag_' \in BOOLEAN,
           NEW h \in [Address -> Object \cup {Freed}], Store(h), Lend(lent),
           loop' # << >> => Len(stack_') < MaxStack,
           stack_' \in Seq(Address), Len(stack_') <= MaxStack,
           DOMAIN definitions_' \subseteq Names,
           \A n \in DOMAIN definitions_' : definitions_'[n] \in Address,
           DOMAIN xre_' \subseteq Names,
           \A n \in DOMAIN xre_' : xre_'[n] \in Nets,
           loaded' \subseteq Names,
           NEW F, NEW N, NEW M, NEW m, Moved(F, N, M, m),
           \A p \in Referenced(stack_', definitions_', loop') \ lent : h[p] # Freed,
           \A n \in DOMAIN definitions_' \ M :
              /\ n \in loaded => n \in loaded'
              /\ n \in DOMAIN xre_ => n \in DOMAIN xre_' /\ xre_'[n] = xre_[n]
              /\ definitions_[n] \notin lent => h[definitions_[n]] = heap[definitions_[n]],
           \A n \in DOMAIN definitions_' \cap M :
              n \in loaded' \/ (n \in DOMAIN xre_' /\ h[definitions_'[n]] = New(xre_'[n]))
    PROVE  SessionInv'
  <1> DEFINE NewRef == Referenced(stack_', definitions_', loop')
  <1>1. heap' \in [Address -> Object \cup {Freed}] /\ \A p \in Address \cap NewRef : heap'[p] = h[p]
    BY StoreType
  <1>2. loop' = << >> \/ loop' \in IteratedOps \X Address
    BY DEF SessionInv, TypeOK, Moved
  <1>3. lent' = lent \cap NewRef /\ lent' \subseteq Address
    BY DEF Lend, SessionInv, TypeOK
  <1>4. TypeOK'
    BY <1>1, <1>2, <1>3 DEF SessionInv, TypeOK
  <1>5. NewRef \subseteq Address
    <2>1. \A i \in DOMAIN stack_' : stack_'[i] \in Address
      OBVIOUS
    <2>2. \A i \in DOMAIN loop' \ {1} : loop'[i] \in Address
      BY <1>2
    <2> QED
      BY <2>1, <2>2 DEF Referenced
  <1>6. \A p \in NewRef \ lent' : Live(p)'
    BY <1>1, <1>3, <1>5 DEF Live
  <1>7. TypeOK /\ OneOwner /\ DefinitionsAgree
    BY DEF SessionInv
  <1>8. OneOwner'
    <2>1. outcome' # "undefined" /\ lent \cap NewRef \subseteq lent'
      BY <1>3
    <2> QED
      BY <1>6, <1>7, <2>1, OwnersKept
  <1>9. \A n \in DOMAIN definitions_' : heap'[definitions_'[n]] = h[definitions_'[n]]
    BY <1>1 DEF Referenced
  <1>10. DefinitionsAgree'
    <2>1. \A n \in DOMAIN definitions_' \ M :
              /\ n \in DOMAIN definitions_ /\ definitions_'[n] = definitions_[n]
              /\ n \in loaded => n \in loaded'
              /\ n \in DOMAIN xre_ => n \in DOMAIN xre_' /\ xre_'[n] = xre_[n]
              /\ definitions_[n] \notin lent => heap'[definitions_[n]] = heap[definitions_[n]]
      BY <1>9 DEF Moved
    <2>2. lent \cap NewRef \subseteq lent'
      BY <1>3
    <2>3. \A n \in DOMAIN definitions_' \cap M :
              n \in loaded' \/ (n \in DOMAIN xre_' /\ heap'[definitions_'[n]] = New(xre_'[n]))
      BY <1>9
    <2> QED
      BY <1>7, <2>1, <2>2, <2>3, DefinitionsKept
  <1> QED
    BY <1>4, <1>8, <1>10 DEF SessionInv

-----------------------------------------------------------------------------
(* Ends of the session. *)

(* Only what was pushed by name is ever found deleted. *)
LEMMA FoundFreed ==
    ASSUME SessionInv, NEW p \in Referenced(stack_, definitions_, loop), ~Live(p), Undefined
    PROVE  SessionInv'
  <1>1. lent # {}
    BY DanglingIsLent DEF SessionInv
  <1> QED
    BY <1>1, EndStep DEF Undefined

LEMMA Places ==
    ASSUME SessionInv
    PROVE  /\ \A i \in DOMAIN stack_ : stack_[i] \in Referenced(stack_, definitions_, loop)
           /\ \A n \in DOMAIN definitions_ : definitions_[n] \in Referenced(stack_, definitions_, loop)
           /\ loop # << >> => LoopResult \in Referenced(stack_, definitions_, loop)
           /\ stack_ # << >> => Top \in Referenced(stack_, definitions_, loop)
           /\ Len(stack_) >= 2 => Second \in Referenced(stack_, definitions_, loop)
  <1>1. /\ \A i \in DOMAIN stack_ : stack_[i] \in Referenced(stack_, definitions_, loop)
        /\ \A n \in DOMAIN definitions_ : definitions_[n] \in Referenced(stack_, definitions_, loop)
    BY DEF Referenced
  <1>2. loop # << >> => LoopResult \in Referenced(stack_, definitions_, loop)
    BY DEF SessionInv, TypeOK, LoopResult, Referenced
  <1>3. stack_ \in Seq(Address)
    BY DEF SessionInv, TypeOK
  <1>4. stack_ # << >> => Len(stack_) \in DOMAIN stack_
    BY <1>3
  <1>5. Len(stack_) >= 2 => Len(stack_) - 1 \in DOMAIN stack_
    BY <1>3
  <1> QED
    BY <1>1, <1>2, <1>4, <1>5 DEF Top, Second

LEMMA EndActions ==
    ASSUME SessionInv, TopFreed \/ NegateAborts \/ quit \/ IterateFreed
    PROVE  SessionInv'
  <1>1. CASE TopFreed
    BY <1>1, Places, FoundFreed DEF TopFreed
  <1>2. CASE NegateAborts
    BY <1>2, EndStep DEF NegateAborts, Aborted
  <1>3. CASE quit
    BY <1>3, EndStep DEF quit
  <1>4. CASE IterateFreed
    BY <1>4, Places, FoundFreed DEF IterateFreed
  <1> QED
    BY <1>1, <1>2, <1>3, <1>4

-----------------------------------------------------------------------------
(* Commands that leave networks and definitions alone. *)

LEMMA FailTypes ==
    ASSUME SessionInv
    PROVE  /\ Done => fail_flag_' \in BOOLEAN
           /\ xfst_fail => fail_flag_' \in BOOLEAN
           /\ xfst_lesser_fail => fail_flag_' \in BOOLEAN
           /\ lists_ \subseteq Names
           /\ quit_on_fail \in BOOLEAN
  BY XfstAssumption DEF SessionInv, TypeOK, Done, xfst_fail, xfst_lesser_fail

(* The networks popped by a failing operation are pushed back in order. *)
LEMMA PushedBackIsStack ==
    ASSUME stack_ \in Seq(Address)
    PROVE  /\ stack_ # << >> => Append(Pop1, Top) = stack_
           /\ Len(stack_) >= 2 => Pop2 \o PushedBack(Top, Second) = stack_
  <1>1. ASSUME stack_ # << >>
        PROVE  Append(Pop1, Top) = stack_
    <2>1. Append(Pop1, Top) \in Seq(Address) /\ Len(Append(Pop1, Top)) = Len(stack_)
      BY <1>1, PopType
    <2>2. \A i \in 1 .. Len(stack_) : Append(Pop1, Top)[i] = stack_[i]
      BY <1>1, PopType DEF Top
    <2> QED
      BY <2>1, <2>2, SeqEqual
  <1>2. ASSUME Len(stack_) >= 2
        PROVE  Pop2 \o PushedBack(Top, Second) = stack_
    <2> DEFINE back == << Second, Top >>
    <2>1. /\ Len(stack_) \in Nat /\ back \in Seq(Address) /\ Len(back) = 2
          /\ Pop2 \in Seq(Address) /\ Len(Pop2) = Len(stack_) - 2
          /\ \A i \in 1 .. Len(stack_) - 2 : Pop2[i] = stack_[i]
      BY <1>2, PopTwiceType
    <2>2. Pop2 \o back \in Seq(Address) /\ Len(Pop2 \o back) = Len(stack_)
      BY <1>2, <2>1
    <2>3. ASSUME NEW i \in 1 .. Len(stack_)
          PROVE  (Pop2 \o back)[i] = stack_[i]
      <3>1. CASE i <= Len(stack_) - 2
        <4>1. i \in 1 .. Len(Pop2)
          BY <2>1, <3>1
        <4> QED
          BY <2>1, <4>1
      <3>2. CASE i = Len(stack_) - 1
        <4>1. i - Len(Pop2) = 1 /\ i \in Len(Pop2) + 1 .. Len(Pop2) + Len(back)
          BY <1>2, <2>1, <3>2
        <4>2. (Pop2 \o back)[i] = back[i - Len(Pop2)]
          BY <2>1, <4>1
        <4> QED
          BY <3>2, <4>1, <4>2 DEF Second
      <3>3. CASE i = Len(stack_)
        <4>1. i - Len(Pop2) = 2 /\ i \in Len(Pop2) + 1 .. Len(Pop2) + Len(back)
          BY <1>2, <2>1, <3>3
        <4>2. (Pop2 \o back)[i] = back[i - Len(Pop2)]
          BY <2>1, <4>1
        <4> QED
          BY <3>3, <4>1, <4>2 DEF Top
      <3> QED
        BY <2>1, <3>1, <3>2, <3>3
    <2>4. Pop2 \o back = stack_
      BY <2>2, <2>3, SeqEqual
    <2> QED
      BY <2>4 DEF PushedBack
  <1> QED
    BY <1>1, <1>2

LEMMA QuietActions ==
    ASSUME SessionInv,
           \/ \E n \in Names, range \in BOOLEAN : DefineList(n, range)
           \/ \E n \in Names : Unlist(n)
           \/ \E op \in UnimplementedOps : UnaryNotImplemented(op)
           \/ LesserFail \/ Fail
           \/ \E on \in BOOLEAN : SetQuitOnFail(on)
    PROVE  SessionInv'
  <1> USE FailTypes DEF Keep, defined, settings
  <1>1. CASE \E n \in Names, range \in BOOLEAN : DefineList(n, range)
    BY <1>1, QuietStep DEF DefineList
  <1>2. CASE \E n \in Names : Unlist(n)
    BY <1>2, QuietStep DEF Unlist
  <1>3. CASE \E op \in UnimplementedOps : UnaryNotImplemented(op)
    <2>1. Append(Pop1, Top) = stack_
      BY <1>3, PushedBackIsStack DEF UnaryNotImplemented, HasTop, SessionInv, TypeOK
    <2> QED
      BY <1>3, <2>1, QuietStep DEF UnaryNotImplemented
  <1>4. CASE LesserFail
    BY <1>4, QuietStep DEF LesserFail
  <1>5. CASE Fail
    BY <1>5, QuietStep DEF Fail
  <1>6. CASE \E on \in BOOLEAN : SetQuitOnFail(on)
    BY <1>6, QuietStep DEF SetQuitOnFail
  <1> QED
    BY <1>1, <1>2, <1>3, <1>4, <1>5, <1>6

-----------------------------------------------------------------------------
(* Commands that change networks of the stack in place. *)

LEMMA TopInPlace ==
    ASSUME SessionInv, HasTop, NEW net \in Nets,
           heap' = [heap EXCEPT ![Top].net = net],
           Done, UNCHANGED << stack_, loop, lent, defined, settings >>
    PROVE  SessionInv'
  <1>1. Top \in Address /\ Len(stack_) \in DOMAIN stack_
    BY PopType DEF SessionInv, TypeOK, HasTop
  <1>2. heap[Top] \in Object
    BY <1>1, LiveType DEF SessionInv, HasTop
  <1>3. [heap[Top] EXCEPT !.net = net] \in Object
    BY <1>2 DEF Object
  <1>4. heap \in [Address -> Object \cup {Freed}]
    BY DEF SessionInv, TypeOK
  <1>5. heap' \in [Address -> Object \cup {Freed}]
    BY <1>3, <1>4
  <1>6. \A p \in Address : Live(p) => heap'[p] # Freed
    BY <1>1, <1>3, <1>4, ObjectNotFreed DEF Live
  <1>7. \A p \in Address : (\A i \in DOMAIN stack_ : stack_[i] # p) => heap'[p] = heap[p]
    BY <1>1, <1>4 DEF Top
  <1> QED
    BY <1>5, <1>6, <1>7, InPlaceStep DEF defined, settings, Done

LEMMA UnaryActions ==
    ASSUME SessionInv,
           \/ \E op \in UnaryOps : UnaryOperation(op)
           \/ \E n \in Names : substitute_named(n)
    PROVE  SessionInv'
  <1> USE DEF defined, settings
  <1>1. ASSUME NEW op \in UnaryOps, UnaryOperation(op)
        PROVE  SessionInv'
    <2>1. heap[Top].net \in Nets
      BY <1>1, PopType, LiveType DEF SessionInv, TypeOK, UnaryOperation, HasTop
    <2>2. ApplyUnary(op, heap[Top].net) \in Nets
      BY <2>1, XfstAssumption
    <2>3. heap' = [heap EXCEPT ![Top].net = ApplyUnary(op, heap[Top].net)]
      BY <1>1 DEF UnaryOperation
    <2> QED
      BY <1>1, <2>2, <2>3, TopInPlace DEF UnaryOperation
  <1>2. ASSUME NEW n \in Names, substitute_named(n)
        PROVE  SessionInv'
    <2> DEFINE d == definitions_[n]
    <2>0. HasTop /\ n \in DOMAIN definitions_
      BY <1>2 DEF substitute_named
    <2>1. CASE ~Live(d) /\ Undefined
      BY <2>0, <2>1, Places, FoundFreed
    <2>2. CASE Aborted
      BY <2>2, EndStep DEF Aborted
    <2>3. CASE /\ Live(d) /\ ~heap[d].optimized
               /\ heap' = [heap EXCEPT ![Top].net = ApplyBinary("SUBSTITUTE_NAMED", @, heap[d].net)]
               /\ Done /\ UNCHANGED << stack_, loop, lent, defined, settings >>
      <3>1. heap[Top].net \in Nets /\ d \in Address
        BY <2>0, PopType, LiveType DEF SessionInv, TypeOK, HasTop
      <3>2. heap[d].net \in Nets
        BY <2>3, <3>1, LiveType DEF SessionInv
      <3>3. ApplyBinary("SUBSTITUTE_NAMED", heap[Top].net, heap[d].net) \in Nets
        BY <3>1, <3>2, XfstAssumption
      <3>4. heap' = [heap EXCEPT ![Top].net = ApplyBinary("SUBSTITUTE_NAMED", heap[Top].net, heap[d].net)]
        BY <2>3
      <3> QED
        BY <2>0, <2>3, <3>3, <3>4, TopInPlace
    <2> QED
      BY <1>2, <2>1, <2>2, <2>3 DEF substitute_named
  <1> QED
    BY <1>1, <1>2

LEMMA ConvertAction ==
    ASSUME SessionInv, NEW optimized \in BOOLEAN, Convert(optimized)
    PROVE  SessionInv'
  <1>1. CASE (\E i \in DOMAIN stack_ : ~Live(stack_[i])) /\ Undefined
    BY <1>1, Places, FoundFreed
  <1>2. CASE /\ \A i \in DOMAIN stack_ : Live(stack_[i])
             /\ heap' = [p \in Address |->
                   IF \E i \in DOMAIN stack_ : stack_[i] = p
                   THEN [heap[p] EXCEPT !.optimized = optimized] ELSE heap[p]]
             /\ Done /\ UNCHANGED << stack_, loop, lent, defined, settings >>
    <2>1. heap \in [Address -> Object \cup {Freed}] /\ \A i \in DOMAIN stack_ : stack_[i] \in Address
      BY DEF SessionInv, TypeOK
    <2>2. ASSUME NEW p \in Address, Live(p)
          PROVE  [heap[p] EXCEPT !.optimized = optimized] \in Object
      <3>1. heap[p] \in Object
        BY <2>2, LiveType DEF SessionInv
      <3> QED
        BY <3>1 DEF Object
    <2>3. \A p \in Address : (\E i \in DOMAIN stack_ : stack_[i] = p) => Live(p)
      BY <1>2
    <2>4. heap' \in [Address -> Object \cup {Freed}]
      BY <1>2, <2>1, <2>2, <2>3
    <2>5. \A p \in Address : Live(p) => heap'[p] # Freed
      BY <1>2, <2>1, <2>2, ObjectNotFreed DEF Live
    <2>6. \A p \in Address : (\A i \in DOMAIN stack_ : stack_[i] # p) => heap'[p] = heap[p]
      BY <1>2
    <2> QED
      BY <1>2, <2>4, <2>5, <2>6, InPlaceStep DEF defined, settings, Done
  <1> QED
    BY <1>1, <1>2 DEF Convert

-----------------------------------------------------------------------------
(* Commands that move networks of the stack and leave the definitions as   *)
(* they are.                                                               *)
LEMMA StackStep ==
    ASSUME SessionInv, outcome = "running",
           UNCHANGED << defined, settings, loop >>, fail_flag_' \in BOOLEAN,
           NEW h \in [Address -> Object \cup {Freed}], Store(h), Lend(lent),
           stack_' \in Seq(Address), Len(stack_') <= MaxStack,
           loop # << >> => Len(stack_') < MaxStack,
           NEW F, NEW N, NEW m, Moved(F, N, {}, m),
           \A p \in Referenced(stack_', definitions_, loop) \ lent : h[p] # Freed,
           \A n \in DOMAIN definitions_ :
              definitions_[n] \notin lent => h[definitions_[n]] = heap[definitions_[n]]
    PROVE  SessionInv'
  <1>1. /\ UNCHANGED << outcome, lists_, quit_on_fail >>
        /\ definitions_' = definitions_ /\ xre_' = xre_ /\ loaded' = loaded /\ loop' = loop
    BY DEF defined, settings
  <1>2. /\ DOMAIN definitions_' \subseteq Names
        /\ \A n \in DOMAIN definitions_' : definitions_'[n] \in Address
        /\ DOMAIN xre_' \subseteq Names
        /\ \A n \in DOMAIN xre_' : xre_'[n] \in Nets
        /\ loaded' \subseteq Names
    BY <1>1 DEF SessionInv, TypeOK
  <1>3. \A p \in Referenced(stack_', definitions_', loop') \ lent : h[p] # Freed
    BY <1>1
  <1>4. \A n \in DOMAIN definitions_' \ {} :
              /\ n \in loaded => n \in loaded'
              /\ n \in DOMAIN xre_ => n \in DOMAIN xre_' /\ xre_'[n] = xre_[n]
              /\ definitions_[n] \notin lent => h[definitions_[n]] = heap[definitions_[n]]
    BY <1>1
  <1>5. \A n \in DOMAIN definitions_' \cap {} :
              n \in loaded' \/ (n \in DOMAIN xre_' /\ h[definitions_'[n]] = New(xre_'[n]))
    OBVIOUS
  <1>6. loop' # << >> => Len(stack_') < MaxStack
    BY <1>1
  <1> QED
    BY <1>1, <1>2, <1>3, <1>4, <1>5, <1>6, StoreStep

(* Networks leave the stack or change places on it. *)
LEMMA RearrangeStep ==
    ASSUME SessionInv, outcome = "running", loop = << >>,
           UNCHANGED << defined, settings, loop >>, fail_flag_' \in BOOLEAN,
           Store(heap), Lend(lent),
           stack_' \in Seq(Address), Len(stack_') <= Len(stack_),
           NEW m, Moved({}, {}, {}, m)
    PROVE  SessionInv'
  <1>2. heap \in [Address -> Object \cup {Freed}] /\ Len(stack_') <= MaxStack
    BY XfstAssumption DEF SessionInv, TypeOK
  <1>3. Referenced(stack_', definitions_, loop) \subseteq Referenced(stack_, definitions_, loop)
    BY DEF Referenced, Moved
  <1>4. \A p \in Referenced(stack_', definitions_, loop) \ lent : heap[p] # Freed
    BY <1>3 DEF SessionInv, OneOwner, Live
  <1> QED
    BY <1>2, <1>4, StackStep

LEMMA RearrangeActions ==
    ASSUME SessionInv, pop \/ clear \/ turn \/ rotate \/ SubstituteSymbolFails
    PROVE  SessionInv'
  <1>0. stack_ \in Seq(Address) /\ fail_flag_ \in BOOLEAN
    BY DEF SessionInv, TypeOK
  <1>1. CASE pop \/ SubstituteSymbolFails
    <2>1. stack_ # << >> /\ stack_' = Pop1 /\ fail_flag_' \in BOOLEAN
      BY <1>0, <1>1 DEF pop, NewStack, SubstituteSymbolFails, HasTop, Done
    <2>2. /\ Pop1 \in Seq(Address) /\ Len(stack_) \in Nat \ {0} /\ Len(Pop1) = Len(stack_) - 1
          /\ \A i \in 1 .. Len(stack_) - 1 : Pop1[i] = stack_[i]
      BY <1>0, <2>1, PopType
    <2> DEFINE m == [i \in DOMAIN stack_ |-> i]
    <2>3. /\ Len(stack_') <= Len(stack_)
          /\ outcome = "running" /\ loop = << >> /\ UNCHANGED << defined, settings, loop >>
          /\ Store(heap) /\ Lend(lent)
      BY <1>1, <2>1, <2>2 DEF pop, NewStack, SubstituteSymbolFails, HasTop, Running
    <2>4. Moved({}, {}, {}, m)
      BY <1>0, <2>1, <2>2, <2>3 DEF Moved, defined
    <2> HIDE DEF m
    <2> QED
      BY <2>1, <2>2, <2>3, <2>4, RearrangeStep
  <1>2. CASE clear
    <2>1. stack_' = << >> /\ fail_flag_' \in BOOLEAN
      BY <1>0, <1>2 DEF clear, NewStack, Done
    <2>2. /\ outcome = "running" /\ loop = << >> /\ UNCHANGED << defined, settings, loop >>
          /\ Store(heap) /\ Lend(lent)
      BY <1>2 DEF clear, NewStack, Running
    <2>3. /\ stack_' \in Seq(Address) /\ Len(stack_') <= Len(stack_)
          /\ DOMAIN stack_' = {}
      BY <1>0, <2>1, EmptySeq
    <2>4. Moved({}, {}, {}, << >>)
      BY <2>2, <2>3 DEF Moved, defined
    <2> QED
      BY <2>1, <2>2, <2>3, <2>4, RearrangeStep
  <1>3. CASE turn \/ rotate
    <2>1. stack_' = Reverse(stack_) /\ fail_flag_' \in BOOLEAN
      BY <1>0, <1>3 DEF turn, rotate, NewStack, Done
    <2>2. /\ stack_' \in Seq(Address) /\ Len(stack_') = Len(stack_)
          /\ \A i \in 1 .. Len(stack_) : stack_'[i] = stack_[Len(stack_) + 1 - i]
      BY <1>0, <2>1, ReverseType
    <2> DEFINE m == [i \in DOMAIN stack_ |-> Len(stack_) + 1 - i]
    <2>3. /\ outcome = "running" /\ loop = << >> /\ UNCHANGED << defined, settings, loop >>
          /\ Store(heap) /\ Lend(lent) /\ Len(stack_') <= Len(stack_)
      BY <1>0, <1>3, <2>2 DEF turn, rotate, NewStack, Running
    <2>4. DOMAIN stack_ = 1 .. Len(stack_) /\ DOMAIN stack_' = DOMAIN stack_ /\ Len(stack_) \in Nat
      BY <1>0, <2>2
    <2>5. \A i \in 1 .. Len(stack_) : m[i] = Len(stack_) + 1 - i /\ m[i] \in 1 .. Len(stack_)
      BY <2>4
    <2>6. \A i, j \in 1 .. Len(stack_) : m[i] = m[j] => i = j
      BY <2>4, <2>5
    <2>7. \A i \in 1 .. Len(stack_) : stack_'[i] = stack_[m[i]]
      BY <2>2, <2>5
    <2> HIDE DEF m
    <2>8. Moved({}, {}, {}, m)
      BY <2>3, <2>4, <2>5, <2>6, <2>7 DEF Moved, defined
    <2> QED
      BY <2>1, <2>2, <2>3, <2>8, RearrangeStep
  <1> QED
    BY <1>1, <1>2, <1>3

-----------------------------------------------------------------------------
(* Commands that push one new network, on what is left of the stack; the    *)
(* old top may be deleted if it is popped.                                  *)
LEMMA PushStep ==
    ASSUME SessionInv, Running, UNCHANGED << defined, settings, loop >>, Done,
           NEW rest \in Seq(Address), Len(rest) <= Len(stack_), Len(rest) < MaxStack,
           \A i \in 1 .. Len(rest) : rest[i] = stack_[i],
           NEW h \in [Address -> Object \cup {Freed}],
           \A q \in Address : h[q] = heap[q] \/ (q = Top /\ Len(rest) < Len(stack_)),
           NEW p \in Malloc, NEW o \in Object,
           stack_' = Append(rest, p), Store([h EXCEPT ![p] = o]), Lend(lent)
    PROVE  SessionInv'
  <1> DEFINE m == [i \in DOMAIN stack_ |-> i]
             N == {Len(rest) + 1}
             g == [h EXCEPT ![p] = o]
  <1>1. /\ stack_ \in Seq(Address) /\ Len(stack_) \in Nat /\ DOMAIN stack_ = 1 .. Len(stack_)
        /\ Len(rest) \in Nat /\ fail_flag_' \in BOOLEAN
        /\ outcome = "running" /\ loop = << >> /\ loop' = << >> /\ definitions_' = definitions_
    BY DEF SessionInv, TypeOK, Running, Done, defined
  <1>2. p \in Address /\ ~Live(p)
    BY MallocFree
  <1>3. /\ stack_' \in Seq(Address) /\ Len(stack_') = Len(rest) + 1 /\ stack_'[Len(rest) + 1] = p
        /\ DOMAIN stack_' = 1 .. Len(rest) + 1
        /\ \A i \in 1 .. Len(rest) : stack_'[i] = stack_[i]
    BY <1>1, <1>2
  <1>4. Len(stack_') <= MaxStack
    BY <1>1, <1>3, XfstAssumption
  <1>5. DOMAIN stack_' \ N = 1 .. Len(rest) /\ DOMAIN stack_' \cap N = N /\ 1 .. Len(rest) \subseteq DOMAIN stack_
    BY <1>1, <1>3
  <1>6. \A i \in 1 .. Len(rest) : m[i] = i
    BY <1>5
  <1> HIDE DEF m
  <1>7. Moved({p}, N, {}, m)
    BY <1>1, <1>2, <1>3, <1>5, <1>6 DEF Moved
  <1>8. g \in [Address -> Object \cup {Freed}] /\ g[p] = o
        /\ \A q \in Address \ {p} : g[q] = h[q]
    BY <1>2
  <1> DEFINE Ref == Referenced(stack_, definitions_, loop)
  <1>9. ASSUME NEW n \in DOMAIN definitions_, definitions_[n] \notin lent
        PROVE  g[definitions_[n]] = heap[definitions_[n]]
    <2>1. definitions_[n] \in Ref /\ definitions_[n] \in Address /\ Live(definitions_[n])
      BY <1>9, Places DEF OneOwner, SessionInv, TypeOK
    <2>2. \A i \in DOMAIN stack_ : stack_[i] # definitions_[n]
      BY <1>9, <2>1 DEF OneOwner, SessionInv
    <2>3. Len(rest) < Len(stack_) => definitions_[n] # Top
      BY <1>1, <2>2 DEF Top
    <2>4. definitions_[n] # p
      BY <1>2, <2>1
    <2> QED
      BY <1>8, <2>1, <2>3, <2>4
  <1>10. ASSUME NEW i \in 1 .. Len(rest), stack_[i] \notin lent
         PROVE  g[stack_[i]] = heap[stack_[i]] /\ Live(stack_[i])
    <2>1. stack_[i] \in Ref /\ stack_[i] \in Address /\ Live(stack_[i]) /\ i \in DOMAIN stack_
      BY <1>1, <1>5, <1>10, Places DEF OneOwner, SessionInv, TypeOK
    <2>2. Len(rest) < Len(stack_) => stack_[i] # Top
      BY <1>1, <1>10, <2>1 DEF OneOwner, SessionInv, Top
    <2>3. stack_[i] # p
      BY <1>2, <2>1
    <2> QED
      BY <1>8, <2>1, <2>2, <2>3
  <1>11. ASSUME NEW q \in Referenced(stack_', definitions_, loop) \ lent
         PROVE  g[q] # Freed
    <2>1. q \in Ref => Live(q)
      BY DEF OneOwner, SessionInv
    <2>2. CASE q = p
      BY <2>2, <1>8, ObjectNotFreed
    <2>3. CASE \E i \in 1 .. Len(rest) : q = stack_[i]
      BY <2>3, <1>10 DEF Live
    <2>4. CASE \E n \in DOMAIN definitions_ : q = definitions_[n]
      BY <2>1, <2>4, <1>9, Places DEF Live
    <2> QED
      BY <2>2, <2>3, <2>4, <1>1, <1>3, <1>5 DEF Referenced
  <1> HIDE DEF g, N
  <1>12. Store(g)
    BY DEF g
  <1> QED
    BY <1>1, <1>3, <1>4, <1>7, <1>8, <1>9, <1>11, <1>12, StackStep

LEMMA PushNewStep ==
    ASSUME SessionInv, Running,
           NEW rest \in Seq(Address), Len(rest) <= Len(stack_), Len(rest) < MaxStack,
           \A i \in 1 .. Len(rest) : rest[i] = stack_[i],
           NEW h \in [Address -> Object \cup {Freed}],
           \A q \in Address : h[q] = heap[q] \/ (q = Top /\ Len(rest) < Len(stack_)),
           NEW net \in Nets, PushNew(rest, net, h)
    PROVE  SessionInv'
  <1>1. PICK p \in Malloc : /\ stack_' = Append(rest, p)
                            /\ UNCHANGED << defined, settings, loop >>
                            /\ Store([h EXCEPT ![p] = New(net)])
                            /\ Lend(lent)
                            /\ Done
    BY DEF PushNew
  <1>2. New(net) \in Object
    BY NewType
  <1> QED
    BY <1>1, <1>2, PushStep

LEMMA PushActions ==
    ASSUME SessionInv,
           \/ \E r \in Regex : ReadRegex(r)
           \/ \E t \in Literals, optimized \in BOOLEAN : LoadStack(t, optimized)
           \/ \E op \in ReplacingOps : ReplaceTop(op)
           \/ sigma_net
           \/ substitute_symbol
    PROVE  SessionInv'
  <1>1. /\ stack_ \in Seq(Address) /\ Len(stack_) \in Nat /\ Len(stack_) <= MaxStack
        /\ TypeOK /\ heap \in [Address -> Object \cup {Freed}] /\ MaxStack \in Nat
    BY XfstAssumption DEF SessionInv, TypeOK
  <1>2. ASSUME HasTop
        PROVE  /\ heap[Top].net \in Nets /\ stack_ # << >>
               /\ Pop1 \in Seq(Address) /\ Len(Pop1) <= Len(stack_) /\ Len(Pop1) < MaxStack
               /\ \A i \in 1 .. Len(Pop1) : Pop1[i] = stack_[i]
               /\ Len(Pop1) < Len(stack_) /\ Running
    BY <1>1, <1>2, PopType, LiveType DEF HasTop
  <1>3. ASSUME NEW r \in Regex, ReadRegex(r)
        PROVE  SessionInv'
    <2>1. compile(r) \in Nets
      BY <1>1, CompileType
    <2> QED
      BY <1>1, <1>3, <2>1, PushNewStep DEF ReadRegex, Room
  <1>4. ASSUME NEW t \in Literals, NEW optimized \in BOOLEAN, LoadStack(t, optimized)
        PROVE  SessionInv'
    <2> DEFINE o == [net |-> t, optimized |-> optimized]
               rest == stack_
               h == heap
    <2>1. o \in Object
      BY XfstAssumption DEF Object
    <2>2. PICK p \in Malloc : /\ stack_' = Append(rest, p)
                              /\ UNCHANGED << defined, settings, loop >>
                              /\ Store([h EXCEPT ![p] = o])
                              /\ Lend(lent)
      BY <1>4 DEF LoadStack
    <2>3. Running /\ Done /\ Len(rest) < MaxStack
      BY <1>1, <1>4 DEF LoadStack, Room
    <2>4. /\ rest \in Seq(Address) /\ Len(rest) <= Len(stack_)
          /\ \A i \in 1 .. Len(rest) : rest[i] = stack_[i]
          /\ h \in [Address -> Object \cup {Freed}]
          /\ \A q \in Address : h[q] = heap[q] \/ (q = Top /\ Len(rest) < Len(stack_))
      BY <1>1
    <2> HIDE DEF o, rest, h
    <2> QED
      BY <2>1, <2>2, <2>3, <2>4, PushStep
  <1>5. ASSUME NEW op \in ReplacingOps, ReplaceTop(op)
        PROVE  SessionInv'
    <2> DEFINE h == [heap EXCEPT ![Top] = Freed]
               net == ApplyUnary(op, heap[Top].net)
    <2>1. HasTop /\ PushNew(Pop1, net, h)
      BY <1>5 DEF ReplaceTop
    <2>2. /\ h \in [Address -> Object \cup {Freed}]
          /\ \A q \in Address : h[q] = heap[q] \/ (q = Top /\ Len(Pop1) < Len(stack_))
      BY <1>1, <1>2, <2>1
    <2>3. net \in Nets
      BY <1>2, <2>1, XfstAssumption
    <2> HIDE DEF h, net
    <2> QED
      BY <1>2, <2>1, <2>2, <2>3, PushNewStep
  <1>6. CASE sigma_net
    <2> DEFINE net == ApplyUnary("SIGMA_NET", heap[Top].net)
    <2>1. HasTop /\ PushNew(stack_, net, heap) /\ Len(stack_) < MaxStack
      BY <1>1, <1>6 DEF sigma_net, Room
    <2>2. net \in Nets
      BY <1>2, <2>1, XfstAssumption
    <2> HIDE DEF net
    <2> QED
      BY <1>1, <1>2, <2>1, <2>2, PushNewStep
  <1>7. CASE substitute_symbol
    <2> DEFINE net == ApplyUnary("SUBSTITUTE_SYMBOL", heap[Top].net)
    <2>1. HasTop /\ PushNew(Pop1, net, heap)
      BY <1>7 DEF substitute_symbol
    <2>2. net \in Nets
      BY <1>2, <2>1, XfstAssumption
    <2> HIDE DEF net
    <2> QED
      BY <1>1, <1>2, <2>1, <2>2, PushNewStep
  <1> QED
    BY <1>3, <1>4, <1>5, <1>6, <1>7

-----------------------------------------------------------------------------
(* Commands that define a name.  The definition is an object of its own;    *)
(* either the regular expression compiler gets the same network or the name *)
(* is noted as loaded.                                                      *)
LEMMA DefineStep ==
    ASSUME SessionInv, Running, UNCHANGED << lists_, settings, loop >>, Done,
           NEW rest \in Seq(Address), Len(rest) <= Len(stack_),
           \A i \in 1 .. Len(rest) : rest[i] = stack_[i],
           NEW n \in Names, NEW net \in Nets, NEW p \in Malloc,
           stack_' = rest,
           definitions_' = WithName(definitions_, n, p),
           \/ xre_' = WithName(xre_, n, net) /\ loaded' = loaded \ {n}
           \/ xre_' = xre_ /\ loaded' = loaded \cup {n},
           Store([heap EXCEPT ![p] = New(net)]), Lend(lent)
    PROVE  SessionInv'
  <1> DEFINE m == [i \in DOMAIN stack_ |-> i]
             g == [heap EXCEPT ![p] = New(net)]
             Ref == Referenced(stack_, definitions_, loop)
  <1>1. /\ stack_ \in Seq(Address) /\ Len(stack_) \in Nat /\ DOMAIN stack_ = 1 .. Len(stack_)
        /\ Len(rest) \in Nat /\ Len(rest) <= MaxStack
        /\ UNCHANGED << outcome, lists_, quit_on_fail >> /\ fail_flag_' \in BOOLEAN
        /\ outcome = "running" /\ loop = << >> /\ loop' = << >>
    BY XfstAssumption DEF SessionInv, TypeOK, Running, Done, settings
  <1>2. p \in Address /\ ~Live(p)
    BY MallocFree
  <1>3. /\ stack_' \in Seq(Address) /\ Len(stack_') <= MaxStack
        /\ DOMAIN stack_' = 1 .. Len(rest)
        /\ \A i \in 1 .. Len(rest) : stack_'[i] = stack_[i] /\ i \in DOMAIN stack_
    BY <1>1
  <1>4. /\ DOMAIN definitions_' = DOMAIN definitions_ \cup {n}
        /\ definitions_'[n] = p
        /\ \A k \in DOMAIN definitions_ \ {n} : definitions_'[k] = definitions_[k]
    BY DEF WithName
  <1>5. \A i \in 1 .. Len(rest) : m[i] = i
    BY <1>3
  <1> HIDE DEF m
  <1>6. Moved({p}, {}, {n}, m)
    BY <1>1, <1>2, <1>3, <1>4, <1>5 DEF Moved
  <1>7. /\ DOMAIN definitions_' \subseteq Names
        /\ \A k \in DOMAIN definitions_' : definitions_'[k] \in Address
    BY <1>2, <1>4 DEF SessionInv, TypeOK
  <1>8. /\ DOMAIN xre_' \subseteq Names
        /\ \A k \in DOMAIN xre_' : xre_'[k] \in Nets
        /\ loaded' \subseteq Names
    BY DEF SessionInv, TypeOK, WithName
  <1>9. New(net) \in Object /\ New(net) # Freed
    BY NewType, ObjectNotFreed
  <1>10. heap \in [Address -> Object \cup {Freed}]
    BY DEF SessionInv, TypeOK
  <1>11. g \in [Address -> Object \cup {Freed}] /\ g[p] = New(net)
        /\ \A q \in Address \ {p} : g[q] = heap[q]
    BY <1>2, <1>9, <1>10
  <1>12. \A q \in Ref \ lent : q \in Address /\ Live(q) /\ g[q] = heap[q] /\ g[q] # Freed
    BY <1>2, <1>11, ReferencedType DEF SessionInv, OneOwner, Live
  <1> HIDE DEF g
  <1>13. ASSUME NEW q \in Referenced(stack_', definitions_', loop') \ lent
         PROVE  g[q] # Freed
    <2>1. q = p \/ q \in Ref
      BY <1>1, <1>3, <1>4 DEF Referenced
    <2> QED
      BY <2>1, <1>9, <1>11, <1>12
  <1>14. ASSUME NEW k \in DOMAIN definitions_' \ {n}
         PROVE  /\ k \in loaded => k \in loaded'
                /\ k \in DOMAIN xre_ => k \in DOMAIN xre_' /\ xre_'[k] = xre_[k]
                /\ definitions_[k] \notin lent => g[definitions_[k]] = heap[definitions_[k]]
    <2>1. definitions_[k] \in Ref
      BY <1>4, Places
    <2> QED
      BY <2>1, <1>12 DEF WithName
  <1>15. ASSUME NEW k \in DOMAIN definitions_' \cap {n}
         PROVE  k \in loaded' \/ (k \in DOMAIN xre_' /\ g[definitions_'[k]] = New(xre_'[k]))
    BY <1>4, <1>11 DEF WithName
  <1>16. Store(g) /\ (loop' # << >> => Len(stack_') < MaxStack)
    BY <1>1 DEF g
  <1> QED
    BY <1>1, <1>3, <1>6, <1>7, <1>8, <1>11, <1>13, <1>14, <1>15, <1>16, StoreStep

LEMMA DefineActions ==
    ASSUME SessionInv, NEW n \in Names,
           \/ DefineTop(n)
           \/ \E r \in Regex : DefineRegex(n, r)
           \/ \E t \in Literals : LoadDefinition(n, t)
    PROVE  SessionInv'
  <1>1. /\ stack_ \in Seq(Address) /\ Len(stack_) \in Nat /\ Len(stack_) <= Len(stack_)
        /\ TypeOK /\ \A i \in 1 .. Len(stack_) : stack_[i] = stack_[i]
    BY DEF SessionInv, TypeOK
  <1>2. CASE DefineTop(n)
    <2> DEFINE net == heap[Top].net
    <2>1. HasTop /\ Done /\ UNCHANGED << lists_, settings >> /\ loaded' = loaded \ {n}
      BY <1>2 DEF DefineTop
    <2>2. PICK p \in Malloc : /\ xre_' = WithName(xre_, n, net)
                              /\ stack_' = Pop1
                              /\ definitions_' = WithName(definitions_, n, p)
                              /\ loop' = loop
                              /\ Store([heap EXCEPT ![p] = New(net)])
                              /\ Lend(lent)
      BY <1>2 DEF DefineTop
    <2>3. /\ net \in Nets /\ Running
          /\ Pop1 \in Seq(Address) /\ Len(Pop1) <= Len(stack_)
          /\ \A i \in 1 .. Len(Pop1) : Pop1[i] = stack_[i]
      BY <1>1, <2>1, PopType, LiveType DEF HasTop
    <2> HIDE DEF net
    <2> QED
      BY <2>1, <2>2, <2>3, DefineStep
  <1>3. ASSUME NEW r \in Regex, DefineRegex(n, r)
        PROVE  SessionInv'
    <2> DEFINE net == compile(r)
               rest == stack_
    <2>1. Running /\ Done /\ UNCHANGED << lists_, settings >> /\ loaded' = loaded \ {n}
      BY <1>3 DEF DefineRegex
    <2>2. PICK p \in Malloc : /\ xre_' = WithName(xre_, n, net)
                              /\ stack_' = rest
                              /\ definitions_' = WithName(definitions_, n, p)
                              /\ loop' = loop
                              /\ Store([heap EXCEPT ![p] = New(net)])
                              /\ Lend(lent)
      BY <1>3 DEF DefineRegex
    <2>3. net \in Nets
      BY <1>1, CompileType
    <2>4. rest \in Seq(Address) /\ Len(rest) <= Len(stack_) /\ \A i \in 1 .. Len(rest) : rest[i] = stack_[i]
      BY <1>1
    <2> HIDE DEF net, rest
    <2> QED
      BY <2>1, <2>2, <2>3, <2>4, DefineStep
  <1>4. ASSUME NEW t \in Literals, LoadDefinition(n, t)
        PROVE  SessionInv'
    <2> DEFINE rest == stack_
    <2>1. /\ Running /\ Done /\ UNCHANGED << lists_, settings >>
          /\ loaded' = loaded \cup {n} /\ xre_' = xre_
      BY <1>4 DEF LoadDefinition
    <2>2. PICK p \in Malloc : /\ stack_' = rest
                              /\ definitions_' = WithName(definitions_, n, p)
                              /\ loop' = loop
                              /\ Store([heap EXCEPT ![p] = New(t)])
                              /\ Lend(lent)
      BY <1>4 DEF LoadDefinition
    <2>3. t \in Nets
      BY XfstAssumption
    <2>4. rest \in Seq(Address) /\ Len(rest) <= Len(stack_) /\ \A i \in 1 .. Len(rest) : rest[i] = stack_[i]
      BY <1>1
    <2> HIDE DEF rest
    <2> QED
      BY <2>1, <2>2, <2>3, <2>4, DefineStep
  <1> QED
    BY <1>2, <1>3, <1>4

(* undefine forgets the definition and what regular expressions mean by it. *)
LEMMA UndefineAction ==
    ASSUME SessionInv, NEW n \in Names, Undefine(n)
    PROVE  SessionInv'
  <1> DEFINE m == [i \in DOMAIN stack_ |-> i]
  <1>1. /\ outcome = "running" /\ UNCHANGED << outcome, lists_, quit_on_fail, stack_, loop >>
        /\ loop = << >> /\ fail_flag_' \in BOOLEAN
        /\ heap \in [Address -> Object \cup {Freed}] /\ Store(heap) /\ Lend(lent)
        /\ stack_' \in Seq(Address) /\ Len(stack_') <= MaxStack
    BY DEF SessionInv, TypeOK, Undefine, Running, Done, settings
  <1>2. /\ DOMAIN definitions_' = DOMAIN definitions_ \ {n}
        /\ \A k \in DOMAIN definitions_' : definitions_'[k] = definitions_[k]
        /\ DOMAIN xre_' = DOMAIN xre_ \ {n}
        /\ \A k \in DOMAIN xre_' : xre_'[k] = xre_[k]
        /\ loaded' = loaded \ {n}
    BY DEF Undefine, WithoutName
  <1>3. Moved({}, {}, {n}, m)
    BY <1>1, <1>2 DEF Moved
  <1> HIDE DEF m
  <1>4. /\ DOMAIN definitions_' \subseteq Names
        /\ \A k \in DOMAIN definitions_' : definitions_'[k] \in Address
        /\ DOMAIN xre_' \subseteq Names
        /\ \A k \in DOMAIN xre_' : xre_'[k] \in Nets
        /\ loaded' \subseteq Names
    BY <1>2 DEF SessionInv, TypeOK
  <1>5. Referenced(stack_', definitions_', loop') \subseteq Referenced(stack_, definitions_, loop)
    BY <1>1, <1>2 DEF Referenced
  <1>6. \A p \in Referenced(stack_', definitions_', loop') \ lent : heap[p] # Freed
    BY <1>5 DEF SessionInv, OneOwner, Live
  <1>7. loop' # << >> => Len(stack_') < MaxStack
    BY <1>1
  <1> DEFINE h == heap
  <1>8. h \in [Address -> Object \cup {Freed}] /\ Store(h)
    BY <1>1
  <1>9. \A p \in Referenced(stack_', definitions_', loop') \ lent : h[p] # Freed
    BY <1>6
  <1>10. \A k \in DOMAIN definitions_' \ {n} :
           /\ k \in loaded => k \in loaded'
           /\ k \in DOMAIN xre_ => k \in DOMAIN xre_' /\ xre_'[k] = xre_[k]
           /\ definitions_[k] \notin lent => h[definitions_[k]] = heap[definitions_[k]]
    BY <1>2
  <1>11. \A k \in DOMAIN definitions_' \cap {n} :
           k \in loaded' \/ (k \in DOMAIN xre_' /\ h[definitions_'[k]] = New(xre_'[k]))
    BY <1>2
  <1> HIDE DEF h
  <1> QED
    BY <1>1, <1>3, <1>4, <1>7, <1>8, <1>9, <1>10, <1>11, StoreStep

-----------------------------------------------------------------------------
(* push <name>: the object has two owners from here on and is lent. *)
LEMMA PushNameAction ==
    ASSUME SessionInv, NEW n \in Names, PushName(n)
    PROVE  SessionInv'
  <1> DEFINE d == definitions_[n]
             Ref == Referenced(stack_, definitions_, loop)
  <1>1. /\ outcome = "running" /\ loop = << >> /\ loop' = loop
        /\ n \in DOMAIN definitions_ /\ stack_' = Append(stack_, d)
        /\ heap' = heap /\ definitions_' = definitions_ /\ xre_' = xre_
        /\ UNCHANGED << lists_, loaded, quit_on_fail, outcome, fail_flag_ >>
        /\ lent' = (lent \cup {d}) \cap Referenced(stack_', definitions_', loop')
        /\ Len(stack_) + 1 <= MaxStack
    BY DEF PushName, Running, Room, defined, settings, Lend, Done
  <1>2. stack_ \in Seq(Address) /\ Len(stack_) \in Nat /\ d \in Address /\ d \in Ref
    BY <1>1, Places DEF SessionInv, TypeOK
  <1>3. /\ stack_' \in Seq(Address) /\ Len(stack_') = Len(stack_) + 1
        /\ DOMAIN stack_ = 1 .. Len(stack_) /\ DOMAIN stack_' = 1 .. Len(stack_) + 1
        /\ \A i \in 1 .. Len(stack_) : stack_'[i] = stack_[i]
        /\ stack_'[Len(stack_) + 1] = d
    BY <1>1, <1>2
  <1>4. \A i \in DOMAIN stack_' : stack_'[i] # d => i \in DOMAIN stack_ /\ stack_'[i] = stack_[i]
    BY <1>2, <1>3
  <1>5. \A i \in DOMAIN stack_ : i \in DOMAIN stack_' /\ stack_'[i] = stack_[i]
    BY <1>2, <1>3
  <1>6. Referenced(stack_', definitions_', loop') = Ref
    BY <1>1, <1>2, <1>4, <1>5 DEF Referenced
  <1>7. lent' = (lent \cup {d}) \cap Ref
    BY <1>1, <1>6
  <1>8. TypeOK'
    BY <1>1, <1>2, <1>3, <1>7 DEF SessionInv, TypeOK
  <1>9. OneOwner'
    <2>1. SUFFICES ASSUME NEW p \in Ref \ lent'
                   PROVE  /\ Live(p)
                          /\ \A i, j \in DOMAIN stack_' : stack_'[i] = p /\ stack_'[j] = p => i = j
                          /\ \A k, l \in DOMAIN definitions_ :
                               definitions_[k] = p /\ definitions_[l] = p => k = l
                          /\ \A i \in DOMAIN stack_', k \in DOMAIN definitions_ :
                               stack_'[i] = p => definitions_[k] # p
      BY <1>1, <1>6 DEF OneOwner, Live
    <2>2. p # d /\ p \notin lent
      BY <1>2, <1>7, <2>1
    <2> QED
      BY <2>1, <2>2, <1>4 DEF SessionInv, OneOwner
  <1>10. DefinitionsAgree'
    <2>1. \A k \in DOMAIN definitions_ : definitions_[k] \in Ref
      BY Places
    <2> QED
      BY <2>1, <1>1, <1>7 DEF SessionInv, DefinitionsAgree, New
  <1> QED
    BY <1>1, <1>8, <1>9, <1>10 DEF SessionInv

(* push: every copy is an object of its own. *)
LEMMA PushAllAction ==
    ASSUME SessionInv, PushAll
    PROVE  SessionInv'
  <1> DEFINE D == DOMAIN definitions_
             c == Cardinality(D)
             free == {p \in Address : ~Live(p)}
             Ref == Referenced(stack_, definitions_, loop)
  <1>1. /\ Running /\ D # {} /\ Len(stack_) + c <= MaxStack
    BY DEF PushAll, Room
  <1>2. c \in Nat
    <2>1. IsFiniteSet(DOMAIN NameOrder)
      BY XfstAssumption, FS_Interval
    <2>2. IsFiniteSet(Names)
      <3>1. NameOrder \in Surjection(DOMAIN NameOrder, Names)
        BY XfstAssumption DEF Names, Surjection
      <3> QED
        BY <2>1, <3>1, FS_Surjection
    <2>3. IsFiniteSet(D)
      BY <2>2, FS_Subset DEF SessionInv, TypeOK
    <2> QED
      BY <2>3, FS_CardinalityType
  <1>3. CASE (\E n \in D : ~Live(definitions_[n])) /\ Undefined
    BY <1>3, Places, FoundFreed
  <1>4. ASSUME \A n \in D : Live(definitions_[n]),
               NEW all \in InNameOrder(D), NEW q \in [1 .. c -> free],
               \A i, j \in DOMAIN q : i # j => q[i] # q[j],
               stack_' = stack_ \o q,
               UNCHANGED << defined, settings, loop >>,
               Store([p \in Address |->
                        IF \E i \in DOMAIN q : q[i] = p
                        THEN heap[definitions_[all[CHOOSE i \in DOMAIN q : q[i] = p]]]
                        ELSE heap[p]]),
               Lend(lent), Done
        PROVE  SessionInv'
    <2> DEFINE h == [p \in Address |->
                       IF \E i \in DOMAIN q : q[i] = p
                       THEN heap[definitions_[all[CHOOSE i \in DOMAIN q : q[i] = p]]]
                       ELSE heap[p]]
               m == [i \in DOMAIN stack_ |-> i]
               N == Len(stack_) + 1 .. Len(stack_) + c
    <2> HIDE DEF c
    <2>1. /\ stack_ \in Seq(Address) /\ Len(stack_) \in Nat /\ DOMAIN stack_ = 1 .. Len(stack_)
          /\ heap \in [Address -> Object \cup {Freed}]
          /\ outcome = "running" /\ loop = << >> /\ loop' = << >> /\ definitions_' = definitions_
          /\ fail_flag_' \in BOOLEAN
      BY <1>1, <1>4 DEF SessionInv, TypeOK, Running, Done, defined
    <2>2. q \in Seq(Address) /\ Len(q) = c /\ \A i \in 1 .. c : q[i] \in free
      <3>1. q \in [1 .. c -> free] /\ free \subseteq Address
        OBVIOUS
      <3> HIDE DEF free
      <3>2. \A i \in 1 .. c : q[i] \in free
        BY <3>1
      <3> QED
        BY <1>2, <3>1, <3>2
    <2>3. /\ stack_' \in Seq(Address) /\ Len(stack_') = Len(stack_) + c
          /\ DOMAIN stack_' = 1 .. Len(stack_) + c
          /\ \A i \in 1 .. Len(stack_) : stack_'[i] = stack_[i]
          /\ \A i \in N : stack_'[i] = q[i - Len(stack_)] /\ i - Len(stack_) \in 1 .. c
      <3>1. stack_' = stack_ \o q
        BY <1>4
      <3>2. /\ stack_' \in Seq(Address) /\ Len(stack_') = Len(stack_) + c
            /\ \A i \in 1 .. Len(stack_) + c :
                 stack_'[i] = IF i <= Len(stack_) THEN stack_[i] ELSE q[i - Len(stack_)]
        BY <2>1, <2>2, <3>1, ConcatProperties
      <3>3. \A i \in N : i \in 1 .. Len(stack_) + c /\ ~(i <= Len(stack_)) /\ i - Len(stack_) \in 1 .. c
        BY <1>2, <2>1
      <3>4. \A i \in 1 .. Len(stack_) : i \in 1 .. Len(stack_) + c /\ i <= Len(stack_)
        BY <1>2, <2>1
      <3>5. DOMAIN stack_' = 1 .. Len(stack_')
        BY <3>2
      <3> HIDE DEF N
      <3> QED
        BY <3>2, <3>3, <3>4, <3>5
    <2>4. Len(stack_') <= MaxStack
      BY <1>1, <1>2, <2>1, <2>3, XfstAssumption DEF c
    <2>5. DOMAIN stack_' \ N = 1 .. Len(stack_) /\ DOMAIN stack_' \cap N = N
      BY <1>2, <2>1, <2>3
    <2>6. \A i, j \in N : stack_'[i] = stack_'[j] => i = j
      <3>1. \A i, j \in 1 .. c : q[i] = q[j] => i = j
        BY <1>4
      <3>2. \A i, j \in N : i - Len(stack_) = j - Len(stack_) => i = j
        BY <1>2, <2>1
      <3> QED
        BY <2>3, <3>1, <3>2
    <2>7. \A i \in 1 .. Len(stack_) : m[i] = i
      BY <2>1
    <2>8. \A i \in N : stack_'[i] \in free
      BY <2>2, <2>3
    <2> HIDE DEF m, N
    <2>9. Moved(free, N, {}, m)
      BY <2>1, <2>3, <2>5, <2>6, <2>7, <2>8 DEF Moved
    <2>10. \A i \in 1 .. c : all[i] \in D
      BY <1>4 DEF InNameOrder, c
    <2>11. ASSUME NEW p \in Address, \E i \in DOMAIN q : q[i] = p
           PROVE  h[p] \in Object
      <3> DEFINE k == CHOOSE i \in DOMAIN q : q[i] = p
      <3>1. k \in 1 .. c
        BY <2>2, <2>11
      <3>2. h[p] = heap[definitions_[all[k]]]
        BY <2>11
      <3> HIDE DEF k, h
      <3>3. all[k] \in D /\ definitions_[all[k]] \in Address
        BY <3>1, <2>10 DEF SessionInv, TypeOK
      <3> QED
        BY <1>4, <3>2, <3>3, LiveType DEF SessionInv
    <2>12. \A p \in Address : (\A i \in DOMAIN q : q[i] # p) => h[p] = heap[p]
      OBVIOUS
    <2>13. \A p \in Address : Live(p) => h[p] = heap[p]
      BY <2>2, <2>12
    <2>14. h \in [Address -> Object \cup {Freed}]
      BY <2>1, <2>11, <2>12
    <2>15. Store(h)
      BY <1>4
    <2> HIDE DEF h
    <2>16. ASSUME NEW n \in DOMAIN definitions_, definitions_[n] \notin lent
           PROVE  h[definitions_[n]] = heap[definitions_[n]]
      BY <1>4, <2>13 DEF SessionInv, TypeOK
    <2>17. ASSUME NEW p \in Referenced(stack_', definitions_, loop) \ lent
           PROVE  h[p] # Freed
      <3>1. CASE \E i \in 1 .. c : p = q[i]
        BY <3>1, <2>2, <2>11, ObjectNotFreed
      <3>2. CASE p \in Ref
        BY <3>2, <2>13, ReferencedType DEF SessionInv, OneOwner, Live
      <3>3. p \in Ref \/ \E i \in 1 .. c : p = q[i]
        BY <2>1, <2>3, <2>5 DEF Referenced
      <3> QED
        BY <3>1, <3>2, <3>3
    <2> QED
      BY <1>4, <2>1, <2>3, <2>4, <2>9, <2>14, <2>15, <2>16, <2>17, StackStep
  <1> QED
    BY <1>3, <1>4 DEF PushAll

-----------------------------------------------------------------------------
(* Operations on two networks: the upper one is changed in place, the lower *)
(* one is deleted.                                                          *)

(* The memory after an operation on result and another. *)
Combined(op, result, another) ==
    [[heap EXCEPT ![result].net = ApplyBinary(op, @, heap[another].net)] EXCEPT ![another] = Freed]

LEMMA CombinedType ==
    ASSUME SessionInv, NEW op \in BinaryOps \cup IteratedOps,
           NEW result \in Address, NEW another \in Address, Live(result), Live(another)
    PROVE  /\ Combined(op, result, another) \in [Address -> Object \cup {Freed}]
           /\ result # another => Combined(op, result, another)[result] # Freed
           /\ \A p \in Address \ {result, another} : Combined(op, result, another)[p] = heap[p]
  <1> DEFINE net == ApplyBinary(op, heap[result].net, heap[another].net)
             o == [heap[result] EXCEPT !.net = net]
  <1>1. heap \in [Address -> Object \cup {Freed}] /\ TypeOK
    BY DEF SessionInv, TypeOK
  <1>2. heap[result] \in Object /\ heap[result].net \in Nets /\ heap[another].net \in Nets
    BY <1>1, LiveType
  <1>3. net \in Nets
    BY <1>2, XfstAssumption
  <1> HIDE DEF net
  <1>4. o \in Object /\ o # Freed
    BY <1>2, <1>3, ObjectNotFreed DEF Object
  <1>5. Combined(op, result, another) = [[heap EXCEPT ![result] = o] EXCEPT ![another] = Freed]
    BY <1>1 DEF Combined, net
  <1> HIDE DEF o
  <1> QED
    BY <1>1, <1>4, <1>5

LEMMA BinaryAction ==
    ASSUME SessionInv, NEW op \in BinaryOps, BinaryOperation(op)
    PROVE  SessionInv'
  <1>1. /\ stack_ \in Seq(Address) /\ Len(stack_) \in Nat /\ DOMAIN stack_ = 1 .. Len(stack_)
        /\ Running /\ Len(stack_) >= 2 /\ Len(stack_) <= MaxStack
        /\ outcome = "running" /\ loop = << >> /\ fail_flag_ \in BOOLEAN
    BY DEF SessionInv, TypeOK, BinaryOperation, Running
  <1>2. CASE ~(Live(Top) /\ Live(Second)) /\ Undefined
    <2>1. stack_ # << >>
      BY <1>1
    <2> QED
      BY <1>1, <1>2, <2>1, Places, FoundFreed
  <1>3. CASE Aborted
    BY <1>3, EndStep DEF Aborted
  <1>4. CASE /\ xfst_fail
             /\ stack_' = Pop2 \o PushedBack(Top, Second)
             /\ UNCHANGED << heap, loop, lent, defined, settings >>
    <2>1. stack_' = stack_
      BY <1>1, <1>4, PushedBackIsStack
    <2> QED
      BY <1>4, <2>1, FailTypes, QuietStep DEF defined, settings
  <1>5. CASE /\ Live(Top) /\ Live(Second)
             /\ stack_' = Append(Pop2, Top)
             /\ UNCHANGED << defined, settings, loop >>
             /\ Store(Combined(op, Top, Second))
             /\ Lend(lent)
             /\ Done
    <2> DEFINE len == Len(stack_)
               h == Combined(op, Top, Second)
               m == [i \in 1 .. len - 1 |-> IF i = len - 1 THEN len ELSE i]
               Ref == Referenced(stack_, definitions_, loop)
    <2>1. /\ Top \in Address /\ Second \in Address /\ Pop2 \in Seq(Address) /\ Len(Pop2) = len - 2
          /\ \A i \in 1 .. len - 2 : Pop2[i] = stack_[i]
      BY <1>1, PopTwiceType
    <2>2. /\ h \in [Address -> Object \cup {Freed}]
          /\ Top # Second => h[Top] # Freed
          /\ \A p \in Address \ {Top, Second} : h[p] = heap[p]
      BY <1>5, <2>1, CombinedType
    <2>3. len \in Nat /\ len >= 2
      BY <1>1
    <2>4. /\ stack_' \in Seq(Address) /\ Len(stack_') = len - 1 /\ DOMAIN stack_' = 1 .. len - 1
          /\ stack_'[len - 1] = Top
          /\ \A i \in 1 .. len - 2 : stack_'[i] = stack_[i]
      BY <1>5, <2>1, <2>3
    <2>5. Len(stack_') <= MaxStack /\ loop' = loop /\ definitions_' = definitions_ /\ fail_flag_' \in BOOLEAN
      <3>1. loop' = loop /\ definitions_' = definitions_ /\ fail_flag_' \in BOOLEAN
        BY <1>1, <1>5 DEF Done, defined
      <3>2. MaxStack \in Nat /\ len <= MaxStack
        BY <1>1, XfstAssumption
      <3> QED
        BY <2>3, <2>4, <3>1, <3>2
    <2>6. DOMAIN stack_ = 1 .. len /\ Top = stack_[len] /\ Second = stack_[len - 1]
      BY <1>1 DEF Top, Second
    <2> HIDE DEF len
    <2>7. \A i \in 1 .. len - 1 : m[i] = IF i = len - 1 THEN len ELSE i
      OBVIOUS
    <2> HIDE DEF m, h
    <2>8. \A i \in 1 .. len - 1 : m[i] \in 1 .. len /\ stack_'[i] = stack_[m[i]]
      BY <2>3, <2>4, <2>6, <2>7
    <2>9. \A i, j \in 1 .. len - 1 : m[i] = m[j] => i = j
      BY <2>3, <2>7
    <2>10. Moved({}, {}, {}, m)
      BY <2>4, <2>5, <2>6, <2>8, <2>9 DEF Moved
    <2>11. len \in DOMAIN stack_ /\ len - 1 \in DOMAIN stack_ /\ len # len - 1
      BY <2>3, <2>6
    <2>12. ASSUME NEW p \in Ref \ lent
           PROVE  /\ p \in Address /\ Live(p)
                  /\ \A i, j \in DOMAIN stack_ : stack_[i] = p /\ stack_[j] = p => i = j
                  /\ \A i \in DOMAIN stack_, n \in DOMAIN definitions_ : stack_[i] = p => definitions_[n] # p
      BY ReferencedType DEF SessionInv, OneOwner
    <2>13. ASSUME NEW n \in DOMAIN definitions_, definitions_[n] \notin lent
           PROVE  h[definitions_[n]] = heap[definitions_[n]] /\ Live(definitions_[n])
      <3>1. definitions_[n] \in Ref \ lent
        BY <2>13, Places
      <3>2. definitions_[n] # Top /\ definitions_[n] # Second
        BY <2>6, <2>11, <2>12, <3>1
      <3> QED
        BY <2>2, <2>12, <3>1, <3>2
    <2>14. ASSUME NEW p \in Referenced(stack_', definitions_, loop) \ lent
           PROVE  h[p] # Freed
      <3>1. CASE p = Top
        <4>1. p \in Ref \ lent
          BY <2>6, <2>11, <3>1, Places
        <4>2. Top # Second
          BY <2>6, <2>11, <2>12, <3>1, <4>1
        <4> QED
          BY <2>2, <3>1, <4>2
      <3>2. CASE \E i \in 1 .. len - 2 : p = stack_[i]
        <4>1. PICK i \in 1 .. len - 2 : p = stack_[i]
          BY <3>2
        <4>2. i \in DOMAIN stack_ /\ i # len /\ i # len - 1
          BY <2>3, <2>6
        <4>3. p \in Ref \ lent
          BY <4>1, <4>2, Places
        <4>4. p # Top /\ p # Second
          BY <2>6, <2>11, <2>12, <4>1, <4>2, <4>3
        <4> QED
          BY <2>2, <2>12, <4>3, <4>4 DEF Live
      <3>3. CASE \E n \in DOMAIN definitions_ : p = definitions_[n]
        BY <3>3, <2>13 DEF Live
      <3>4. \A i \in DOMAIN stack_' : i = len - 1 \/ i \in 1 .. len - 2
        BY <2>3, <2>4
      <3>5. p = Top \/ (\E i \in 1 .. len - 2 : p = stack_[i]) \/ (\E n \in DOMAIN definitions_ : p = definitions_[n])
        BY <1>1, <2>4, <3>4 DEF Referenced
      <3> QED
        BY <3>1, <3>2, <3>3, <3>5
    <2>15. Store(h) /\ (loop # << >> => Len(stack_') < MaxStack)
      BY <1>1, <1>5 DEF h
    <2> QED
      BY <1>1, <1>5, <2>2, <2>4, <2>5, <2>10, <2>13, <2>14, <2>15, StackStep
  <1> QED
    BY <1>2, <1>3, <1>4, <1>5 DEF BinaryOperation, Combined

-----------------------------------------------------------------------------
(* The operations on all networks of the stack. *)

(* The result is popped and belongs to the loop. *)
LEMMA IterateFirstAction ==
    ASSUME SessionInv, NEW op \in IteratedOps, IterateFirst(op)
    PROVE  SessionInv'
  <1> DEFINE len == Len(stack_)
             Ref == Referenced(stack_, definitions_, loop)
  <1>1. /\ stack_ \in Seq(Address) /\ len \in Nat /\ DOMAIN stack_ = 1 .. len /\ stack_ # << >>
        /\ len >= 2 /\ len <= MaxStack /\ MaxStack \in Nat
        /\ outcome = "running" /\ loop = << >> /\ loop' = << op, Top >> /\ stack_' = Pop1
        /\ UNCHANGED << heap, lent, fail_flag_, definitions_, xre_, lists_, loaded, quit_on_fail, outcome >>
    BY XfstAssumption DEF SessionInv, TypeOK, IterateFirst, Running, defined, settings
  <1>2. /\ Top \in Address /\ Pop1 \in Seq(Address) /\ Len(Pop1) = len - 1
        /\ \A i \in 1 .. len - 1 : Pop1[i] = stack_[i]
    BY <1>1, PopType
  <1>3. /\ stack_' \in Seq(Address) /\ DOMAIN stack_' = 1 .. len - 1 /\ Len(stack_') = len - 1
        /\ \A i \in 1 .. len - 1 : stack_'[i] = stack_[i]
    BY <1>1, <1>2
  <1>4. /\ loop' # << >> /\ LoopResult' = Top /\ DOMAIN loop' \ {1} = {2} /\ loop'[2] = Top
        /\ loop' \in IteratedOps \X Address
    BY <1>1, <1>2 DEF LoopResult
  <1>5. len \in Nat /\ len >= 2 /\ DOMAIN stack_ = 1 .. len /\ Top = stack_[len]
    BY <1>1 DEF Top
  <1>6. Len(stack_') < MaxStack
    <2>1. len <= MaxStack /\ MaxStack \in Nat
      BY <1>1
    <2> HIDE DEF len
    <2> QED
      BY <2>1, <1>3, <1>5
  <1> HIDE DEF len
  <1>7. \A i \in DOMAIN stack_' : i \in DOMAIN stack_ /\ i # len /\ stack_'[i] = stack_[i]
    BY <1>3, <1>5
  <1>8. len \in DOMAIN stack_
    BY <1>5
  <1>9. Referenced(stack_', definitions_', loop') \subseteq Ref
    <2>1. Top \in Ref
      BY <1>5, <1>8, Places
    <2>2. \A i \in DOMAIN stack_' : stack_'[i] \in Ref
      BY <1>7, Places
    <2>3. \A n \in DOMAIN definitions_' : definitions_'[n] \in Ref
      BY <1>1, Places
    <2> HIDE DEF Ref
    <2> QED
      BY <1>4, <2>1, <2>2, <2>3 DEF Referenced
  <1>10. TypeOK'
    BY <1>1, <1>3, <1>4, <1>6 DEF SessionInv, TypeOK
  <1>11. OneOwner'
    <2>1. SUFFICES ASSUME NEW p \in Referenced(stack_', definitions_', loop') \ lent
                   PROVE  /\ Live(p)
                          /\ \A i, j \in DOMAIN stack_' : stack_'[i] = p /\ stack_'[j] = p => i = j
                          /\ \A m, n \in DOMAIN definitions_ : definitions_[m] = p /\ definitions_[n] = p => m = n
                          /\ \A i \in DOMAIN stack_', n \in DOMAIN definitions_ : stack_'[i] = p => definitions_[n] # p
                          /\ Top = p => /\ \A i \in DOMAIN stack_' : stack_'[i] # p
                                        /\ \A n \in DOMAIN definitions_ : definitions_[n] # p
      BY <1>1, <1>4 DEF OneOwner, Live
    <2>2. p \in Ref \ lent
      BY <1>9
    <2> QED
      BY <2>2, <1>5, <1>7, <1>8 DEF SessionInv, OneOwner
  <1>12. DefinitionsAgree'
    BY <1>1 DEF SessionInv, DefinitionsAgree, New
  <1> QED
    BY <1>6, <1>10, <1>11, <1>12 DEF SessionInv

(* The loop ends and pushes its result. *)
LEMMA LoopEnds ==
    ASSUME SessionInv, outcome = "running", loop # << >>,
           stack_' = Append(stack_, LoopResult), loop' = << >>, fail_flag_' \in BOOLEAN,
           UNCHANGED << heap, lent, definitions_, xre_, lists_, loaded, quit_on_fail, outcome >>
    PROVE  SessionInv'
  <1> DEFINE len == Len(stack_)
             Ref == Referenced(stack_, definitions_, loop)
  <1>1. /\ stack_ \in Seq(Address) /\ len \in Nat /\ DOMAIN stack_ = 1 .. len
        /\ len < MaxStack /\ MaxStack \in Nat
        /\ LoopResult \in Address
    BY XfstAssumption DEF SessionInv, TypeOK, LoopResult
  <1>2. /\ stack_' \in Seq(Address) /\ DOMAIN stack_' = 1 .. len + 1 /\ Len(stack_') = len + 1
        /\ \A i \in 1 .. len : stack_'[i] = stack_[i]
        /\ stack_'[len + 1] = LoopResult
    BY <1>1
  <1>3. len \in Nat /\ len < MaxStack /\ MaxStack \in Nat /\ DOMAIN stack_ = 1 .. len
    BY <1>1
  <1> HIDE DEF len
  <1>4. Len(stack_') <= MaxStack
    BY <1>2, <1>3
  <1>5. \A i \in DOMAIN stack_' : i # len + 1 => i \in DOMAIN stack_ /\ stack_'[i] = stack_[i]
    BY <1>2, <1>3
  <1>6. Referenced(stack_', definitions_', loop') \subseteq Ref
    <2>1. \A i \in DOMAIN stack_' : stack_'[i] \in Ref
      BY <1>2, <1>5, Places
    <2>2. \A n \in DOMAIN definitions_' : definitions_'[n] \in Ref
      BY Places
    <2> HIDE DEF Ref
    <2> QED
      BY <2>1, <2>2 DEF Referenced
  <1>7. TypeOK'
    BY <1>2, <1>4 DEF SessionInv, TypeOK
  <1>8. OneOwner'
    <2>1. SUFFICES ASSUME NEW p \in Referenced(stack_', definitions_', loop') \ lent
                   PROVE  /\ Live(p)
                          /\ \A i, j \in DOMAIN stack_' : stack_'[i] = p /\ stack_'[j] = p => i = j
                          /\ \A m, n \in DOMAIN definitions_ : definitions_[m] = p /\ definitions_[n] = p => m = n
                          /\ \A i \in DOMAIN stack_', n \in DOMAIN definitions_ : stack_'[i] = p => definitions_[n] # p
      BY DEF OneOwner, Live
    <2>2. p \in Ref \ lent
      BY <1>6
    <2> QED
      BY <2>2, <1>2, <1>5 DEF SessionInv, OneOwner
  <1>9. DefinitionsAgree'
    BY DEF SessionInv, DefinitionsAgree, New
  <1> QED
    BY <1>7, <1>8, <1>9 DEF SessionInv

LEMMA LoopEndActions ==
    ASSUME SessionInv, IterateTypesDiffer \/ IterateLast
    PROVE  SessionInv'
  <1>1. CASE IterateTypesDiffer /\ Aborted
    BY <1>1, EndStep DEF Aborted
  <1>2. CASE /\ LoopReady
             /\ xfst_lesser_fail
             /\ stack_' = Append(stack_, LoopResult)
             /\ loop' = << >>
             /\ UNCHANGED << heap, lent, defined, settings >>
    BY <1>2, FailTypes, LoopEnds DEF LoopReady, defined, settings
  <1>3. CASE IterateLast
    <2>1. stack_' = Append(stack_, LoopResult)
      BY <1>3 DEF IterateLast
    <2>2. fail_flag_' \in BOOLEAN
      BY <1>3, FailTypes DEF IterateLast
    <2> QED
      BY <1>3, <2>1, <2>2, LoopEnds DEF IterateLast, defined, settings
  <1> QED
    BY <1>1, <1>2, <1>3 DEF IterateTypesDiffer

(* The next network is combined with the result and deleted, or the         *)
(* operation throws and the result is lost.                                 *)
LEMMA IterateNextAction ==
    ASSUME SessionInv, IterateNext
    PROVE  SessionInv'
  <1> DEFINE len == Len(stack_)
             m == [i \in 1 .. len |-> i]
             Ref == Referenced(stack_, definitions_, loop)
  <1>1. /\ outcome = "running" /\ loop # << >> /\ stack_ # << >> /\ Live(LoopResult) /\ Live(Top)
        /\ Lend(lent) /\ UNCHANGED << xre_, lists_, loaded, settings >>
        /\ heap \in [Address -> Object \cup {Freed}] /\ TypeOK
    BY DEF IterateNext, LoopReady, SessionInv, TypeOK
  <1>2. /\ stack_ \in Seq(Address) /\ len \in Nat \ {0} /\ DOMAIN stack_ = 1 .. len
        /\ Top \in Address /\ Top = stack_[len] /\ LoopResult \in Address /\ loop[1] \in IteratedOps
    BY <1>1, PopType DEF TypeOK, LoopResult, Top
  <1>3. len < MaxStack /\ MaxStack \in Nat
    BY <1>1, XfstAssumption DEF SessionInv
  <1>4. CASE /\ stack_' = Pop1
             /\ UNCHANGED << loop, definitions_, fail_flag_ >>
             /\ Store(Combined(loop[1], LoopResult, Top))
    <2> DEFINE h == Combined(loop[1], LoopResult, Top)
    <2>1. /\ stack_' \in Seq(Address) /\ Len(stack_') = len - 1 /\ DOMAIN stack_' = 1 .. len - 1
          /\ \A i \in 1 .. len - 1 : stack_'[i] = stack_[i]
      <3>1. stack_ \in Seq(Address) /\ stack_ # << >> /\ stack_' = Pop1
        BY <1>1, <1>2, <1>4
      <3> QED
        BY <3>1, PopType
    <2>2. /\ h \in [Address -> Object \cup {Freed}]
          /\ LoopResult # Top => h[LoopResult] # Freed
          /\ \A p \in Address \ {LoopResult, Top} : h[p] = heap[p]
      BY <1>1, <1>2, CombinedType
    <2>3. len \in Nat \ {0} /\ DOMAIN stack_ = 1 .. len /\ Top = stack_[len]
      BY <1>2
    <2>4. \A i \in 1 .. len : m[i] = i
      OBVIOUS
    <2> HIDE DEF len, m, h
    <2>5. Len(stack_') < MaxStack /\ Len(stack_') <= MaxStack
      BY <1>3, <2>1, <2>3
    <2>6. \A i \in DOMAIN stack_' : m[i] = i /\ i \in DOMAIN stack_ /\ i # len /\ stack_'[i] = stack_[i]
      BY <2>1, <2>3, <2>4
    <2>7. Moved({}, {}, {}, m)
      BY <1>4, <2>6 DEF Moved
    <2>8. len \in DOMAIN stack_
      BY <2>3
    <2>9. LoopResult \in Ref
      BY <1>1, Places
    <2>10. ASSUME NEW p \in Ref \ lent
           PROVE  /\ p \in Address /\ Live(p)
                  /\ \A i, j \in DOMAIN stack_ : stack_[i] = p /\ stack_[j] = p => i = j
                  /\ \A i \in DOMAIN stack_, n \in DOMAIN definitions_ : stack_[i] = p => definitions_[n] # p
                  /\ LoopResult = p => /\ \A i \in DOMAIN stack_ : stack_[i] # p
                                       /\ \A n \in DOMAIN definitions_ : definitions_[n] # p
      BY <1>1, ReferencedType DEF SessionInv, OneOwner
    <2>11. ASSUME NEW n \in DOMAIN definitions_, definitions_[n] \notin lent
           PROVE  h[definitions_[n]] = heap[definitions_[n]] /\ Live(definitions_[n])
      <3>1. definitions_[n] \in Ref \ lent
        BY <2>11, Places
      <3>2. definitions_[n] # Top /\ definitions_[n] # LoopResult
        BY <2>3, <2>8, <2>10, <3>1
      <3> QED
        BY <2>2, <2>10, <3>1, <3>2
    <2>12. ASSUME NEW p \in Referenced(stack_', definitions_, loop) \ lent
           PROVE  h[p] # Freed
      <3>1. CASE p = LoopResult
        BY <2>2, <2>3, <2>8, <2>9, <2>10, <3>1
      <3>2. CASE \E i \in DOMAIN stack_' : p = stack_'[i]
        <4>1. PICK i \in DOMAIN stack_' : p = stack_[i] /\ i \in DOMAIN stack_ /\ i # len
          BY <2>6, <3>2
        <4>2. p \in Ref \ lent
          BY <4>1, Places
        <4>3. p # Top /\ p # LoopResult
          BY <2>3, <2>8, <2>10, <4>1, <4>2
        <4> QED
          BY <2>2, <2>10, <4>2, <4>3 DEF Live
      <3>3. CASE \E n \in DOMAIN definitions_ : p = definitions_[n]
        BY <3>3, <2>11 DEF Live
      <3>4. \A i \in DOMAIN loop \ {1} : loop[i] = LoopResult
        BY <1>1 DEF TypeOK, LoopResult
      <3> QED
        BY <3>1, <3>2, <3>3, <3>4 DEF Referenced
    <2>13. Store(h) /\ UNCHANGED << defined, settings, loop >> /\ fail_flag_' \in BOOLEAN
      BY <1>1, <1>4 DEF h, defined, TypeOK
    <2> QED
      BY <1>1, <2>1, <2>2, <2>5, <2>7, <2>11, <2>12, <2>13, StackStep
  <1>5. CASE /\ xfst_lesser_fail
             /\ loop' = << >>
             /\ UNCHANGED << stack_, definitions_ >>
             /\ Store(heap)
    <2> DEFINE h == heap
               M == {}
    <2>1. \A i \in DOMAIN stack_ : m[i] = i
      BY <1>2
    <2> HIDE DEF m
    <2>2. Moved({}, {}, M, m)
      BY <1>5, <2>1 DEF Moved
    <2>3. Referenced(stack_', definitions_', loop') \subseteq Ref
      BY <1>5 DEF Referenced
    <2>4. \A p \in Referenced(stack_', definitions_', loop') \ lent : h[p] # Freed
      BY <2>3 DEF SessionInv, OneOwner, Live
    <2>5. \A n \in DOMAIN definitions_' \ M :
              /\ n \in loaded => n \in loaded'
              /\ n \in DOMAIN xre_ => n \in DOMAIN xre_' /\ xre_'[n] = xre_[n]
              /\ definitions_[n] \notin lent => h[definitions_[n]] = heap[definitions_[n]]
      BY <1>1
    <2>6. \A n \in DOMAIN definitions_' \cap M :
              n \in loaded' \/ (n \in DOMAIN xre_' /\ h[definitions_'[n]] = New(xre_'[n]))
      OBVIOUS
    <2>7. h \in [Address -> Object \cup {Freed}] /\ Store(h)
      BY <1>1, <1>5
    <2>8. /\ UNCHANGED << outcome, lists_, quit_on_fail >> /\ fail_flag_' \in BOOLEAN
          /\ loop' # << >> => Len(stack_') < MaxStack
      BY <1>1, <1>5, FailTypes DEF settings
    <2>9. /\ stack_' \in Seq(Address) /\ Len(stack_') <= MaxStack
          /\ DOMAIN definitions_' \subseteq Names
          /\ \A n \in DOMAIN definitions_' : definitions_'[n] \in Address
          /\ DOMAIN xre_' \subseteq Names
          /\ \A n \in DOMAIN xre_' : xre_'[n] \in Nets
          /\ loaded' \subseteq Names
      BY <1>1, <1>5 DEF TypeOK
    <2>10. outcome = "running" /\ Lend(lent)
      BY <1>1
    <2> HIDE DEF h, M
    <2> QED
      BY <2>2, <2>4, <2>5, <2>6, <2>7, <2>8, <2>9, <2>10, StoreStep
  <1> QED
    BY <1>4, <1>5 DEF IterateNext, Combined

-----------------------------------------------------------------------------
(* Every command keeps the invariant. *)

LEMMA InitOK == Init => SessionInv
  <1> SUFFICES ASSUME Init
               PROVE  SessionInv
    OBVIOUS
  <1>1. TypeOK
    <2>1. heap \in [Address -> Object \cup {Freed}]
      BY DEF Init
    <2>2. stack_ \in Seq(Address) /\ Len(stack_) <= MaxStack
      BY XfstAssumption, EmptySeq DEF Init
    <2>3. DOMAIN definitions_ = {} /\ DOMAIN xre_ = {}
      BY DEF Init
    <2>4. quit_on_fail \in BOOLEAN /\ fail_flag_ \in BOOLEAN
      BY DEF Init
    <2> QED
      BY <2>1, <2>2, <2>3, <2>4 DEF Init, TypeOK
  <1>2. OneOwner
    BY DEF Init, OneOwner, Referenced
  <1> QED
    BY <1>1, <1>2 DEF Init, SessionInv, DefinitionsAgree

LEMMA StepOK == SessionInv /\ [Next]_vars => SessionInv'
  <1> SUFFICES ASSUME SessionInv, [Next]_vars
               PROVE  SessionInv'
    OBVIOUS
  <1>1. CASE DefinitionCommand
    BY <1>1, DefineActions, UndefineAction, QuietActions DEF DefinitionCommand
  <1>2. CASE StackCommand
    <2>1. CASE \/ \E r \in Regex : ReadRegex(r)
               \/ \E t \in Literals, optimized \in BOOLEAN : LoadStack(t, optimized)
      BY <2>1, PushActions
    <2>2. CASE \E n \in Names : PushName(n)
      BY <2>2, PushNameAction
    <2>3. CASE PushAll
      BY <2>3, PushAllAction
    <2>4. CASE pop \/ clear \/ turn \/ rotate
      BY <2>4, RearrangeActions
    <2> QED
      BY <1>2, <2>1, <2>2, <2>3, <2>4 DEF StackCommand
  <1>3. CASE NetCommand
    <2>1. CASE (\E op \in UnaryOps : UnaryOperation(op)) \/ (\E n \in Names : substitute_named(n))
      BY <2>1, UnaryActions
    <2>2. CASE \E op \in UnimplementedOps : UnaryNotImplemented(op)
      BY <2>2, QuietActions
    <2>3. CASE (\E op \in ReplacingOps : ReplaceTop(op)) \/ sigma_net \/ substitute_symbol
      BY <2>3, PushActions
    <2>4. CASE NegateAborts
      BY <2>4, EndActions
    <2>5. CASE SubstituteSymbolFails
      BY <2>5, RearrangeActions
    <2>6. CASE \E op \in BinaryOps : BinaryOperation(op)
      BY <2>6, BinaryAction
    <2>7. CASE \E op \in IteratedOps : IterateFirst(op)
      BY <2>7, IterateFirstAction
    <2>8. CASE \E optimized \in BOOLEAN : Convert(optimized)
      BY <2>8, ConvertAction
    <2> QED
      BY <1>3, <2>1, <2>2, <2>3, <2>4, <2>5, <2>6, <2>7, <2>8 DEF NetCommand
  <1>4. CASE Loop
    BY <1>4, IterateNextAction, LoopEndActions, EndActions DEF Loop
  <1>5. CASE LesserFail \/ Fail \/ TopFreed \/ (\E on \in BOOLEAN : SetQuitOnFail(on)) \/ quit
    BY <1>5, QuietActions, EndActions
  <1>6. CASE UNCHANGED vars
    BY <1>6, FailTypes, QuietStep DEF vars, SessionInv, TypeOK
  <1> QED
    BY <1>1, <1>2, <1>3, <1>4, <1>5, <1>6 DEF Next

(* The invariant holds in every session, and with it its three parts.       *)
THEOREM SessionInvHolds == Spec => []SessionInv
  BY InitOK, StepOK, PTL DEF Spec

(* Every pointer of the session is an address, no command leaves more than  *)
(* MaxStack networks on the stack, and what the memory holds is a network   *)
(* or nothing, whatever the library's operations make of networks.          *)
THEOREM TypeHolds == Spec => []TypeOK
  <1>1. SessionInv => TypeOK
    BY DEF SessionInv
  <1> QED
    BY <1>1, SessionInvHolds, PTL

(* No command deletes or shares a network that another place still points   *)
(* to, unless a definition was pushed by its name; a session that never     *)
(* does that never touches freed memory.                                    *)
THEOREM OneOwnerHolds == Spec => []OneOwner
  <1>1. SessionInv => OneOwner
    BY DEF SessionInv
  <1> QED
    BY <1>1, SessionInvHolds, PTL

(* A name means the same network to the stack commands and to regular       *)
(* expressions, for every definition that was neither pushed by name nor    *)
(* loaded from a file: no command changes a defined network in place.       *)
THEOREM DefinitionsAgreeHolds == Spec => []DefinitionsAgree
  <1>1. SessionInv => DefinitionsAgree
    BY DEF SessionInv
  <1> QED
    BY <1>1, SessionInvHolds, PTL

-----------------------------------------------------------------------------
(* Commands that fail. *)

LEMMA FailingStep ==
    ASSUME SessionInv, Next, loop = << >>, fail_flag_' # fail_flag_
    PROVE  UNCHANGED << heap, stack_ >> \/ SubstituteSymbolFails
  <1> USE DEF Done
  <1>1. ~(\E how \in {"quit", "aborted", "undefined"} : End(how))
    BY DEF End
  <1>2. CASE DefinitionCommand
    BY <1>2 DEF DefinitionCommand, DefineTop, DefineRegex, Undefine, DefineList, Unlist, LoadDefinition
  <1>3. CASE StackCommand
    BY <1>1, <1>3 DEF StackCommand, ReadRegex, PushNew, LoadStack, PushName, PushAll, pop, clear,
       turn, rotate, NewStack, Undefined
  <1>4. CASE NetCommand
    <2>1. CASE \/ \E op \in UnaryOps : UnaryOperation(op)
               \/ \E op \in ReplacingOps : ReplaceTop(op)
               \/ NegateAborts \/ sigma_net \/ substitute_symbol
               \/ \E op \in IteratedOps : IterateFirst(op)
      BY <1>1, <2>1 DEF UnaryOperation, ReplaceTop, PushNew, NegateAborts, sigma_net,
         substitute_symbol, IterateFirst, Aborted
    <2>2. CASE \E op \in UnimplementedOps : UnaryNotImplemented(op)
      BY <2>2, PushedBackIsStack DEF UnaryNotImplemented, HasTop, SessionInv, TypeOK
    <2>3. CASE SubstituteSymbolFails
      BY <2>3
    <2>4. CASE \E n \in Names : substitute_named(n)
      BY <1>1, <2>4 DEF substitute_named, Undefined, Aborted
    <2>5. CASE \E op \in BinaryOps : BinaryOperation(op)
      BY <1>1, <2>5, PushedBackIsStack DEF BinaryOperation, Undefined, Aborted, SessionInv, TypeOK
    <2>6. CASE \E optimized \in BOOLEAN : Convert(optimized)
      BY <1>1, <2>6 DEF Convert, Undefined
    <2> QED
      BY <1>4, <2>1, <2>2, <2>3, <2>4, <2>5, <2>6 DEF NetCommand
  <1>5. CASE Loop
    BY <1>5 DEF Loop, IterateNext, IterateTypesDiffer, IterateFreed, IterateLast, LoopReady
  <1>6. CASE LesserFail \/ Fail \/ TopFreed \/ (\E on \in BOOLEAN : SetQuitOnFail(on)) \/ quit
    BY <1>1, <1>6 DEF LesserFail, Fail, TopFreed, SetQuitOnFail, quit, Keep, Undefined
  <1> QED
    BY <1>2, <1>3, <1>4, <1>5, <1>6 DEF Next

(* A command that raises the failure flag leaves the stack and the networks *)
(* on it as it found them, also when it had popped them before it failed;   *)
(* the one exception is a failed substitution.                              *)
THEOREM ErrorsKeepStackHolds == Spec => ErrorsKeepStack
  <1>1. ASSUME SessionInv, [Next]_vars
        PROVE  [fail_flag_' /\ ~fail_flag_ /\ loop = << >> =>
                  Contents' = Contents \/ SubstituteSymbolFails]_vars
    <2>1. SUFFICES ASSUME Next, fail_flag_', ~fail_flag_, loop = << >>
                   PROVE  Contents' = Contents \/ SubstituteSymbolFails
      BY <1>1
    <2>2. fail_flag_' # fail_flag_
      BY <2>1
    <2>3. UNCHANGED << heap, stack_ >> \/ SubstituteSymbolFails
      BY <1>1, <2>1, <2>2, FailingStep
    <2> QED
      BY <2>3 DEF Contents
  <1> QED
    BY <1>1, SessionInvHolds, PTL DEF Spec, ErrorsKeepStack

=============================================================================

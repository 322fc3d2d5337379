------------------------- MODULE ExplorationProofs -------------------------
(***************************************************************************)
(* An exploration finds exactly the states that can be reached.  What is   *)
(* shown to implement Exploration inherits both halves: the back           *)
(* conversion (OlToBasic) and the intersecting composition                 *)
(* (ComposeIntersect).                                                     *)
(***************************************************************************)
EXTENDS Exploration, TLAPS

\* The inductive invariant: only what was found is finished, and no edge
\* leads from a finished state to one that was not found.
ExplorationInv ==
    /\ root \in found
    /\ finished \subseteq found
    /\ \A e \in edges : e[1] \in finished => e[2] \in found

\* Every step of the agenda keeps the invariant: a state counts as finished
\* only with all its successors found.
LEMMA InvariantKept == ExplorationInv /\ [Next]_vars => ExplorationInv'
<1> SUFFICES ASSUME ExplorationInv, [Next]_vars
             PROVE  ExplorationInv'
  OBVIOUS
<1>1. ASSUME NEW s \in found, Find(s)
      PROVE  ExplorationInv'
  <2>1. found \subseteq found'
    BY <1>1 DEF Find
  <2>2. root' = root /\ edges' = edges /\ finished' = finished
    BY <1>1 DEF Find
  <2> QED
    BY <2>1, <2>2 DEF ExplorationInv
<1>2. ASSUME NEW s \in found, Finish(s)
      PROVE  ExplorationInv'
  <2>1. root' = root /\ edges' = edges /\ finished' = finished \cup {s}
    BY <1>2 DEF Finish
  <2>2. found' = found \cup Successors(s)
    BY <1>2 DEF Finish
  <2>3. ASSUME NEW e \in edges, e[1] \in finished \cup {s}
        PROVE  e[2] \in found'
    <3>1. CASE e[1] \in finished
      BY <3>1, <2>2 DEF ExplorationInv
    <3>2. CASE e[1] = s
      BY <3>2, <2>2 DEF Successors
    <3> QED
      BY <2>3, <3>1, <3>2
  <2> QED
    BY <2>1, <2>2, <2>3 DEF ExplorationInv
<1>3. CASE UNCHANGED vars
  BY <1>3 DEF vars, ExplorationInv
<1> QED
  BY <1>1, <1>2, <1>3 DEF Next

\* Nothing that can be reached is missed: when every state that was found is
\* finished, the states found hold the root and every target of an edge from
\* one of them.
THEOREM EverythingFound == Exploring => []AllReachable
<1>1. Init => ExplorationInv
  BY DEF Init, ExplorationInv
<1>2. ExplorationInv => AllReachable
  BY DEF ExplorationInv, AllReachable, Closed
<1> QED
  BY <1>1, <1>2, InvariantKept, PTL DEF Exploring

\* Nothing else is found: any set that holds the root and is closed under the
\* edges holds everything that is found, at any time.
THEOREM NothingElseFound ==
    ASSUME NEW S
    PROVE  Exploring /\ Closed(S) => [](found \subseteq S)
<1> DEFINE Inside == Closed(S) /\ found \subseteq S
<1>1. Init /\ Closed(S) => Inside
  BY DEF Init, Closed
<1>2. Inside /\ [Next]_vars => Inside'
  <2> SUFFICES ASSUME Inside, [Next]_vars
               PROVE  Inside'
    OBVIOUS
  <2>1. ASSUME NEW s \in found
        PROVE  Successors(s) \subseteq S
    BY <2>1 DEF Closed, Successors
  <2>2. ASSUME NEW s \in found, Find(s)
        PROVE  Inside'
    <3>1. found' \subseteq found \cup Successors(s)
      BY <2>2 DEF Find
    <3>2. root' = root /\ edges' = edges
      BY <2>2 DEF Find
    <3> QED
      BY <3>1, <3>2, <2>1, <2>2 DEF Closed
  <2>3. ASSUME NEW s \in found, Finish(s)
        PROVE  Inside'
    <3>1. found' = found \cup Successors(s)
      BY <2>3 DEF Finish
    <3>2. root' = root /\ edges' = edges
      BY <2>3 DEF Finish
    <3> QED
      BY <3>1, <3>2, <2>1, <2>3 DEF Closed
  <2>4. CASE UNCHANGED vars
    BY <2>4 DEF vars, Closed
  <2> QED
    BY <2>2, <2>3, <2>4 DEF Next
<1>3. Inside => found \subseteq S
  OBVIOUS
<1> HIDE DEF Inside
<1> QED
  BY <1>1, <1>2, <1>3, PTL DEF Exploring

=============================================================================

---------------------------- MODULE Exploration ----------------------------
(***************************************************************************)
(* What an agenda promises: exactly the states reachable from a root are   *)
(* found, each is finished once, and the work ends when every state that   *)
(* was found is finished.  The conversion of optimized-lookup tables to a  *)
(* graph and the intersecting composition implement this specification.    *)
(***************************************************************************)

VARIABLES
    root,                   \* where the exploration starts
    edges,                  \* the << source, target >> pairs to be followed
    found,                  \* states met so far
    finished                \* states all of whose successors have been found

vars == << root, edges, found, finished >>

Successors(s) == {e[2] : e \in {d \in edges : d[1] = s}}

Init ==
    /\ found = {root}
    /\ finished = {}

\* Some successors of an unfinished state are found.
Find(s) ==
    /\ s \in found \ finished
    /\ found' \in {found \cup S : S \in SUBSET Successors(s)}
    /\ UNCHANGED << root, edges, finished >>

\* The remaining successors are found, and the state is done with.
Finish(s) ==
    /\ s \in found \ finished
    /\ found' = found \cup Successors(s)
    /\ finished' = finished \cup {s}
    /\ UNCHANGED << root, edges >>

Next == \E s \in found : Find(s) \/ Finish(s)

Exploring == Init /\ [][Next]_vars

\* Every state that is found is finished, and then nothing is left to do.
Spec == Exploring /\ <>[](found = finished)

-----------------------------------------------------------------------------
(* What follows from it (ExplorationProofs): a set that holds the root and  *)
(* is closed under the edges holds what was found, and when everything      *)
(* found is finished it is itself such a set, so it is the least one.       *)

Closed(S) == root \in S /\ \A e \in edges : e[1] \in S => e[2] \in S

AllReachable == found = finished => Closed(found)

=============================================================================

----------------------------- MODULE MCOlLookup -----------------------------
(***************************************************************************)
(* Instances of OlLookup: a few transducers, each made to exercise one     *)
(* part of the search, and short inputs over their symbols and one symbol  *)
(* that is not in the alphabet.                                            *)
(***************************************************************************)
EXTENDS OlLookup

CONSTANT Chosen

MCLimits == {-1, 0, 2}

E == "@0@"
ID == "@_IDENTITY_SYMBOL_@"
UNK == "@_UNKNOWN_SYMBOL_@"
DFLT == "@_DEFAULT_SYMBOL_@"

MCFlagOperation ==
    [n \in {"@C.F@", "@P.F.A@", "@P.F.B@", "@R.F.A@", "@R.F.B@", "@N.F.A@", "@U.F.A@", "@D.F@"} |->
      CASE n = "@C.F@"   -> [op |-> "C", feature |-> "F", value |-> 0]
        [] n = "@P.F.A@" -> [op |-> "P", feature |-> "F", value |-> 2]
        [] n = "@P.F.B@" -> [op |-> "P", feature |-> "F", value |-> 3]
        [] n = "@R.F.A@" -> [op |-> "R", feature |-> "F", value |-> 2]
        [] n = "@R.F.B@" -> [op |-> "R", feature |-> "F", value |-> 3]
        [] n = "@N.F.A@" -> [op |-> "N", feature |-> "F", value |-> 2]
        [] n = "@U.F.A@" -> [op |-> "U", feature |-> "F", value |-> 2]
        [] n = "@D.F@"   -> [op |-> "D", feature |-> "F", value |-> 0]]

MCFlags == DOMAIN MCFlagOperation
MCOrder == << E, "@C.F@", "@D.F@", "@N.F.A@", "@P.F.A@", "@P.F.B@", "@R.F.A@", "@R.F.B@", "@U.F.A@",
              DFLT, ID, UNK, "a", "b", "x", "y" >>

A(in, out, target, weight) == [in |-> in, out |-> out, target |-> target, weight |-> weight]

G(rows, finals) ==
    [size |-> Len(rows),
     arcs |-> [s \in 0 .. Len(rows) - 1 |-> rows[s + 1]],
     final |-> [s \in 0 .. Len(rows) - 1 |-> IF s \in finals THEN {s} ELSE {}]]

Zoo ==
  [ambiguous |->      \* several transitions with one symbol, epsilons before and after
     G(<< << A("a", "x", 1, 1), A(E, "y", 1, 2), A("a", "y", 2, 1), A("b", E, 0, 1) >>,
          << A("a", "y", 2, 3), A(E, "x", 2, 1) >>,
          << >> >>, {1, 2}),
   agreement |->      \* a prefix sets a flag, suffixes require, disallow or unify it
     G(<< << A("@P.F.A@", "@P.F.A@", 1, 1), A("@N.F.A@", E, 1, 2), A("a", "x", 1, 0) >>,
          << A("a", "a", 2, 1), A("b", "b", 0, 1) >>,
          << A("@R.F.A@", E, 3, 1), A("@U.F.A@", E, 3, 2), A("@D.F@", E, 3, 3) >>,
          << >> >>, {3}),
   wildcards |->      \* identity and unknown on both sides, and a plain symbol
     G(<< << A(ID, ID, 0, 1), A(UNK, "x", 1, 1), A("a", "b", 1, 1) >>,
          << A(UNK, UNK, 1, 2), A("a", ID, 0, 1) >> >>, {1}),
   default |->        \* default against a plain symbol
     G(<< << A(DFLT, DFLT, 1, 1), A("a", "x", 1, 2) >>,
          << A(DFLT, "y", 0, 1) >> >>, {0, 1}),
   epsilonloop |->    \* a loop that only the recursion depth ends
     G(<< << A(E, "x", 0, 1), A("a", "y", 1, 1) >>, << >> >>, {1}),
   outputonly |->     \* unknown is only an output: its index entry is outside the table
     G(<< << A("a", UNK, 0, 1) >> >>, {0}),
   comeback |->       \* two flags lead to one state, with the same flag values before them
     G(<< << A("@P.F.A@", E, 1, 1) >>,
          << A("@C.F@", E, 2, 1), A("@R.F.B@", E, 3, 1) >>,
          << A("@P.F.B@", E, 1, 1) >>,
          << >> >>, {3}),
   startloop |->      \* a loop through the start state that sets a flag
     G(<< << A("@P.F.A@", E, 1, 1) >>,
          << A(E, "x", 0, 1), A("a", "y", 2, 1) >>,
          << >> >>, {2}),
   flagloop |->       \* a loop of one flag, entered before the input is read
     G(<< << A("@C.F@", E, 0, 1), A("a", "x", 1, 1) >>, << >> >>, {1}),
   siblingloop |->    \* an epsilon branch that reads input, then an epsilon loop
     G(<< << A(E, "x", 1, 0), A(E, "y", 0, 0) >>,
          << A("a", "x", 2, 0) >>,
          << >> >>, {2}),
   lateloop |->       \* a loop over two states that is reached after an input symbol
     G(<< << A("a", "x", 1, 1), A("b", "y", 3, 1) >>,
          << A("@P.F.A@", E, 2, 1), A("b", "y", 3, 1) >>,
          << A(E, "y", 1, 1) >>,
          << A("@P.F.B@", E, 4, 1) >>,
          << A("@R.F.A@", E, 3, 1), A("a", "y", 1, 1) >> >>, {1, 3})]

MCGraphs == {Zoo[n] : n \in Chosen}

=============================================================================

---------------------------- MODULE MCProcLookup ----------------------------
(***************************************************************************)
(* Instances of ProcLookup: small weighted analysers without epsilon       *)
(* cycles.  The words are all sequences of up to MaxSteps symbols,         *)
(* upper case letters that only ProcTransducerAlphabet knows included.     *)
(***************************************************************************)
EXTENDS ProcLookup

CONSTANTS Chosen

E == "@0@"

MCFlagOperation ==
    [n \in {"@P.F.A@", "@R.F.A@", "@D.F@"} |->
      CASE n = "@P.F.A@" -> [op |-> "P", feature |-> "F", value |-> 2]
        [] n = "@R.F.A@" -> [op |-> "R", feature |-> "F", value |-> 2]
        [] n = "@D.F@"   -> [op |-> "D", feature |-> "F", value |-> 0]]

MCFlags == DOMAIN MCFlagOperation
MCUpperName == [n \in {"a", "b"} |-> IF n = "a" THEN "A" ELSE "B"]
MCOrder == << " ", "#", E, "@D.F@", "@P.F.A@", "@R.F.A@", "A", "a", "b", "x", "y" >>

MCSettings ==
    { [fold |-> TRUE,  compounds |-> TRUE,  analyses |-> 9, classes |-> 2],
      [fold |-> TRUE,  compounds |-> FALSE, analyses |-> 2, classes |-> 9],
      [fold |-> FALSE, compounds |-> FALSE, analyses |-> 2, classes |-> 1],
      [fold |-> FALSE, compounds |-> TRUE,  analyses |-> 1, classes |-> 2] }

Arc1(in, out, target, weight) == [in |-> in, out |-> out, target |-> target, weight |-> weight]

G(rows, finals) ==
    [size |-> Len(rows),
     arcs |-> [s \in 0 .. Len(rows) - 1 |-> rows[s + 1]],
     final |-> [s \in 0 .. Len(rows) - 1 |-> IF s \in finals THEN {s} ELSE {}]]

Zoo ==
  [epsilons |->       \* epsilons before, between and after the letters; no "a" for "A"
     G(<< << Arc1(E, "x", 1, 1), Arc1("A", "y", 1, 1), Arc1("A", "x", 2, 4) >>,
          << Arc1("A", "A", 2, 2), Arc1(E, "y", 2, 1), Arc1("b", "b", 0, 1) >>,
          << Arc1(E, "x", 3, 3) >>,
          << >> >>, {2, 3}),
   agreement |->      \* a flag that is set or not, and asked for at the end
     G(<< << Arc1("@P.F.A@", E, 1, 1), Arc1("A", "x", 1, 0), Arc1("a", "y", 1, 2) >>,
          << Arc1("a", "a", 2, 1), Arc1("A", "a", 2, 1) >>,
          << Arc1("@R.F.A@", "x", 3, 1), Arc1("@D.F@", "y", 3, 2) >>,
          << >> >>, {3}),
   compounds |->      \* one word, or two with a boundary between them
     G(<< << Arc1("a", "a", 1, 1), Arc1("b", "b", 1, 2), Arc1("a", "x", 2, 1) >>,
          << Arc1(E, "#", 0, 1), Arc1("b", "y", 2, 9) >>,
          << Arc1("b", "b", 2, 1) >> >>, {1, 2}),
   duplicates |->     \* one analysis by two ways of different weight
     G(<< << Arc1("a", "x", 1, 1), Arc1("a", "x", 2, 5), Arc1("a", "y", 1, 3) >>,
          << >>,
          << >> >>, {1, 2})]

MCGraphs == {Zoo[n] : n \in Chosen}
=============================================================================

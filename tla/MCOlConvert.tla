----------------------------- MODULE MCOlConvert -----------------------------
(***************************************************************************)
(* Small instances of OlConvert.  A transducer is put together by giving    *)
(* each of its states one of a few rows of transitions; the last state is  *)
(* final, the start state too when it is one of FinalStart.                *)
(***************************************************************************)
EXTENDS OlConvert

CONSTANTS NumStates, Rows, FinalStart

MCStates == 0 .. NumStates - 1

\* A row is a sequence of << input, output, target, weight >>.
ArcsOf(row) ==
    [k \in DOMAIN row |-> [in |-> row[k][1], out |-> row[k][2],
                           target |-> row[k][3] % NumStates, weight |-> row[k][4]]]

MCGraphs ==
    {[size |-> NumStates,
      arcs |-> [s \in MCStates |-> ArcsOf(rows[s])],
      final |-> [s \in MCStates |-> IF s = NumStates - 1 \/ (s = 0 /\ f) THEN {7 + s} ELSE {}]] :
       rows \in [MCStates -> Rows], f \in FinalStart}

MCOrder == << "@0@", "@U.F.A@", "@U.F.B@", "a", "b", "c", "d" >>
MCFlags == {"@U.F.A@", "@U.F.B@"}

\* Rows for the layout of the transition table: symbols out of order,
\* repeated, epsilons and flags after them, an output symbol that is never
\* an input, a flag that is only an output.
LayoutRows ==
    { << >>,
      << << "a", "d", 0, 1 >> >>,
      << << "@U.F.B@", "@U.F.B@", 1, 1 >>, << "@0@", "a", 2, 2 >>, << "@U.F.A@", "@0@", 2, 3 >> >>,
      << << "b", "a", 1, 1 >>, << "a", "b", 2, 2 >>, << "b", "c", 0, 3 >> >>,
      << << "b", "@U.F.A@", 2, 1 >>, << "@0@", "b", 1, 2 >>, << "b", "@U.F.A@", 1, 2 >> >>,
      << << "c", "c", 2, 1 >>, << "@U.F.A@", "@U.F.A@", 1, 2 >>, << "a", "@0@", 2, 3 >> >> }

\* Rows for the packing of the index table: what matters is which offsets a
\* state has.
PackingRows ==
    { << << "b", "b", 1, 1 >> >>,
      << << "@0@", "a", 1, 1 >>, << "a", "a", 2, 1 >> >>,
      << << "@U.F.A@", "@U.F.A@", 1, 1 >>, << "c", "c", 3, 1 >> >>,
      << << "a", "a", 1, 1 >>, << "b", "b", 2, 1 >>, << "c", "c", 0, 1 >> >> }
=============================================================================

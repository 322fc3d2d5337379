------------------------- MODULE MCComposeIntersect -------------------------
(***************************************************************************)
(* Instances of ComposeIntersect: small acyclic lexicons and cyclic rules, *)
(* alone, in pairs and in chains of three.                                 *)
(***************************************************************************)
EXTENDS ComposeIntersect

CONSTANTS Chosen            \* names of the calls of one configuration

O == "@0@"
ID == "@_IDENTITY_SYMBOL_@"
WB == "@#@"
FLAG == "@P.F.A@"

MCOrder == << O, ID, WB, FLAG, "a", "b", HiddenIdentity >>

A(in, out, target, weight) == [in |-> in, out |-> out, target |-> target, weight |-> weight]

T(alphabet, rows, finals) ==
    [alphabet |-> alphabet \cup {O, ID},
     arcs |-> [s \in 0 .. Len(rows) - 1 |-> rows[s + 1]],
     final |-> [s \in 0 .. Len(rows) - 1 |-> IF s \in finals THEN {s} ELSE {}]]

Lexicon ==
  [word |->          \* two words of different length
     T({"a", "b"}, << {A("a", "a", 1, 1)}, {A("b", "b", 2, 0)}, {} >>, {1, 2}),
   ambiguous |->     \* two inputs for one output
     T({"a", "b"}, << {A("a", "b", 1, 1), A("b", "b", 1, 2), A("a", "a", 2, 0)},
                      {A("b", "a", 2, 1)}, {} >>, {1, 2}),
   epsilons |->      \* epsilon on either side
     T({"a", "b"}, << {A("a", O, 1, 1), A(O, "b", 1, 0)}, {A("b", "a", 2, 0), A("a", O, 2, 3)}, {} >>, {2}),
   identity |->      \* any symbol other than a and b, or a and b themselves
     T({"a", "b"}, << {A(ID, ID, 1, 1), A("a", "b", 1, 0)}, {A("b", "a", 2, 0)}, {} >>, {1, 2}),
   flags |->         \* a flag diacritic between two symbols
     T({"a", "b", FLAG}, << {A("a", "a", 1, 0)}, {A(FLAG, FLAG, 2, 1)}, {A("a", "b", 3, 0)}, {} >>, {2, 3}),
   late |->          \* state 1 is also reached past a rule's epsilon
     T({"a", "b"}, << {A("a", "a", 1, 0), A("b", "b", 4, 0)}, {A("b", O, 2, 1)}, {A("a", "a", 3, 0)},
                      {}, {A("b", "b", 1, 0)} >>, {3}),
   harmonized |->    \* knows the boundary symbol, as hfst-compose-intersect leaves it
     T({"a", "b", WB}, << {A(ID, ID, 1, 1), A(WB, WB, 1, 1), A("a", "b", 1, 0)}, {A("b", "a", 2, 0)}, {} >>, {1, 2}),
   bounded |->       \* word boundaries of its own, to which the code adds a second pair
     T({"a", "b", WB}, << {A(O, WB, 1, 0)}, {A("a", "a", 2, 1), A("b", "a", 2, 0)}, {A("b", "b", 3, 0)},
                          {A(O, WB, 4, 0)}, {} >>, {4})]

Rule ==
  [free |->          \* a may become b
     T({"a", "b"}, << {A("a", "a", 0, 0), A("a", "b", 0, 1), A("b", "b", 0, 0), A(ID, ID, 0, 0)} >>, {0}),
   unknown |->       \* knows no symbol
     T({}, << {A(ID, ID, 1, 1)}, {A(ID, ID, 0, 0)} >>, {0, 1}),
   context |->       \* a becomes b exactly after b, or after a b that was an a
     T({"a", "b"}, << {A("a", "a", 0, 0), A("a", "b", 1, 2), A("b", "b", 1, 0), A(ID, ID, 0, 0)},
                      {A("a", "b", 1, 1), A("b", "b", 1, 0)} >>, {0, 1}),
   delete |->        \* b may be deleted once
     T({"a", "b"}, << {A("a", "a", 0, 0), A("a", "b", 0, 0), A("b", "b", 0, 0), A("b", O, 1, 1)},
                      {A("a", "a", 1, 0), A("b", "b", 1, 0), A(ID, ID, 1, 0)} >>, {0, 1}),
   insert |->        \* b may be inserted after a
     T({"a", "b"}, << {A("a", "a", 1, 0), A("b", "b", 3, 0), A(ID, ID, 0, 0)}, {A(O, "b", 2, 1), A("b", "b", 1, 0)},
                      {A("a", "a", 2, 0), A("b", "b", 2, 0)}, {A("b", "b", 2, 0), A("a", "b", 3, 0)} >>, {0, 1, 2, 3}),
   boundary |->      \* a becomes b at the end of a word
     T({"a", "b", WB}, << {A(WB, O, 1, 0)}, {A("a", "a", 1, 0), A("a", "b", 2, 0), A("b", "b", 2, 1)},
                          {A(WB, O, 3, 0), A("b", "b", 2, 0)}, {} >>, {3}),
   flagged |->       \* knows the flag: b must follow it
     T({"a", "b", FLAG}, << {A("a", "a", 0, 0), A("b", "b", 0, 0), A(FLAG, FLAG, 1, 0)},
                            {A("b", "b", 0, 0)} >>, {0})]

Call(l, rs, invert) ==
    [lexicon |-> Lexicon[l], rules |-> [k \in DOMAIN rs |-> Rule[rs[k]]], invert |-> invert]

Words0 == {"word", "ambiguous", "epsilons", "identity", "flags", "late"}
Rules0 == {"free", "unknown", "context", "delete", "insert"}
Lists(S, n) == [1 .. n -> S]

MCCases ==
  UNION {
    CASE c = "one" -> {Call(l, rs, FALSE) : l \in Words0, rs \in Lists(Rules0 \cup {"boundary"}, 1)}
      [] c = "two" -> {Call(l, rs, i) : l \in Words0, rs \in Lists(Rules0, 2), i \in BOOLEAN}
      [] c = "three" -> {Call(l, rs, FALSE) : l \in {"ambiguous", "late"},
                                              rs \in Lists({"free", "delete", "insert"}, 3)}
      [] c = "boundaries" -> {Call(l, << "boundary", "boundary" >>, i) :
                                l \in Words0 \cup {"harmonized"}, i \in BOOLEAN}
                               \cup {Call("harmonized", << r >>, FALSE) : r \in {"free", "boundary"}}
      [] c = "flagged" -> {Call("flags", << "flagged" >>, FALSE)}
      [] c = "bounded already" -> {Call("bounded", << "boundary" >>, FALSE)}
      [] c = "inverted alone" -> {Call("ambiguous", << "free" >>, TRUE)} : c \in Chosen}

=============================================================================
